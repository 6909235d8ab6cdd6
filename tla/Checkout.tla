------------------------------ MODULE Checkout ------------------------------
(***************************************************************************)
(* The customer's checkout (apps/web/src/pages/RentPage.tsx over           *)
(* rental.ts, contracts.ts and worker.ts): pages of one browser that rent  *)
(* one machine, the record of the rental they keep in localStorage, the    *)
(* wallet whose prompts they wait for, and the transactions it signs.      *)
(* A handler is split where it awaits: what the code captured at the click *)
(* stays in the page's `step` until the answer is processed.               *)
(***************************************************************************)
EXTENDS Listing

CONSTANTS
  Tab,           \* pages open on the machine in the customer's browser
  RentedMachine,
  MaxBroadcast,  \* bound on the transactions the wallet signs
  MaxRentals,    \* bound on "Start another rental"
  MaxMishaps     \* bound on what goes wrong or is done unusually

VARIABLES
  page,       \* what the component of each tab holds
  stored,     \* the localStorage record of this machine
  account,    \* account connected on Sepolia, Zero when there is none
  broadcast,  \* signed transactions; the position is the hash
  prompts,    \* wallet prompts that outlived their page
  jobs,       \* the relay's job per hash
  started,    \* number of the current rental
  mishaps

checkoutVars ==
  <<page, stored, account, broadcast, prompts, jobs, started, mishaps>>
vars == <<sepoliaVars, machines, checkoutVars>>

Hash == 1 .. MaxBroadcast   \* 0 is the undefined hash
Phase == {"duration", "review", "funds", "payment", "approving", "confirming",
          "relay", "access"}
JobPhase == {"none", "queued", "completed", "failed"}
LegalDuration == 1 .. MaxDuration

Session ==
  [phase : Phase, durationSeconds : LegalDuration, account : OrZero(Renter),
   approval : 0 .. MaxBroadcast, source : 0 .. MaxBroadcast]
Snapshot ==
  [known : BOOLEAN, amount : Amount, balanceSufficient : BOOLEAN, gasSufficient : BOOLEAN]
Paying == {"approvalWait", "checking", "approvePrompt", "approveWait", "payPrompt"}
Prompting == {"mintPrompt", "approvePrompt", "payPrompt"}
Step ==
  [at : Paying \cup Prompting \cup
        {"idle", "inspecting", "mintWait", "reinspecting", "recovering", "payWait",
         "enqueueing", "polling"},
   account : OrZero(Renter), price : Price, duration : LegalDuration,
   hash : 0 .. MaxBroadcast, approved : BOOLEAN]
Page ==
  [session : Session, offer : Price, snapshot : Snapshot, step : Step,
   job : JobPhase, resume : 0 .. MaxBroadcast]
Broadcast ==
  [kind : {"mint", "approve", "pay"}, from : Renter, amount : Amount,
   duration : LegalDuration, approved : BOOLEAN, lost : BOOLEAN, rental : 1 .. MaxRentals,
   nonce : 0 .. MaxBroadcast, status : {"pending", "mined", "reverted", "dropped"},
   receipt : 0 .. MaxTransactions]

ASSUME CheckoutAssumption ==
  /\ RentedMachine \in Machine
  /\ MaxBroadcast \in Nat /\ MaxRentals \in Nat \ {0} /\ MaxMishaps \in Nat
  /\ MaxBroadcast <= MaxTransactions
  /\ Hash \subseteq Nonce
  /\ MaxDuration > 0 /\ MaxPrice > 0
  /\ \A p \in Price, d \in LegalDuration : 2 * p * d \in Amount

CheckoutTypeOK ==
  /\ page \in [Tab -> Page]
  /\ stored \in {<<>>} \cup {<<s>> : s \in Session}
  /\ account \in OrZero(Renter)
  /\ broadcast \in Seq(Broadcast) /\ Len(broadcast) <= MaxBroadcast
  /\ \A p \in prompts : p \in Broadcast
  /\ jobs \in [Hash -> JobPhase]
  /\ started \in 1 .. MaxRentals
  /\ mishaps \in 0 .. MaxMishaps

-----------------------------------------------------------------------------
TheOffer == machineOffers[RentedMachine]
TheMachine == machines[RentedMachine]

\* The price a page shows for a machine it would rent out, 0 for any other.
\* (That the metadata resolves is Marketplace's concern.)
Listing ==
  IF Synchronized(TheMachine, TheOffer) /\ OfferIsActive(TheMachine, TheOffer)
  THEN TheOffer.pricePerSecond ELSE 0

\* The preset of createRentalSession (four hours).
createRentalSession ==
  [phase |-> "duration", durationSeconds |-> 1, account |-> Zero, approval |-> 0,
   source |-> 0]

\* What a reload finds, and a page that would not look.
ForgetsSession == createRentalSession
parseRentalSession == IF stored = <<>> THEN createRentalSession ELSE stored[1]

NoSnapshot ==
  [known |-> FALSE, amount |-> 0, balanceSufficient |-> FALSE, gasSufficient |-> FALSE]
Idle ==
  [at |-> "idle", account |-> Zero, price |-> 0, duration |-> 1, hash |-> 0,
   approved |-> FALSE]

Loaded(session, resume) ==
  [session |-> session, offer |-> Listing, snapshot |-> NoSnapshot, step |-> Idle,
   job |-> "none", resume |-> resume]

\* The effect of ?resume=: another hash than the session's replaces the session.
Resumes(session, resume) == resume # 0 /\ session.source # resume
Resumed(resume, acct) ==
  [createRentalSession EXCEPT !.phase = "confirming", !.account = acct, !.source = resume]

\* A machine its owner has published on both chains.
PublishedInit ==
  \E op \in Operator, p \in Price \ {0}, c \in Controller, hash \in MetadataHash :
    /\ owner = op
    /\ machines = [m \in OrZero(Machine) |-> IF m # RentedMachine THEN NoMachine ELSE
         [owner |-> op, controller |-> c, metadataHash |-> hash, tariff |-> p, active |-> TRUE]]
    /\ machineOffers = [m \in OrZero(Machine) |-> IF m # RentedMachine THEN NoOffer ELSE
         [beneficiary |-> op, pricePerSecond |-> p, active |-> TRUE]]

CheckoutInit ==
  /\ PublishedInit
  /\ paidOrders = {} /\ transactions = <<>> /\ sepoliaTime = 0
  /\ totalSupply = 0 /\ balanceOf = [a \in Account |-> 0]
  /\ \E left \in {0, MaxPrice * MaxDuration} :  \* of an earlier, abandoned checkout
       allowance = [a \in Account |-> [s \in Spender |->
                      IF a \in Renter /\ s = Registry THEN left ELSE 0]]
  /\ page = [t \in Tab |-> Loaded(createRentalSession, 0)]
  /\ stored = <<>>
  /\ account = Zero
  /\ broadcast = <<>>
  /\ prompts = {}
  /\ jobs = [h \in Hash |-> "none"]
  /\ started = 1
  /\ mishaps = 0

-----------------------------------------------------------------------------
(* What a handler does to its page.                                        *)

Chains == <<sepoliaVars, machines>>

Mishap == mishaps < MaxMishaps /\ mishaps' = mishaps + 1

\* commit: the new session goes to state and to localStorage in one update.
Commit(t, session, snapshot, step) ==
  /\ page' = [page EXCEPT ![t] = [@ EXCEPT !.session = session,
                                           !.snapshot = snapshot, !.step = step]]
  /\ stored' = <<session>>

\* The catch and finally blocks: an error text, and the page is idle again.
Paused(t) == page' = [page EXCEPT ![t].step = Idle] /\ UNCHANGED stored

Await(t, step) == page' = [page EXCEPT ![t].step = step] /\ UNCHANGED stored

Busy(t) == page[t].step.at # "idle"

\* The component renders its controls only for a machine it lists as available.
Offered(t) == page[t].offer # 0
InPhase(t, phase) == Offered(t) /\ page[t].session.phase = phase

\* The buttons of each phase and when they are enabled.
PresetEnabled(t) == InPhase(t, "duration") /\ ~Busy(t)
ReviewEnabled(t) == InPhase(t, "duration")   \* also while a balance check is outstanding
EditEnabled(t) == InPhase(t, "review")
InspectEnabled(t) == InPhase(t, "review") /\ ~Busy(t)
FaucetEnabled(t) ==
  /\ InPhase(t, "funds") /\ ~Busy(t)
  /\ page[t].snapshot.known /\ ~page[t].snapshot.balanceSufficient
ContinueEnabled(t) ==
  /\ InPhase(t, "funds") /\ ~Busy(t)
  /\ page[t].snapshot.balanceSufficient /\ page[t].snapshot.gasSufficient
PayEnabled(t) ==
  /\ \E phase \in {"payment", "approving", "confirming", "relay"} : InPhase(t, phase)
  /\ ~Busy(t)

\* A handler that waits for nobody but the customer.
Local == UNCHANGED <<Chains, account, broadcast, prompts, jobs, mishaps>>

-----------------------------------------------------------------------------
(* The buttons.                                                            *)

ApplyDuration(t, d) ==
  /\ PresetEnabled(t)
  /\ Commit(t, [page[t].session EXCEPT !.durationSeconds = d, !.phase = "duration",
                                       !.approval = 0], NoSnapshot, Idle)
  /\ Local /\ UNCHANGED started

validateDuration(d) == d >= 1 /\ d <= MaxDuration

Review(t, d) ==
  /\ ReviewEnabled(t)
  /\ validateDuration(d)
  /\ Commit(t, [page[t].session EXCEPT !.durationSeconds = d, !.phase = "review"],
            page[t].snapshot, page[t].step)
  /\ Local /\ UNCHANGED started

EditDuration(t) ==
  /\ EditEnabled(t)
  /\ Commit(t, [page[t].session EXCEPT !.phase = "duration"], page[t].snapshot, page[t].step)
  /\ Mishap
  /\ UNCHANGED <<Chains, account, broadcast, prompts, jobs, started>>

Captured(t, at) ==
  [Idle EXCEPT !.at = at, !.account = account, !.price = page[t].offer,
               !.duration = page[t].session.durationSeconds]

Inspect(t) ==
  /\ InspectEnabled(t)
  /\ account # Zero
  /\ Await(t, Captured(t, "inspecting"))
  /\ Local /\ UNCHANGED started

GetTestTokens(t) ==
  /\ FaucetEnabled(t)
  /\ account # Zero
  /\ Await(t, Captured(t, "mintPrompt"))
  /\ Local /\ UNCHANGED started

ContinueToPayment(t) ==
  /\ ContinueEnabled(t)
  /\ Commit(t, [page[t].session EXCEPT !.phase = "payment"], page[t].snapshot, Idle)
  /\ Local /\ UNCHANGED started

\* The guard against a second charge.
CanRecover(session) == session.source # 0

PayOrResume(t) ==
  LET session == page[t].session IN
  /\ PayEnabled(t)
  /\ account # Zero
  /\ session.account \in {Zero, account}
  /\ Await(t, IF CanRecover(session)
              THEN [Captured(t, "recovering") EXCEPT !.hash = session.source]
              ELSE IF session.approval # 0
              THEN [Captured(t, "approvalWait") EXCEPT !.hash = session.approval]
              ELSE Captured(t, "checking"))
  /\ Local /\ UNCHANGED started

StartAnother(t) ==
  /\ InPhase(t, "access")
  /\ started < MaxRentals
  /\ stored' = <<>>
  /\ page' = [page EXCEPT ![t] = [@ EXCEPT !.session = createRentalSession,
                                           !.snapshot = NoSnapshot,
                                           !.job = "none"]]
  /\ started' = started + 1
  /\ Local

-----------------------------------------------------------------------------
(* The answers.                                                            *)

\* inspectCheckout: both chains are read again and compared with the price
\* the customer was shown.
Fresh(step) ==
  /\ OfferLoads(TheMachine, TheOffer)
  /\ TheOffer.pricePerSecond = step.price
  /\ OfferIsActive(TheMachine, TheOffer)
Amounts(step) == step.price * step.duration

Inspected(step, gas) ==
  [known |-> TRUE, amount |-> Amounts(step),
   balanceSufficient |-> balanceOf[step.account] >= Amounts(step), gasSufficient |-> gas]

InspectAnswer(t) ==
  LET step == page[t].step IN
  /\ step.at \in {"inspecting", "reinspecting"}
  /\ UNCHANGED <<Chains, account, broadcast, prompts, jobs, started>>
  /\ \/ /\ ~Fresh(step)
        /\ Paused(t) /\ UNCHANGED mishaps
     \/ /\ Fresh(step)
        /\ \E gas \in BOOLEAN :
             /\ IF gas THEN UNCHANGED mishaps ELSE Mishap
             /\ IF step.at = "inspecting"
                THEN Commit(t, [page[t].session EXCEPT !.phase = "funds",
                                                       !.account = step.account],
                            Inspected(step, gas), Idle)
                ELSE /\ page' = [page EXCEPT ![t] = [@ EXCEPT
                                   !.snapshot = Inspected(step, gas), !.step = Idle]]
                     /\ UNCHANGED stored

\* waitForApproval and approval.wait().
Status(h) == broadcast[h].status

ApprovalKnown(t) ==
  LET step == page[t].step IN
  /\ step.at = "approvalWait" /\ Status(step.hash) # "pending"
  /\ IF Status(step.hash) = "mined" THEN Await(t, [step EXCEPT !.at = "checking"])
                                    ELSE Paused(t)
  /\ Local /\ UNCHANGED started

\* payForUsage up to its first prompt.
Check(t) ==
  LET step == page[t].step
      session == page[t].session
      affordable == Fresh(step) /\ balanceOf[step.account] >= Amounts(step)
      approved == allowance[step.account][Registry] >= Amounts(step)
  IN
  /\ step.at = "checking"
  /\ \/ ~affordable /\ Paused(t)
     \/ /\ affordable /\ ~approved
        /\ Commit(t, [session EXCEPT !.phase = "approving", !.account = step.account],
                  page[t].snapshot, [step EXCEPT !.at = "approvePrompt"])
     \/ /\ affordable /\ approved
        /\ Commit(t, [session EXCEPT !.phase = "payment", !.account = step.account],
                  page[t].snapshot, [step EXCEPT !.at = "payPrompt"])
  /\ Local /\ UNCHANGED started

ApprovalMined(t) ==
  LET step == page[t].step IN
  /\ step.at = "approveWait" /\ Status(step.hash) # "pending"
  /\ IF Status(step.hash) = "mined"
     THEN Commit(t, [page[t].session EXCEPT !.phase = "payment", !.account = step.account],
                 page[t].snapshot, [step EXCEPT !.at = "payPrompt", !.approved = TRUE])
     ELSE Paused(t)
  /\ Local /\ UNCHANGED started

MintMined(t) ==
  LET step == page[t].step IN
  /\ step.at = "mintWait" /\ Status(step.hash) # "pending"
  /\ IF Status(step.hash) = "mined" THEN Await(t, [step EXCEPT !.at = "reinspecting"])
                                    ELSE Paused(t)
  /\ Local /\ UNCHANGED started

\* paymentFromReceipt: the UsagePaid logs of this machine in a receipt.
ReceiptPayments(h) ==
  IF broadcast[h].receipt = 0 THEN {}
  ELSE {l \in RegistryLogs(transactions[broadcast[h].receipt]) : l.machineId = RentedMachine}

\* recoverPayment, and the end of payForUsage: both go on to the relay.
PaymentKnown(t) ==
  LET step == page[t].step IN
  /\ step.at \in {"recovering", "payWait"}
  /\ \/ /\ \E log \in ReceiptPayments(step.hash) :
             Commit(t, [page[t].session EXCEPT !.phase = "relay",
                          !.durationSeconds = log.duration,
                          !.source = IF step.at = "payWait" THEN step.hash ELSE @],
                    page[t].snapshot, [step EXCEPT !.at = "enqueueing"])
     \/ /\ Status(step.hash) # "pending" /\ ReceiptPayments(step.hash) = {}
        /\ Paused(t)
  /\ Local /\ UNCHANGED started

\* POST /jobs: the relay's store keeps the first job of a hash.
OnlyLooks(job) == job
Enqueue(job) == IF job = "none" THEN "queued" ELSE job

Enqueued(t) ==
  LET step == page[t].step IN
  /\ step.at = "enqueueing"
  /\ jobs' = [jobs EXCEPT ![step.hash] = Enqueue(@)]
  /\ Await(t, [step EXCEPT !.at = "polling"])
  /\ UNCHANGED <<Chains, account, broadcast, prompts, started, mishaps>>

\* GET /jobs/:hash, every two seconds; a failed job throws.
Unfailed(job) == job # "failed"
Completed(job) == job = "completed"

Polled(t) ==
  LET step    == page[t].step
      job     == jobs[step.hash]
      session == [page[t].session EXCEPT !.phase = IF Completed(job) THEN "access" ELSE "relay"]
  IN
  /\ step.at = "polling" /\ job # "none"
  /\ page' = [page EXCEPT ![t] = [@ EXCEPT !.session = session, !.job = job,
                !.step = IF job = "queued" /\ ~Completed(job) THEN step ELSE Idle]]
  /\ stored' = <<session>>
  /\ Local /\ UNCHANGED started

\* The journey under the checkout: the steps it ticks off.
progressFromJob(job) ==
  IF job = "completed" THEN {"payment", "confirmation", "proof", "unlock"} ELSE {"payment"}

Journey(t) ==
  IF page[t].job # "none" THEN progressFromJob(page[t].job)
  ELSE IF page[t].session.source # 0 THEN {"payment"} ELSE {}

\* Any awaited call may throw (RPC, relay or timeouts), except that a prompt
\* ends with the customer's answer.
Fault(t) ==
  /\ Busy(t) /\ page[t].step.at \notin Prompting
  /\ Paused(t)
  /\ Mishap
  /\ UNCHANGED <<Chains, account, broadcast, prompts, jobs, started>>

-----------------------------------------------------------------------------
(* The wallet.                                                             *)

Kind(at) ==
  CASE at = "mintPrompt" -> "mint" [] at = "approvePrompt" -> "approve"
    [] OTHER -> "pay"

UnlimitedApproval(step) == MaxUint256
ApprovalAmount(step) == Amounts(step)

\* What a prompt asks the customer to sign.  The amount of a payment is not
\* in it: the registry computes it when the transaction is mined.
Request(t) ==
  LET step == page[t].step IN
  [kind |-> Kind(step.at), from |-> step.account,
   amount |-> CASE step.at = "mintPrompt" -> 2 * page[t].snapshot.amount
                [] step.at = "approvePrompt" -> ApprovalAmount(step)
                [] OTHER -> Amounts(step),
   duration |-> step.duration, approved |-> step.approved, lost |-> FALSE,
   rental |-> started, nonce |-> 0, status |-> "pending", receipt |-> 0]

\* The wallet gives a new transaction the account's next nonce.
Broadcasts(request) ==
  /\ Len(broadcast) < MaxBroadcast
  /\ broadcast' = Append(broadcast, [request EXCEPT !.nonce = Len(broadcast) + 1])

\* The customer confirms: the hash is recorded before anything is awaited.
Sign(t) ==
  LET step == page[t].step
      hash == Len(broadcast) + 1
      Recorded(session, at) ==
        Commit(t, session, page[t].snapshot, [step EXCEPT !.at = at, !.hash = hash])
  IN
  /\ step.at \in Prompting
  /\ Broadcasts(Request(t))
  /\ \/ step.at = "mintPrompt" /\ Await(t, [step EXCEPT !.at = "mintWait", !.hash = hash])
     \/ /\ step.at = "approvePrompt"
        /\ Recorded([page[t].session EXCEPT !.phase = "approving", !.account = step.account,
                                            !.approval = hash], "approveWait")
     \/ /\ step.at = "payPrompt"
        /\ Recorded([page[t].session EXCEPT !.phase = "confirming", !.account = step.account,
                                            !.source = hash], "payWait")
  /\ UNCHANGED <<Chains, account, prompts, jobs, started, mishaps>>

\* The customer declines; or the wallet broadcasts and its answer is lost.
Declined(t) ==
  /\ page[t].step.at \in Prompting
  /\ Paused(t)
  /\ Mishap
  /\ \/ UNCHANGED broadcast
     \/ Broadcasts([Request(t) EXCEPT !.lost = TRUE])
  /\ UNCHANGED <<Chains, account, prompts, jobs, started>>

\* A prompt whose page is gone is still in the wallet.
OrphanSigned(p) ==
  /\ p \in prompts
  /\ prompts' = prompts \ {p}
  /\ \/ Broadcasts(p)
     \/ UNCHANGED broadcast
  /\ UNCHANGED <<Chains, page, stored, account, jobs, started, mishaps>>

\* The customer cancels or speeds up a pending transaction: its hash is never
\* mined, and a copy of the same nonce under a new hash may be.
Replaced(h) ==
  /\ h \in DOMAIN broadcast /\ Status(h) = "pending"
  /\ Mishap
  /\ LET dropped == [broadcast EXCEPT ![h].status = "dropped"]
     IN  \/ broadcast' = dropped
         \/ /\ Len(broadcast) < MaxBroadcast
            /\ broadcast' = Append(dropped, broadcast[h])
  /\ UNCHANGED <<Chains, page, stored, account, prompts, jobs, started>>

-----------------------------------------------------------------------------
(* The chain, the relay and the machine's owner.                           *)

Payable(tx) ==
  LET amount == TheOffer.pricePerSecond * tx.duration
  IN  /\ TheOffer.active
      /\ allowance[tx.from][Registry] >= amount
      /\ balanceOf[tx.from] >= amount

\* An account's transactions are mined in the order of their nonces.
Oldest(h) ==
  /\ h \in DOMAIN broadcast /\ Status(h) = "pending"
  /\ \A g \in DOMAIN broadcast :
       Status(g) = "pending" /\ broadcast[g].nonce < broadcast[h].nonce
         => broadcast[g].from # broadcast[h].from

Settled(h, status, receipt) ==
  broadcast' = [broadcast EXCEPT ![h] = [@ EXCEPT !.status = status, !.receipt = receipt]]

MineTransaction(h) ==
  LET tx == broadcast[h] IN
  /\ Oldest(h)
  /\ \/ /\ tx.kind = "mint"
        /\ Mint(tx.from, tx.amount)
        /\ Settled(h, "mined", 0)
        /\ UNCHANGED <<registryVars, transactions, sepoliaTime>>
     \/ /\ tx.kind = "approve"
        /\ Approve(tx.from, Registry, tx.amount)
        /\ Settled(h, "mined", 0)
        /\ UNCHANGED <<registryVars, transactions, sepoliaTime>>
     \/ /\ tx.kind = "pay"
        /\ PayForUsage(tx.from, tx.from, RentedMachine, tx.duration, h)
        /\ Settled(h, "mined", Len(transactions) + 1)
     \/ /\ tx.kind = "pay" /\ ~Payable(tx)
        /\ Settled(h, "reverted", 0)
        /\ UNCHANGED sepoliaVars
  /\ UNCHANGED <<machines, page, stored, account, prompts, jobs, started, mishaps>>

\* Relay and its proofs, seen through the API (Relay.tla models them).
RelayFinishes(h) ==
  /\ jobs[h] = "queued"
  /\ \/ /\ ReceiptPayments(h) # {}
        /\ jobs' = [jobs EXCEPT ![h] = "completed"]
        /\ UNCHANGED mishaps
     \/ jobs' = [jobs EXCEPT ![h] = "failed"] /\ Mishap
  /\ UNCHANGED <<Chains, page, stored, account, broadcast, prompts, started>>

TermsChange ==
  /\ Mishap
  /\ \/ /\ \E p \in Price, active \in BOOLEAN :
             SetMachineOffer(owner, RentedMachine, TheOffer.beneficiary, p, active)
        /\ machineOffers' # machineOffers
        /\ UNCHANGED machines
     \/ /\ \/ \E p \in Price : UpdateTariff(TheMachine.owner, RentedMachine, p)
           \/ \E active \in BOOLEAN : SetMachineActive(TheMachine.owner, RentedMachine, active)
        /\ machines' # machines
        /\ UNCHANGED sepoliaVars
  /\ UNCHANGED <<page, stored, account, broadcast, prompts, jobs, started>>

-----------------------------------------------------------------------------
(* The browser.                                                            *)

\* The cached marketplace is read again when the browser is online again; an
\* open page has no other occasion (no interval, no refetch on focus).
Refetch(t) ==
  /\ page[t].offer # Listing
  /\ page' = [page EXCEPT ![t].offer = Listing]
  /\ Local /\ UNCHANGED <<stored, started>>

\* The page is left or reloaded, or opened through a "Resume" link; a prompt
\* it had open stays in the wallet, where its answer reaches no page.
Open(t, resume) ==
  LET session == parseRentalSession
      replaced == Resumes(session, resume)
  IN
  /\ Mishap
  /\ page' = [page EXCEPT ![t] =
       Loaded(IF replaced THEN Resumed(resume, account) ELSE session, resume)]
  /\ stored' = IF replaced THEN <<Resumed(resume, account)>> ELSE stored
  /\ prompts' = prompts \cup
       IF page[t].step.at \in Prompting THEN {[Request(t) EXCEPT !.lost = TRUE]} ELSE {}
  /\ UNCHANGED <<Chains, account, broadcast, jobs, started>>

\* Another account, or none: every page that was opened by a link applies it again.
Connected(a) ==
  LET replaced == {t \in Tab : Resumes(page[t].session, page[t].resume)} IN
  /\ a # account
  /\ account' = a
  /\ page' = [t \in Tab |-> IF t \in replaced
                THEN [page[t] EXCEPT !.session = Resumed(page[t].resume, a)] ELSE page[t]]
  /\ IF replaced = {} THEN UNCHANGED stored
     ELSE \E t \in replaced : stored' = <<Resumed(page[t].resume, a)>>
  /\ UNCHANGED <<Chains, broadcast, prompts, jobs, started>>

\* Without a wallet the check and pay buttons open the wallet dialog.
ConnectWallet(t) ==
  /\ InspectEnabled(t) \/ PayEnabled(t)
  /\ account = Zero
  /\ \E a \in Renter : Connected(a)
  /\ UNCHANGED mishaps

AccountChange(a) == Connected(a) /\ Mishap

-----------------------------------------------------------------------------
Customer(t) ==
  \/ \E d \in Duration : Review(t, d)
  \/ ConnectWallet(t) \/ Inspect(t) \/ GetTestTokens(t) \/ ContinueToPayment(t) \/ PayOrResume(t)

Answer(t) ==
  \/ InspectAnswer(t) \/ ApprovalKnown(t) \/ Check(t) \/ ApprovalMined(t) \/ MintMined(t)
  \/ PaymentKnown(t) \/ Enqueued(t) \/ Polled(t)

Next ==
  \/ \E t \in Tab :
       \/ Customer(t) \/ Answer(t) \/ Sign(t) \/ Refetch(t)
       \/ \E d \in LegalDuration : ApplyDuration(t, d)
       \/ EditDuration(t) \/ StartAnother(t)
       \/ Fault(t) \/ Declined(t)
       \/ \E resume \in {0, page[t].resume} \cup
                        {h \in DOMAIN broadcast : broadcast[h].kind = "pay"} : Open(t, resume)
  \/ \E p \in prompts : OrphanSigned(p)
  \/ \E h \in DOMAIN broadcast : MineTransaction(h) \/ Replaced(h) \/ RelayFinishes(h)
  \/ TermsChange
  \/ \E a \in OrZero(Renter) : AccountChange(a)

Spec == CheckoutInit /\ [][Next]_vars

\* The customer keeps pressing the one enabled button and signs what the
\* wallet shows; networks, chain and relay answer.  Mishaps run out.  Nothing
\* makes an open page read the marketplace again.
Fairness ==
  /\ \A t \in Tab :
       /\ WF_vars(Customer(t)) /\ WF_vars(Answer(t)) /\ WF_vars(Sign(t))
  /\ \A h \in Hash : WF_vars(MineTransaction(h)) /\ WF_vars(RelayFinishes(h))

FairSpec == Spec /\ Fairness

-----------------------------------------------------------------------------
\* Charges that stand: a dropped or reverted transaction moved no money, and
\* of one signed while no page listened the application cannot know.
Charge(h) ==
  /\ broadcast[h].kind = "pay"
  /\ broadcast[h].status \in {"pending", "mined"}
  /\ ~broadcast[h].lost

(***************************************************************************)
(* A rental is charged once: whatever is retried, reloaded, replaced or    *)
(* resumed, two payments the page itself recorded are never of the same    *)
(* rental (RentPage.tsx stores the hash before it waits, and payOrResume   *)
(* recovers a stored payment before it would create another).              *)
(***************************************************************************)
NoDuplicateCharge ==
  \A g, h \in DOMAIN broadcast :
    Charge(g) /\ Charge(h) /\ broadcast[g].rental = broadcast[h].rental => g = h

(***************************************************************************)
(* A stored payment is recovered: no page has the customer sign a payment  *)
(* while the browser's record already holds the hash of one for the same   *)
(* rental.  One page keeps to it; a second page that was open when the     *)
(* first one paid knows nothing of the record it shares.                   *)
(***************************************************************************)
StoredPaymentIsRecovered ==
  [][\A t \in Tab :
       page[t].step.at = "payPrompt" /\ page'[t].step.at = "payWait" =>
         \/ stored = <<>> \/ stored[1].source = 0
         \/ broadcast[stored[1].source].rental # started]_vars

(***************************************************************************)
(* An exact approval caps the charge: when a checkout approved just before *)
(* paying and no other approval was signed behind its back, the registry   *)
(* takes no more than the approved total, even if the owner re-prices the  *)
(* machine between the check and the block.                                *)
(***************************************************************************)
ApprovalCapsCharge ==
  \A h \in DOMAIN broadcast :
    LET tx == broadcast[h] IN
    /\ tx.kind = "pay" /\ tx.approved /\ ~tx.lost /\ tx.status = "mined"
    /\ \A g \in DOMAIN broadcast : broadcast[g].kind = "approve" => ~broadcast[g].lost
    => \A log \in ReceiptPayments(h) : log.amount <= tx.amount

(***************************************************************************)
(* The page reports access only for a payment that the chain settled for   *)
(* this machine and the relay carried to Creditcoin, also after a reload,  *)
(* a resume link or a change of account replaced the session.              *)
(***************************************************************************)
AccessIsEarned ==
  \A t \in Tab :
    page[t].session.phase = "access" \/ "unlock" \in Journey(t) =>
      /\ page[t].session.source # 0
      /\ jobs[page[t].session.source] = "completed"
      /\ ReceiptPayments(page[t].session.source) # {}

-----------------------------------------------------------------------------
(* Where the page offers the customer no way on.                           *)

Failed(h) == h # 0 /\ h \in DOMAIN broadcast /\ Status(h) \in {"reverted", "dropped"}

\* assertFreshOffer will refuse the price the page shows, however often the
\* customer presses; a stored payment does not need the offer any more.
Outdated(t) == page[t].offer # Listing /\ page[t].session.source = 0 /\ ~Busy(t)

DeadEnd(t) ==
  LET session == page[t].session IN
  \/ ~Offered(t)                                  \* no longer listed as available
  \/ Outdated(t)                                  \* re-priced since the page was opened
  \/ session.account \notin {Zero, account}       \* another wallet started it, or none is here
  \/ session.phase = "funds" /\ ~Busy(t)
       /\ (~page[t].snapshot.known \/ ~page[t].snapshot.gasSufficient)
  \/ session.phase \in {"payment", "approving"} /\ session.source = 0 /\ ~Busy(t)
       /\ \/ Failed(session.approval)
          \/ account # Zero /\ balanceOf[account] < page[t].offer * session.durationSeconds
  \/ Failed(session.source)
  \/ session.source # 0 /\ jobs[session.source] = "failed"
  \/ Len(broadcast) = MaxBroadcast /\ page[t].step.at \in Prompting  \* bound of the model

(***************************************************************************)
(* A checkout leads to access.  With a customer who goes on and networks   *)
(* that answer, a rental ends in phase "access" or in one of the states    *)
(* DeadEnd names, where RentPage.tsx enables no button that helps.         *)
(***************************************************************************)
CheckoutCompletes ==
  \A t \in Tab : []<>(page[t].session.phase = "access" \/ DeadEnd(t))
=============================================================================
