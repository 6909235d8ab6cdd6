----------------------------- MODULE DevicePage -----------------------------
(***************************************************************************)
(* The public terminal /device/:machineId (apps/web/src/pages/             *)
(* DevicePage.tsx with device-session.ts): tabs of browsers, each of which *)
(* keeps claim tokens in its localStorage.  A step is what one answer, one *)
(* timer or one click makes the page do.                                   *)
(***************************************************************************)
EXTENDS SessionPage

CONSTANTS
  Tab,      \* open pages
  Browser,  \* localStorage areas
  Warning,  \* 60 seconds
  MaxReads  \* bound on the reads a tab has outstanding

VARIABLES
  tabs,
  storage   \* deviceClaimStorageKey: browser -> nonce -> token

pageVars == <<tabs, storage>>

\* A page that shows an error is as good as closed.
\* request: the signed receipt on its way, sent or asserted by the server; the
\* page is busy meanwhile.  overruled: bookkeeping, whether the last read to
\* end was an overruled one.
NoTab ==
  [stage |-> "closed", browser |-> Zero, nonce |-> Zero, token |-> NoToken, handoff |-> NoHandoff,
   authorization |-> NoSnapshot, authorized |-> FALSE, rpcError |-> FALSE, now |-> 0,
   request |-> NoReceipt, asserted |-> FALSE, reads |-> <<>>, overruled |-> FALSE]

Stage == {"closed", "loading", "claiming", "checked", "open"}

ASSUME PageAssumption ==
  /\ Zero \notin Browser
  /\ Warning \in Nat /\ MaxReads \in Nat \ {0}

TabRecord ==
  [stage : Stage, browser : OrZero(Browser), nonce : OrZero(Nonce),
   token : Token \cup {NoToken}, handoff : Handoff, authorization : Snapshot,
   authorized : BOOLEAN, rpcError : BOOLEAN, now : Timestamp,
   request : StartReceipts \cup EndReceipts \cup {NoReceipt}, asserted : BOOLEAN,
   reads : Seq(Read), overruled : BOOLEAN]

PageTypeOK ==
  /\ tabs \in [Tab -> TabRecord]
  /\ \A t \in Tab : Len(tabs[t].reads) <= MaxReads
  /\ storage \in [Browser -> [Nonce -> Token \cup {NoToken}]]

PageInit ==
  /\ tabs = [t \in Tab |-> NoTab]
  /\ storage = [b \in Browser |-> [n \in Nonce |-> NoToken]]

-----------------------------------------------------------------------------
(* What a tab shows. *)

\* verifyUsageReceipt: consistent, bound to the handoff, and signed by the
\* controller registered now.
VerifyUsageReceipt(h, r, controller) ==
  /\ r.startedAt <= h.accessExpiresAt
  /\ r.kind = "end" =>
       /\ r.endedAt \in r.startedAt .. h.accessExpiresAt
       /\ r.measured = r.endedAt - r.startedAt
       /\ h.startReceipt.startedAt = r.startedAt
  /\ r.controller = controller

\* Mutated: not checked.
ReceiptsTrusted(tab) == TRUE
ReceiptsVerify(tab) ==
  \A r \in {tab.handoff.startReceipt, tab.handoff.endReceipt} \ {NoReceipt} :
    VerifyUsageReceipt(tab.handoff, r, tab.authorization.controller)

BoundToOrder(tab) ==
  /\ tab.authorization.authorizationId = tab.handoff.orderId
  /\ tab.authorization.expiresAt = tab.handoff.accessExpiresAt

Sealed(tab) == tab.handoff.endReceipt # NoReceipt

\* Mutated: expired one second late.
PastExpiryLate(tab) == tab.authorization.expiresAt < tab.now
PastExpiry(tab) == tab.authorization.expiresAt <= tab.now

Granted(s) == s.machineActive /\ s.authorized

Refused(tab) == tab.rpcError \/ (tab.authorized /\ ~ReceiptsVerify(tab))

\* The early returns, in their order.
DeriveDeviceSession(tab) ==
  IF Refused(tab) THEN "fail_closed"
  ELSE IF Sealed(tab) THEN "stopped"
  ELSE IF ~tab.authorized THEN "awaiting_authorization"
  ELSE IF PastExpiry(tab) THEN "expired"
  ELSE IF ~Granted(tab.authorization) THEN "fail_closed"
  ELSE IF ~BoundToOrder(tab) THEN "fail_closed"
  ELSE IF tab.handoff.startReceipt = NoReceipt THEN "unlocked"
  ELSE IF tab.authorization.expiresAt - tab.now <= Warning THEN "expiring"
  ELSE "active"

-----------------------------------------------------------------------------
(* Claiming. *)

Set(t, tab) == tabs' = [tabs EXCEPT ![t] = tab]
SetNoFault(t, tab) == Set(t, tab) /\ UNCHANGED faults

\* The link of a QR code is opened in some browser; the token that browser may
\* have is read before anything is asked of the server.
Open(t) ==
  /\ tabs[t].stage = "closed"
  /\ \E browser \in Browser, n \in shown :
       SetNoFault(t, [NoTab EXCEPT !.stage = "loading", !.browser = browser, !.nonce = n,
                                   !.token = storage[browser][n]])
  /\ UNCHANGED <<handoffVars, storage>>

\* Closing or reloading: nothing but the localStorage survives.
Close(t) ==
  /\ tabs[t].stage # "closed"
  /\ SetNoFault(t, NoTab)
  /\ UNCHANGED <<handoffVars, storage>>

Opened(tab, handoff, token) ==
  [tab EXCEPT !.stage = "open", !.handoff = handoff, !.token = token]

\* GET is answered: a known token is reused, otherwise the nonce is claimed.
Load(t) ==
  /\ tabs[t].stage = "loading"
  /\ SetNoFault(t, IF tabs[t].token # NoToken
                   THEN Opened(tabs[t], Public(tabs[t].nonce), tabs[t].token)
                   ELSE [tabs[t] EXCEPT !.stage = "claiming"])
  /\ UNCHANGED <<handoffVars, storage>>

CheckClaim(t) ==
  /\ tabs[t].stage = "claiming"
  /\ SetNoFault(t, IF ClaimInTime(tabs[t].nonce) THEN [tabs[t] EXCEPT !.stage = "checked"]
                                                  ELSE NoTab)
  /\ UNCHANGED <<handoffVars, storage>>

ClaimRejected(t) ==
  /\ tabs[t].stage = "checked"
  /\ ~Claimable(tabs[t].nonce)
  /\ SetNoFault(t, NoTab)
  /\ UNCHANGED <<handoffVars, storage>>

\* The UPDATE, and its answer: the token is stored and the page opens.  If the
\* answer is lost, or nobody is there to take it, so is the token.
Claim(t) ==
  /\ tabs[t].stage = "checked"
  /\ \E token \in Token :
       /\ ClaimHandoff(tabs[t].nonce, token)
       /\ \/ /\ SetNoFault(t, Opened(tabs[t], Public(tabs[t].nonce), token))
             /\ storage' = [storage EXCEPT ![tabs[t].browser][tabs[t].nonce] = token]
          \/ Set(t, NoTab) /\ Fault /\ UNCHANGED storage
          \/ SetNoFault(t, NoTab) /\ UNCHANGED storage

\* A request of the claim fails before it reaches the server.
ClaimFails(t) ==
  /\ tabs[t].stage \in {"loading", "claiming"}
  /\ Set(t, NoTab)
  /\ Fault
  /\ UNCHANGED <<handoffVars, storage>>

-----------------------------------------------------------------------------
(* Reading Creditcoin: every four seconds, whether the last read ended or not. *)

Inspect(t) ==
  /\ tabs[t].stage = "open"
  /\ Len(tabs[t].reads) < MaxReads
  /\ SetNoFault(t, [tabs[t] EXCEPT !.reads = Append(@, BeginRead(Call))])
  /\ UNCHANGED <<handoffVars, storage>>

Answer(t, i, calls) ==
  LET job == jobs[tabs[t].handoff.orderId] IN
  /\ Awaited(tabs[t].reads[i], calls)
  /\ SetNoFault(t, [tabs[t] EXCEPT !.reads[i] =
                      AnswerCalls(@, calls, job.machineId, job.payer)])
  /\ UNCHANGED <<handoffVars, storage>>

\* getBlock is answered last.
ReadCompletes(t, i) ==
  LET read == tabs[t].reads[i] IN
  /\ read.pending = {}
  /\ SetNoFault(t, [tabs[t] EXCEPT !.authorization = read.snapshot, !.authorized = TRUE,
                      !.rpcError = FALSE, !.now = read.snapshot.blockTimestamp,
                      !.reads = EndRead(@, i, ~Granted(read.snapshot)),
                      !.overruled = read.overruled])
  /\ UNCHANGED <<handoffVars, storage>>

\* The last snapshot stays, hidden by the error.
ReadFails(t, i) ==
  /\ Set(t, [tabs[t] EXCEPT !.rpcError = TRUE, !.reads = EndRead(@, i, TRUE),
                            !.overruled = tabs[t].reads[i].overruled])
  /\ Fault
  /\ UNCHANGED <<handoffVars, storage>>

\* The one-second timer.
Clock(t) ==
  /\ tabs[t].stage = "open"
  /\ tabs[t].now < MaxUint64
  /\ SetNoFault(t, [tabs[t] EXCEPT !.now = @ + 1])
  /\ UNCHANGED <<handoffVars, storage>>

-----------------------------------------------------------------------------
(* Receipts. *)

\* Mutated: usage past the expiry is billed.
EndedAtUncapped(tab) == tab.authorization.blockTimestamp
EndedAt(tab) ==
  IF tab.authorization.blockTimestamp < tab.handoff.accessExpiresAt
  THEN tab.authorization.blockTimestamp ELSE tab.handoff.accessExpiresAt

StartReceipt(tab) ==
  [NoReceipt EXCEPT !.kind = "start", !.controller = tab.authorization.controller,
                    !.startedAt = tab.authorization.blockTimestamp]

EndReceipt(tab) ==
  LET startedAt == tab.handoff.startReceipt.startedAt
      endedAt   == EndedAt(tab)
  IN  [kind |-> "end", controller |-> tab.authorization.controller, startedAt |-> startedAt,
       endedAt |-> endedAt,
       measured |-> IF endedAt < startedAt THEN 0 ELSE endedAt - startedAt]

\* The buttons are there while the connected wallet is the controller last
\* read, which then signs.
CanSign(tab, kind) ==
  /\ tab.stage = "open"
  /\ tab.authorized
  /\ tab.request = NoReceipt
  /\ IF kind = "start" THEN DeriveDeviceSession(tab) = "unlocked"
     ELSE tab.handoff.startReceipt # NoReceipt /\ tab.handoff.endReceipt = NoReceipt

\* A receipt that fails the local verification is not sent.
Sign(t, kind) ==
  LET r == IF kind = "start" THEN StartReceipt(tabs[t]) ELSE EndReceipt(tabs[t]) IN
  /\ CanSign(tabs[t], kind)
  /\ VerifyUsageReceipt(tabs[t].handoff, r, tabs[t].authorization.controller)
  /\ SetNoFault(t, [tabs[t] EXCEPT !.request = r])
  /\ UNCHANGED <<handoffVars, storage>>

Settled(tab) == [tab EXCEPT !.request = NoReceipt, !.asserted = FALSE]

\* The server has read the row and checks the receipt against it.
CheckReceipt(t) ==
  /\ tabs[t].request # NoReceipt
  /\ ~tabs[t].asserted
  /\ SetNoFault(t, IF AssertUsageReceipt(handoffs[tabs[t].nonce], tabs[t].request)
                   THEN [tabs[t] EXCEPT !.asserted = TRUE] ELSE Settled(tabs[t]))
  /\ UNCHANGED <<handoffVars, storage>>

ReceiptRejected(t) ==
  /\ tabs[t].asserted
  /\ ~ReceiptTaken(tabs[t].nonce, tabs[t].token, tabs[t].request)
  /\ SetNoFault(t, Settled(tabs[t]))
  /\ UNCHANGED <<handoffVars, storage>>

\* The UPDATE.  Its answer replaces the tab's handoff, is lost, or finds the tab
\* closed.
Submit(t) ==
  /\ tabs[t].asserted
  /\ PutDeviceReceipt(tabs[t].nonce, tabs[t].token, tabs[t].request)
  /\ \/ SetNoFault(t, [Settled(tabs[t]) EXCEPT !.handoff =
                         [handoffs'[tabs[t].nonce] EXCEPT !.token = NoToken]])
     \/ Set(t, Settled(tabs[t])) /\ Fault
     \/ SetNoFault(t, NoTab)
  /\ UNCHANGED storage

\* The request never reaches the server.
ReceiptLost(t) ==
  /\ tabs[t].request # NoReceipt
  /\ ~tabs[t].asserted
  /\ Set(t, Settled(tabs[t]))
  /\ Fault
  /\ UNCHANGED <<handoffVars, storage>>

Receives(t) == CheckClaim(t) \/ ClaimRejected(t) \/ Claim(t) \/ Load(t)
Signs(t)    == Sign(t, "end") \/ CheckReceipt(t) \/ ReceiptRejected(t) \/ Submit(t)
Reads(t)    == \E i \in 1 .. Len(tabs[t].reads) :
                 ReadCompletes(t, i) \/ \E calls \in Batches : Answer(t, i, calls)

PageNext ==
  \E t \in Tab :
    \/ Open(t) \/ Close(t) \/ ClaimFails(t) \/ Receives(t)
    \/ Inspect(t) \/ Reads(t) \/ Clock(t)
    \/ \E i \in 1 .. Len(tabs[t].reads) : ReadFails(t, i)
    \/ Sign(t, "start") \/ Signs(t) \/ ReceiptLost(t)
=============================================================================
