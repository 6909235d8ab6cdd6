--------------------------- MODULE DeviceHandoff ---------------------------
(***************************************************************************)
(* The relay API's device handoffs: http.ts, usage-receipt.ts and the      *)
(* table of store.ts.  A nonce is claimed by the terminal that scans it,   *)
(* and then carries the session's start and end receipt.  Handlers await   *)
(* the row, check it, and await one conditional UPDATE: the check and the  *)
(* UPDATE are separate steps, and the pages' requests pass through both.   *)
(*                                                                         *)
(* A receipt here is always signed by the controller it declares; that is  *)
(* the one thing about signatures the server checks.                       *)
(***************************************************************************)
EXTENDS AccessReads

CONSTANTS
  Nonce,       \* random 32-byte nonces
  Token,       \* random 32-byte claim tokens
  NoToken,     \* claim_token_hash IS NULL
  HandoffTtl,  \* 120 seconds
  Margin,      \* 5 seconds
  MaxServerTime \* bound on the API's clock

VARIABLES
  handoffs,   \* the table of device handoffs, by nonce
  serverTime  \* the API's clock

handoffVars == <<handoffs, serverTime>>

Null == -1  \* endedAt of a start receipt

NoReceipt ==
  [kind |-> "none", controller |-> Zero, startedAt |-> 0, endedAt |-> Null, measured |-> 0]
StartReceipts ==
  [kind : {"start"}, controller : OrZero(Controller), startedAt : Timestamp,
   endedAt : {Null}, measured : {0}]
EndReceipts ==
  [kind : {"end"}, controller : OrZero(Controller), startedAt : Timestamp,
   endedAt : Timestamp, measured : Timestamp]

NoHandoff ==
  [orderId |-> Zero, accessExpiresAt |-> 0, expiresAt |-> 0, token |-> NoToken,
   startReceipt |-> NoReceipt, endReceipt |-> NoReceipt]
Handoff ==
  [orderId : OrZero(Order), accessExpiresAt : Timestamp, expiresAt : Timestamp,
   token : Token \cup {NoToken}, startReceipt : StartReceipts \cup {NoReceipt},
   endReceipt : EndReceipts \cup {NoReceipt}]

ASSUME HandoffAssumption ==
  /\ Zero \notin Nonce
  /\ NoToken \notin Token
  /\ HandoffTtl \in Nat
  /\ Margin \in Nat
  /\ MaxServerTime \in Timestamp

HandoffTypeOK == handoffs \in [Nonce -> Handoff] /\ serverTime \in 0 .. MaxServerTime

HandoffInit ==
  /\ handoffs = [n \in Nonce |-> NoHandoff]
  /\ serverTime = 0

ServerTick ==
  /\ serverTime < MaxServerTime
  /\ serverTime' = serverTime + 1
  /\ UNCHANGED handoffs

\* A handoff does not outlive the access.
HandoffEnd(end) ==
  IF serverTime + HandoffTtl < end THEN serverTime + HandoffTtl ELSE end

\* POST /device-handoffs, of a completed job with enough access left.
CreateHandoff(n, o) ==
  /\ handoffs[n] = NoHandoff
  /\ jobs[o] # NoJob
  /\ jobs[o].accessExpiresAt > serverTime + Margin
  /\ LET end == jobs[o].accessExpiresAt IN
       handoffs' = [handoffs EXCEPT ![n] =
         [NoHandoff EXCEPT !.orderId = o, !.accessExpiresAt = end, !.expiresAt = HandoffEnd(end)]]
  /\ UNCHANGED serverTime

\* What GET returns: the record, of which the token is no part.
Public(n) == [handoffs[n] EXCEPT !.token = NoToken]

\* The handler's own check, before the UPDATE.
ClaimInTime(n) == handoffs[n].expiresAt > serverTime

\* WHERE claim_token_hash IS NULL; mutated, dropped.
ClaimableTwice(n) == TRUE
Claimable(n) == handoffs[n].token = NoToken

\* randomBytes(32).
Fresh(token) == \A n \in Nonce : handoffs[n].token # token

ClaimHandoff(n, token) ==
  /\ Fresh(token)
  /\ Claimable(n)
  /\ handoffs' = [handoffs EXCEPT ![n].token = token]
  /\ UNCHANGED serverTime

\* Mutated: an end receipt is checked in itself only.
UsageReceiptInItself(h, r) ==
  /\ r.startedAt <= h.accessExpiresAt
  /\ r.kind = "end" =>
       /\ r.endedAt \in r.startedAt .. h.accessExpiresAt
       /\ r.measured = r.endedAt - r.startedAt

AssertUsageReceipt(h, r) ==
  /\ r.startedAt <= h.accessExpiresAt
  /\ r.kind = "start" => r.endedAt = Null /\ r.measured = 0
  /\ r.kind = "end" =>
       /\ r.endedAt \in r.startedAt .. h.accessExpiresAt
       /\ r.measured = r.endedAt - r.startedAt
       /\ h.startReceipt # NoReceipt
       /\ h.startReceipt.startedAt = r.startedAt
       /\ h.startReceipt.controller = r.controller

\* The UPDATE's prerequisite; mutated, without an order.
InAnyOrder(h, kind) == TRUE
InOrder(h, kind) ==
  IF kind = "start" THEN h.startReceipt = NoReceipt
  ELSE h.startReceipt # NoReceipt /\ h.endReceipt = NoReceipt

ReceiptTaken(n, token, r) == handoffs[n].token = token /\ InOrder(handoffs[n], r.kind)

PutDeviceReceipt(n, token, r) ==
  /\ ReceiptTaken(n, token, r)
  /\ handoffs' = IF r.kind = "start" THEN [handoffs EXCEPT ![n].startReceipt = r]
                                     ELSE [handoffs EXCEPT ![n].endReceipt = r]
  /\ UNCHANGED serverTime
=============================================================================
