---------------------------- MODULE DeviceSession ----------------------------
(***************************************************************************)
(* A rental's session: the customer's page, the terminals, the relay's API *)
(* and Creditcoin.                                                         *)
(***************************************************************************)
EXTENDS DevicePage

vars == <<chainVars, handoffVars, sessionVars, pageVars, faults>>

TypeOK == ChainTypeOK /\ HandoffTypeOK /\ SessionTypeOK /\ PageTypeOK

Init == ChainInit /\ HandoffInit /\ SessionInit /\ PageInit

Next ==
  \/ ChainNext /\ UNCHANGED <<handoffVars, sessionVars, pageVars, faults>>
  \/ ServerTick /\ UNCHANGED <<chainVars, sessionVars, pageVars, faults>>
  \/ SessionNext /\ UNCHANGED <<chainVars, pageVars>>
  \/ PageNext /\ UNCHANGED <<chainVars, sessionVars>>

Spec == Init /\ [][Next]_vars

\* Timers fire, requests are answered or fail, block follows block, and the user
\* of a terminal that offers to stop stops.  Reads may hang for ever.
FairSpec ==
  /\ Spec
  /\ WF_vars(ChainTick /\ UNCHANGED <<handoffVars, sessionVars, pageVars, faults>>)
  /\ \A t \in Tab :
       /\ WF_vars(Clock(t) /\ UNCHANGED <<chainVars, sessionVars>>)
       /\ WF_vars(Signs(t) /\ UNCHANGED <<chainVars, sessionVars>>)

-----------------------------------------------------------------------------
Enabled(t) ==
  tabs[t].stage = "open" /\ DeriveDeviceSession(tabs[t]) \in {"active", "expiring"}

Idling(t) == tabs[t].request = NoReceipt

\* A QR code opens one device: however scans, answers and reloads interleave,
\* two browsers never both hold a nonce (store.ts, claimDeviceHandoff).
OneDevicePerNonce ==
  \A t, u \in Tab :
    (/\ tabs[t].stage = "open" /\ tabs[u].stage = "open"
     /\ tabs[t].nonce = tabs[u].nonce) => tabs[t].browser = tabs[u].browser

\* What is sealed is one session: its end receipt continues its start receipt,
\* of the same controller, and neither runs past the access paid for (store.ts,
\* putDeviceReceipt; usage-receipt.ts).
SealedSession ==
  \A n \in Nonce :
    LET start == handoffs[n].startReceipt
        end   == handoffs[n].endReceipt
    IN  end # NoReceipt =>
          /\ start # NoReceipt
          /\ end.controller = start.controller
          /\ end.startedAt = start.startedAt
          /\ end.measured = end.endedAt - start.startedAt
          /\ end.endedAt <= jobs[handoffs[n].orderId].accessExpiresAt

\* Signed evidence is final: whatever tabs send, no receipt the server has
\* accepted is replaced (apps/worker/README.md:20, in strict order).
ReceiptsFinal ==
  [][\A n \in Nonce :
       LET before == handoffs[n]
           after  == handoffs'[n]
       IN  /\ before.startReceipt # NoReceipt => after.startReceipt = before.startReceipt
           /\ before.endReceipt # NoReceipt => after.endReceipt = before.endReceipt]_vars

\* Equipment runs only on a start receipt the server holds, by the controller
\* the terminal read, for the very order and window the pass was last granted
\* for when it read (README.md:30).
EnabledByStoredStart ==
  \A t \in Tab : Enabled(t) =>
    LET row == handoffs[tabs[t].nonce] IN
    /\ row.startReceipt # NoReceipt
    /\ row.startReceipt.controller = tabs[t].authorization.controller
    /\ row.token = tabs[t].token
    /\ tabs[t].authorization.authorizationId = row.orderId

\* No terminal that waits for nothing runs equipment of a sealed session
\* (README.md:31: an end receipt seals the measured duration).
SealedMeansStopped ==
  \A t \in Tab : Enabled(t) /\ Idling(t) => handoffs[tabs[t].nonce].endReceipt = NoReceipt

\* After a read that failed or saw the machine inactive or the payer denied,
\* only a read begun later enables the output (README.md:237).
LateReadNeverUnlocks == \A t \in Tab : Enabled(t) => ~tabs[t].overruled

\* Every running terminal stops at the expiry, whether its reads end, fail or
\* hang (device-session.ts, deriveDeviceSession).
ExpiryEndsSession == \A t \in Tab : Enabled(t) ~> ~Enabled(t)

\* A session a terminal knows to be started is sealed if the terminal stays
\* open and reads the controller who started it, also when access has expired
\* or ended otherwise meanwhile.
StartedSessionsSeal ==
  \A t \in Tab, n \in Nonce :
    <>[](/\ tabs[t].stage = "open" /\ tabs[t].nonce = n
         /\ tabs[t].handoff.startReceipt # NoReceipt
         /\ tabs[t].authorized
         /\ tabs[t].authorization.controller = tabs[t].handoff.startReceipt.controller)
      => <>(handoffs[n].endReceipt # NoReceipt)
=============================================================================
