----------------------------- MODULE SessionPage -----------------------------
(***************************************************************************)
(* The customer's page /sessions/:sourceTransactionHash (apps/web/src/     *)
(* pages/SessionPage.tsx): it creates the handoff of a rental, shows it as *)
(* a QR code, and remembers its nonce in the customer's localStorage.      *)
(***************************************************************************)
EXTENDS DeviceHandoff

CONSTANT MaxFaults  \* bound on requests and reads that fail

VARIABLES
  customerNonce,  \* customerHandoffStorageKey: the nonce of each rental, or Zero
  shown,          \* nonces whose QR code or link was ever shown
  faults          \* requests and reads that failed so far

sessionVars == <<customerNonce, shown>>

ASSUME FaultsAssumption == MaxFaults \in Nat

SessionTypeOK ==
  /\ customerNonce \in [Order -> OrZero(Nonce)]
  /\ shown \subseteq Nonce
  /\ faults \in 0 .. MaxFaults

SessionInit ==
  /\ customerNonce = [o \in Order |-> Zero]
  /\ shown = {}
  /\ faults = 0

Fault == faults < MaxFaults /\ faults' = faults + 1

\* The button is there until a handoff is.  The nonce is kept unless the answer
\* is lost, or the connected wallet turns out not to be the payer's.
Generate(o) ==
  /\ customerNonce[o] = Zero
  /\ \E n \in Nonce :
       /\ CreateHandoff(n, o)
       /\ \/ /\ customerNonce' = [customerNonce EXCEPT ![o] = n]
             /\ shown' = shown \cup {n}
             /\ UNCHANGED faults
          \/ UNCHANGED <<sessionVars, faults>>
          \/ UNCHANGED sessionVars /\ Fault

\* On load, any failure to fetch the remembered handoff forgets it.
Restore(o) ==
  /\ customerNonce[o] # Zero
  /\ customerNonce' = [customerNonce EXCEPT ![o] = Zero]
  /\ Fault
  /\ UNCHANGED <<handoffVars, shown>>

SessionNext == \E o \in Order : Generate(o) \/ Restore(o)
=============================================================================
