----------------------------- MODULE Entitlement -----------------------------
(***************************************************************************)
(* What ProofKey promises, with no chains, proofs or relays in it.  A      *)
(* usage window is bought under an order of its own.  It may be redeemed   *)
(* once, while it is still open, and only if that extends the buyer's pass *)
(* for the machine; redeeming it makes the pass end exactly when the       *)
(* window does.  Nothing else touches a pass.                              *)
(***************************************************************************)
EXTENDS Integers

CONSTANTS
  Machine, Account, Order,
  NoOrder   \* the order of a pass nobody redeemed for

VARIABLES
  bought,    \* the windows paid for
  redeemed,  \* orders that were redeemed
  pass,      \* machine -> holder -> the order it rests on and its end
  now        \* the clock passes are checked against

promiseVars == <<bought, redeemed, pass, now>>

Window == [orderId : Order, machineId : Machine, holder : Account, expiresAt : Int]

PromiseInit ==
  /\ bought = {}
  /\ redeemed = {}
  /\ pass = [m \in Machine |-> [a \in Account |-> [authorizationId |-> NoOrder, expiresAt |-> 0]]]
  /\ now = 0

Buy(window) ==
  /\ window \in Window
  /\ \A other \in bought : other.orderId # window.orderId
  /\ bought' = bought \cup {window}
  /\ UNCHANGED <<redeemed, pass, now>>

Redeem(window) ==
  /\ window \in bought
  /\ window.orderId \notin redeemed
  /\ window.expiresAt > now
  /\ window.expiresAt > pass[window.machineId][window.holder].expiresAt
  /\ redeemed' = redeemed \cup {window.orderId}
  /\ pass' = [pass EXCEPT ![window.machineId][window.holder] =
                [authorizationId |-> window.orderId, expiresAt |-> window.expiresAt]]
  /\ UNCHANGED <<bought, now>>

TimePasses ==
  /\ now' > now
  /\ UNCHANGED <<bought, redeemed, pass>>

\* The window bought is the one window the step adds.
PromiseNext ==
  \/ \E window \in bought' \ bought : Buy(window)
  \/ \E window \in bought : Redeem(window)
  \/ TimePasses

PromiseSpec == PromiseInit /\ [][PromiseNext]_promiseVars
=============================================================================
