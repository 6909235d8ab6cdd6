----------------------------- MODULE MCCheckout -----------------------------
(***************************************************************************)
(* One browser, one machine, one account, two prices and two durations.   *)
(***************************************************************************)
EXTENDS Checkout, TLC

CONSTANTS o1, r1, m1, c1, d1, t1, t2

MCOperator == {o1}
MCRenter == {r1}
MCMachine == {m1}
MCController == {c1}
MCMetadataHash == {d1}
MCNone == {}
MCTokenAmount == {0}
MCNonce == 1 .. MaxBroadcast
MCOneTab == {t1}
MCTwoTabs == {t1, t2}
MCSpender == {Registry}
=============================================================================
