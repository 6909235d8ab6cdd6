---------------------------- MODULE MCRentalViews ----------------------------
(***************************************************************************)
(* One account that owns and rents one machine, a long payment and one     *)
(* of any length, and two tariffs.                                         *)
(***************************************************************************)
EXTENDS RentalViews

CONSTANTS o1, o2, c1, m1, d1, d2, n1, n2

MCOperator == {o1, o2}
MCRenter == {o1}
MCMachine == {m1}
MCController == {o1, c1}
MCMetadataHash == {d1, d2}
MCNone == {}
MCTokenAmount == {0}
MCNonce == {n1, n2}
MCEarlier == {2}  \* a viewed payment may be shorter, or as long and later
MCSpender == {Registry}
=============================================================================
