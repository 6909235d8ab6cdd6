---------------------------- MODULE MCPublication ----------------------------
(***************************************************************************)
(* The deployer o1 and another operator o2 in one browser, and the seed    *)
(* command; m1 is in the catalog and also a label an operator may choose.  *)
(***************************************************************************)
EXTENDS Publication

CONSTANTS o1, o2, m1, d1, d2

MCOperator == {o1, o2}
MCNone == {}
MCMachine == {m1}
MCController == {o1, o2}
MCMetadataHash == {d1, d2}
MCLocalMetadata == {d1}
MCTokenAmount == {0}
MCNonce == {1}
MCSpender == {Registry}
MCDraft ==
  {[machineId |-> m1, controller |-> o1, metadataHash |-> d2, tariff |-> 1, active |-> TRUE]}
MCPolicy ==
  {[machineId |-> m1, controller |-> o1, metadataHash |-> d1, tariff |-> 1, active |-> FALSE]}
MCCatalog == <<[machineId |-> m1, metadataHash |-> d1, tariff |-> 1]>>
=============================================================================
