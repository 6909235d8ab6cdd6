----------------------------- MODULE MCProofKey -----------------------------
(* Instances of ProofKey for TLC. *)
EXTENDS ProofKey

CONSTANTS op1, op2, r1, w1, m1, n1, n2, c1, h1

\* A contract that logs what looks like a renter's payment of the longest usage.
MCForeignLog ==
  {[address |-> ForeignContract, orderId |-> OrderId(m1, r, n1), machineId |-> m1,
    payer |-> r, beneficiary |-> b, startTime |-> 0, duration |-> MaxDuration,
    amount |-> MaxDuration] : r \in Renter, b \in Operator}
=============================================================================
