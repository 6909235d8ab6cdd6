------------------------------- MODULE Domain -------------------------------
(***************************************************************************)
(* The values the contracts of both chains speak about.  An address, a     *)
(* bytes32 identifier and a hash are opaque members of small sets; Zero    *)
(* stands for address(0) and for bytes32(0), the value every Solidity      *)
(* mapping returns for a key nobody wrote.                                 *)
(***************************************************************************)
EXTENDS Integers, Sequences, FiniteSets

CONSTANTS
  Operator,     \* externally owned accounts that deploy contracts and run machines
  Renter,       \* externally owned accounts that pay for usage
  Wallet,       \* contract wallets: msg.sender is the wallet, tx.from its user
  Machine,      \* machine identifiers
  Zero,         \* address(0) and bytes32(0)
  MaxPrice,     \* largest price per second tried (uint128 in the code)
  MaxDuration,  \* the contracts' MAX_DURATION (30 days)
  MaxUint64     \* type(uint64).max; both block clocks stop there

Account     == Operator \cup Renter \cup Wallet
Payer       == Renter \cup Wallet
OrZero(S)   == S \cup {Zero}

Price       == 0 .. MaxPrice
Timestamp   == 0 .. MaxUint64
\* Inputs of payForUsage: every legal duration and one on each side of the range.
Duration    == 0 .. (MaxDuration + 1)

ASSUME ZeroIsReserved == Zero \notin Account \cup Machine
ASSUME WalletsAreContracts == Wallet \cap (Operator \cup Renter) = {}
ASSUME BoundsAreNat ==
  /\ MaxPrice \in Nat
  /\ MaxDuration \in Nat
  /\ MaxUint64 \in Nat
=============================================================================
