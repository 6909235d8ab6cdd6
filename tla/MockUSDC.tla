------------------------------ MODULE MockUSDC ------------------------------
(***************************************************************************)
(* The payment token on Sepolia (contracts/mocks/MockUSDC.sol).  A call    *)
(* that reverts changes nothing, so a require is a guard.  Arithmetic is   *)
(* checked (solc 0.8): an addition that would exceed uint256 reverts, and  *)
(* MaxUint256 stands for type(uint256).max, which is also the allowance    *)
(* that transferFrom never decrements.                                     *)
(***************************************************************************)
EXTENDS Domain

CONSTANTS
  Registry,     \* address of UsagePaymentRegistry
  Spender,      \* addresses an account may approve; Registry is one of them
  TokenAmount,  \* amounts passed to approve, mint and a direct transferFrom
  MaxUint256

VARIABLES totalSupply, balanceOf, allowance

tokenVars == <<totalSupply, balanceOf, allowance>>

Amount == 0 .. MaxUint256

ASSUME TokenAssumption ==
  /\ Registry \in Spender
  /\ MaxUint256 \in Nat
  /\ TokenAmount \subseteq Amount
  /\ \A p \in Price, d \in 0 .. MaxDuration : p * d \in Amount

TokenTypeOK ==
  /\ totalSupply \in Amount
  /\ balanceOf \in [Account -> Amount]
  /\ allowance \in [Account -> [Spender -> Amount]]

TokenInit ==
  /\ totalSupply = 0
  /\ balanceOf = [a \in Account |-> 0]
  /\ allowance = [a \in Account |-> [s \in Spender |-> 0]]

Approve(holder, spender, amount) ==
  /\ allowance' = [allowance EXCEPT ![holder][spender] = amount]
  /\ UNCHANGED <<totalSupply, balanceOf>>

\* Checked arithmetic.
Fits(amount) == amount <= MaxUint256

\* Debit and credit are two statements, so a transfer to oneself leaves the
\* balance alone.
Moved(from, to, amount) ==
  LET debited == [balanceOf EXCEPT ![from] = @ - amount]
  IN  [debited EXCEPT ![to] = @ + amount]

TransferFrom(spender, from, to, amount) ==
  /\ to # Zero
  /\ allowance[from][spender] >= amount
  /\ balanceOf[from] >= amount
  /\ allowance' = IF allowance[from][spender] = MaxUint256
                  THEN allowance
                  ELSE [allowance EXCEPT ![from][spender] = @ - amount]
  /\ Fits(Moved(from, to, amount)[to])
  /\ balanceOf' = Moved(from, to, amount)
  /\ UNCHANGED totalSupply

Mint(recipient, amount) ==
  /\ recipient # Zero
  /\ Fits(totalSupply + amount)
  /\ Fits(balanceOf[recipient] + amount)
  /\ totalSupply' = totalSupply + amount
  /\ balanceOf' = [balanceOf EXCEPT ![recipient] = @ + amount]
  /\ UNCHANGED allowance

\* The calls accounts make on the token itself; the registry calls
\* TransferFrom from inside payForUsage only.
TokenNext ==
  \E amount \in TokenAmount :
    \/ \E holder \in Payer, spender \in Spender : Approve(holder, spender, amount)
    \/ \E spender \in Spender \ {Registry}, from \in Account, to \in OrZero(Account) :
         TransferFrom(spender, from, to, amount)
    \/ \E recipient \in OrZero(Payer) : Mint(recipient, amount)
=============================================================================
