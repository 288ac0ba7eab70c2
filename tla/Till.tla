-------------------------------- MODULE Till --------------------------------
(***************************************************************************)
(* What paying by card promises, without blocks, buffers, retries or the   *)
(* order of the writes: money leaves a card in whole debits that respect   *)
(* the minimum balance, and only money that left a card is recorded as     *)
(* sold.  Where a write may stop in the middle of a block, the retry of a  *)
(* debit may undo it, as long as the debit is not recorded.                *)
(***************************************************************************)
EXTENDS Integers

CONSTANTS
  Cards, Opening, Minimum,
  Tears     \* a write may stop in the middle of a block

VARIABLES
  balance,  \* what each card holds
  sold      \* what the journal says was sold to each card

vars == <<balance, sold>>

Init ==
  /\ balance = [c \in Cards |-> Opening]
  /\ sold = [c \in Cards |-> 0]

Debit(c, amount) ==
  /\ balance[c] - amount >= Minimum
  /\ balance' = [balance EXCEPT ![c] = @ - amount]
  /\ UNCHANGED sold

\* Money debited and not yet recorded.
Due(c) == Opening - balance[c] - sold[c]

Record(c, amount) ==
  /\ amount <= Due(c)
  /\ sold' = [sold EXCEPT ![c] = @ + amount]
  /\ UNCHANGED balance

\* The retry of a failed debit may complete it and record it in one go.
DebitAndRecord(c, amount) ==
  /\ balance[c] - amount >= Minimum
  /\ balance' = [balance EXCEPT ![c] = @ - amount]
  /\ sold' = [sold EXCEPT ![c] = @ + amount]

\* The retry may also spoil the block of a debit that was carried out: the card
\* holds the old balance again.
TakeBack(c, amount) ==
  /\ Tears
  /\ amount <= Due(c)
  /\ balance' = [balance EXCEPT ![c] = @ + amount]
  /\ UNCHANGED sold

Next ==
  \E c \in Cards, amount \in 1..Opening :
    \/ Debit(c, amount) \/ Record(c, amount)
    \/ DebitAndRecord(c, amount) \/ TakeBack(c, amount)

Spec == Init /\ [][Next]_vars
=============================================================================
