----------------------------- MODULE OrderLedger -----------------------------
(***************************************************************************)
(* What an account with an order book promises, without saying how orders  *)
(* are executed: money moves only when an order settles, an order settles  *)
(* at most once, and the balance is never overdrawn.                       *)
(***************************************************************************)
EXTENDS Integers

CONSTANTS Ids,      \* orders that may ever be placed
          Deposit   \* initial balance

VARIABLES balance, settled

Init == balance = Deposit /\ settled = {}

Settle(id) ==
    /\ id \notin settled
    /\ settled' = settled \cup {id}
    /\ balance' \in Int
    /\ balance' >= 0

Next == \E id \in Ids : Settle(id)

Spec == Init /\ [][Next]_<<balance, settled>>
=============================================================================
