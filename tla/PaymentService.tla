---------------------------- MODULE PaymentService ---------------------------
(* What a payment is owed, however it is run: it is taken from its sender   *)
(* at most once, paid out to its recipient only after that, and never more  *)
(* than its amount.  The netting ledger and the cross-shard transactions    *)
(* both implement this specification.                                       *)
EXTENDS Integers

CONSTANTS
    Orders,     \* the payments
    Amount      \* the amount of each

VARIABLES
    taken,      \* the payments taken from their senders
    paid        \* what was paid out of each

pvars == <<taken, paid>>

Init ==
    /\ taken = {}
    /\ paid = [p \in Orders |-> 0]

(* A block takes and pays out any number of payments.  What is paid out of  *)
(* a payment only grows: the matched part and the fallback are paid apart.  *)
Block ==
    /\ taken \subseteq taken'
    /\ taken' \subseteq Orders
    /\ paid' \in [Orders -> Int]
    /\ \A p \in Orders :
        /\ paid[p] <= paid'[p]
        /\ paid'[p] <= Amount[p]
        /\ paid'[p] # paid[p] => p \in taken'

Spec == Init /\ [][Block]_pvars
=============================================================================
