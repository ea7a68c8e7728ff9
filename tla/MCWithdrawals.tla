--------------------------- MODULE MCWithdrawals ---------------------------
(* One user; every request is for the same amount. *)
EXTENDS Withdrawals, TLC

MCUserOf == [x \in Requests |-> CHOOSE u \in Users : TRUE]
MCAmount == [x \in Requests |-> 2]
MCFunds == [u \in Users |-> 4]
=============================================================================
