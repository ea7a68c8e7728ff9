--------------------------- MODULE BankTransfers ---------------------------
(***************************************************************************)
(* What a withdrawal promises a user and the platform.  Its amount is set  *)
(* aside once, out of what the user can spend.  The bank is asked once,    *)
(* and its word is final.  What was set aside returns to the user in full, *)
(* or it leaves the wallet, once and only for a payout the bank has made.  *)
(* A request that callers ended each on their own is contested: it may     *)
(* have been returned as well as paid, but it is still paid once, and only *)
(* if the bank has paid.                                                   *)
(***************************************************************************)
EXTENDS Integers

CONSTANTS Users, Requests, UserOf, Amount, Funds

VARIABLES
    spendable,  \* what a user can spend
    held,       \* all a user's wallet holds
    outcome,    \* "OPEN", "ASIDE", "RETURNED", "PAID" or "CONTESTED"
    debited,    \* requests that have left the wallet
    bank        \* "NONE", "PENDING", "PAID" or "FAILED" at the bank

vars == <<spendable, held, outcome, debited, bank>>

Init ==
    /\ spendable = Funds /\ held = Funds
    /\ outcome = [x \in Requests |-> "OPEN"]
    /\ debited = {}
    /\ bank = [x \in Requests |-> "NONE"]

Ends(x, from, to) == outcome[x] \in from /\ outcome' = [outcome EXCEPT ![x] = to]

(* The two ends of what was set aside. *)
Frees(x) ==
    /\ spendable' = [spendable EXCEPT ![UserOf[x]] = @ + Amount[x]]
    /\ UNCHANGED <<held, debited, bank>>

Leaves(x) ==
    /\ bank[x] = "PAID" /\ x \notin debited
    /\ debited' = debited \cup {x}
    /\ held' = [held EXCEPT ![UserOf[x]] = @ - Amount[x]]
    /\ UNCHANGED <<spendable, bank>>

SetAside(x) ==
    /\ Ends(x, {"OPEN"}, "ASIDE")
    /\ spendable' = [spendable EXCEPT ![UserOf[x]] = @ - Amount[x]]
    /\ UNCHANGED <<held, debited, bank>>

Return(x) == Ends(x, {"ASIDE"}, "RETURNED") /\ Frees(x)

Pay(x) == Ends(x, {"ASIDE"}, "PAID") /\ Leaves(x)

Contest(x) ==
    /\ Ends(x, {"RETURNED", "PAID", "CONTESTED"}, "CONTESTED")
    /\ Frees(x) \/ Leaves(x)

(* The bank takes a payout for what is set aside, and decides on it. *)
Ask(x) ==
    /\ bank[x] = "NONE" /\ outcome[x] # "OPEN"
    /\ bank' \in {[bank EXCEPT ![x] = answer] : answer \in {"PENDING", "FAILED"}}
    /\ UNCHANGED <<spendable, held, outcome, debited>>

Decide(x) ==
    /\ bank[x] = "PENDING"
    /\ bank' \in {[bank EXCEPT ![x] = answer] : answer \in {"PAID", "FAILED"}}
    /\ UNCHANGED <<spendable, held, outcome, debited>>

Next ==
    \E x \in Requests :
        SetAside(x) \/ Return(x) \/ Pay(x) \/ Contest(x) \/ Ask(x) \/ Decide(x)

Spec == Init /\ [][Next]_vars
=============================================================================
