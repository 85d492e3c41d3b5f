--------------------------- MODULE TopUpAccounts ---------------------------
(***************************************************************************)
(* What billing promises of an account: an order moves its own size, once, *)
(* to its own user's balance, from the moment it is marked paid; nothing   *)
(* else but deductions that fit and recharges moves a balance.  An order   *)
(* that is due may be lost (a crash or an error between the statements of  *)
(* ConfirmPayment); it is never booked after that, and never twice.        *)
(***************************************************************************)
EXTENDS Integers

CONSTANTS Users, Payments, Sizes, Debits, Recharges, FreeCredits, NoUser

VARIABLES
    balance,   \* each user's credits
    stage,     \* each order: none, pending, failed, due, booked or lost
    owner,     \* the user an order was opened for
    size       \* its credits

accountVars == <<balance, stage, owner, size>>

AccountInit ==
    /\ balance = [u \in Users |-> FreeCredits]
    /\ stage = [p \in Payments |-> "none"]
    /\ owner = [p \in Payments |-> NoUser]
    /\ size = [p \in Payments |-> 0]

Moves(p, from, to) == stage[p] = from /\ stage' = [stage EXCEPT ![p] = to]

Open(p, u, n) ==
    /\ Moves(p, "none", "pending")
    /\ owner' = [owner EXCEPT ![p] = u]
    /\ size' = [size EXCEPT ![p] = n]
    /\ UNCHANGED balance

Refuse(p) == Moves(p, "pending", "failed") /\ UNCHANGED <<balance, owner, size>>
Settle(p) == Moves(p, "pending", "due") /\ UNCHANGED <<balance, owner, size>>

Book(p) ==
    /\ Moves(p, "due", "booked")
    /\ balance' = [balance EXCEPT ![owner[p]] = @ + size[p]]
    /\ UNCHANGED <<owner, size>>

\* One crash may lose several orders.
Lose(S) ==
    /\ S # {} /\ \A p \in S : stage[p] = "due"
    /\ stage' = [p \in Payments |-> IF p \in S THEN "lost" ELSE stage[p]]
    /\ UNCHANGED <<balance, owner, size>>

Change(u, n) ==
    /\ balance[u] + n >= 0
    /\ balance' = [balance EXCEPT ![u] = @ + n]
    /\ UNCHANGED <<stage, owner, size>>

AccountNext ==
    \/ \E p \in Payments :
           \/ \E u \in Users, n \in Sizes : Open(p, u, n)
           \/ Refuse(p) \/ Settle(p) \/ Book(p)
    \/ \E S \in SUBSET Payments : Lose(S)
    \/ \E u \in Users : \/ \E n \in Recharges : Change(u, n)
                        \/ \E n \in Debits : Change(u, -n)

AccountSpec == AccountInit /\ [][AccountNext]_accountVars
=============================================================================
