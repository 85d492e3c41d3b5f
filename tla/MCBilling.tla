----------------------------- MODULE MCBilling -----------------------------
(* Small instances of Billing, and what its audit trail owes in the end.   *)
EXTENDS Billing, TLC

CONSTANTS h1, h2, h3, r1, r2

TwoReplicas == (h1 :> r1) @@ (h2 :> r2)
ThreeHandlers == (h1 :> r1) @@ (h2 :> r2) @@ (h3 :> r1)

\* With no fault and no full channel, every change of a balance is eventually
\* recorded: the dispatcher leaves nothing behind.
TrailCompletes ==
    []<>(\A u \in Users : lossy[u] \/ credits[u] = FreeCredits + ledger[u])
=============================================================================
