--------------------------- MODULE MCGatewayParts ---------------------------
(***************************************************************************)
(* Small instances of the parts of the engine's LLM gateway that share no  *)
(* state: the router's calls, the coalescer and the key pool.  In each     *)
(* behaviour the requests go to one part, chosen at the start; the others  *)
(* rest in an initial state.                                               *)
(***************************************************************************)
EXTENDS LlmGateway, Coalescer, KeyPool, TLC

CONSTANTS
    Parts,              \* the parts the run looks at
    p1, p2, any, one, r1, r2, r3, r4, k1, k2

\* A model any provider serves, and one with a single provider.
Both == (any :> {p1, p2}) @@ (one :> {p1})
ThreeEqual == [r \in {r1, r2, r3, r4} |-> IF r = r4 THEN k2 ELSE k1]

VARIABLE part

gpVars == <<part, callsVars, coVars, kpVars>>

Init ==
    /\ part \in Parts
    /\ CallsInit /\ CoInit /\ KpInit

Next ==
    \/ part = "calls" /\ CallsNext /\ UNCHANGED <<part, coVars, kpVars>>
    \/ part = "coalescer" /\ CoNext /\ UNCHANGED <<part, callsVars, kpVars>>
    \/ part = "keys" /\ KpNext /\ UNCHANGED <<part, callsVars, coVars>>

\* What is shared between requests is in step with those who use it: the breakers,
\* budget, futures and keys keep their types and bounds; an entry of the coalescer
\* has a request that will take it out, and who joins it a call that will answer;
\* a key's status shows what its breaker does (coalesce, SmartAPIKeyPool).
SharingIsSound ==
    /\ CallsTypeOK /\ CoalescerTypeOK /\ KeyPoolTypeOK
    /\ EntriesHaveARunner /\ WaitersHaveACall
    /\ OpenIsVisible

\* Nobody waits for ever: a provider whose breaker opened is taken back, every
\* coalesced request ends, and every caller of get_key is served (record_success,
\* coalesce, get_key).
CallersAreServed == ProvidersComeBack /\ CoalescedRequestsEnd /\ GettersServed

\* Callers whom the budget does not stop keep asking for every provider.
Spec == Init /\ [][Next]_gpVars /\ CoFairness /\ KpFairness /\ CallsFairness
        /\ \A p \in Providers : SF_callsVars(part = "calls" /\ Unbudgeted(p))
=============================================================================
