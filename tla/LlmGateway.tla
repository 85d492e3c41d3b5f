----------------------------- MODULE LlmGateway -----------------------------
(***************************************************************************)
(* GatewayRouter of the Python engine (app/gateway): how a chat, stream or *)
(* embedding call chooses a provider, passes the tenant's token budget,    *)
(* and tells the provider's circuit breaker how it went.                   *)
(*                                                                         *)
(* A call is a coroutine; each await is a step boundary, so that other     *)
(* calls run between its selection, its budget check, its request, the     *)
(* store of its answer in the semantic cache and its deduction.  A lookup  *)
(* that hits ends a call before it selects, and is left out.  One tenant   *)
(* and one month's budget.  A breaker's counter saturates at the           *)
(* threshold, beyond which the code only compares it, and its clock is     *)
(* reduced to whether recovery_timeout has passed.                         *)
(***************************************************************************)
EXTENDS Integers, FiniteSets

CONSTANTS
    Providers,
    Models,
    CandidatesOf,       \* _find_candidates: the providers of a model
    Calls,              \* coroutines
    FailureThreshold,
    Limit,              \* the tenant's monthly limit, 0 for none
    MaxTokens,          \* max_tokens, the estimate of the pre-check
    MaxActual,          \* bound: tokens a response may report
    MaxFaults,          \* bound: failures, disconnects, Redis errors, resets
    NoProvider

ASSUME CandidatesAssumption ==
    CandidatesOf \in [Models -> SUBSET Providers] /\ \A m \in Models : CandidatesOf[m] # {}
ASSUME GatewayLimitAssumption ==
    /\ FailureThreshold \in Nat \ {0} /\ Limit \in Nat /\ MaxTokens \in Nat
    /\ MaxActual \in Nat /\ MaxFaults \in Nat
ASSUME CallsAssumption == IsFiniteSet(Calls) /\ Calls # {}
ASSUME NoProviderAssumption == NoProvider \notin Providers

VARIABLES
    breaker,   \* the CircuitBreaker of each provider
    call,      \* each coroutine
    used,      \* budget:{tenant}:{month} "used"
    late,      \* history: calls sent to a provider since its breaker opened
    faults

callsVars == <<breaker, call, used, late, faults>>

----------------------------------------------------------------------------
Breaker == [state: {"closed", "open", "half_open"}, fails: 0..FailureThreshold, cool: BOOLEAN]
Kinds == {"stream", "chat", "embed"}
Call == [pc: {"idle", "check", "calling", "store", "deduct"},
         provider: Providers \union {NoProvider}, kind: Kinds, tokens: 0..MaxActual]
Idle == [pc |-> "idle", provider |-> NoProvider, kind |-> "embed", tokens |-> 0]

CallsTypeOK ==
    /\ breaker \in [Providers -> Breaker]
    /\ call \in [Calls -> Call]
    /\ used \in Nat
    /\ late \in [Providers -> Nat]
    /\ faults \in Nat

CallsInit ==
    /\ breaker = [p \in Providers |-> [state |-> "closed", fails |-> 0, cool |-> FALSE]]
    /\ call = [q \in Calls |-> Idle]
    /\ used = 0
    /\ late = [p \in Providers |-> 0]
    /\ faults = 0

Fault == faults < MaxFaults /\ faults' = faults + 1

----------------------------------------------------------------------------
(* CircuitBreaker.                                                         *)

\* Mutant: an open breaker lets calls through.
Allows_Always(b) == TRUE
Allows(b) == b.state # "open" \/ b.cool

\* The state allow() leaves behind.
Asked(b) == IF b.state = "open" /\ b.cool THEN [b EXCEPT !.state = "half_open"] ELSE b

\* Mutant: success resets the counter and never closes the breaker.
RecordSuccess_StaysHalfOpen(b) == [b EXCEPT !.fails = 0]

\* Closes a half-open breaker; an open one only has its counter reset.
RecordSuccess(b) ==
    [b EXCEPT !.fails = 0, !.state = IF b.state = "half_open" THEN "closed" ELSE b.state]

RecordFailure(b) ==
    LET n == IF b.fails < FailureThreshold THEN b.fails + 1 ELSE b.fails IN
    [state |-> IF n = FailureThreshold THEN "open" ELSE b.state, fails |-> n, cool |-> FALSE]

\* recovery_timeout has passed since the last failure.
Cools(p) ==
    /\ breaker[p].state = "open"
    /\ ~breaker[p].cool
    /\ breaker' = [breaker EXCEPT ![p].cool = TRUE]
    /\ late' = [late EXCEPT ![p] = 0]
    /\ UNCHANGED <<call, used, faults>>

----------------------------------------------------------------------------
(* _select: the hinted provider if its breaker allows it, or else one of   *)
(* the model's candidates whose breakers do; every breaker asked may turn  *)
(* half-open, the ones not chosen too.                                     *)

\* embed has no budget check, and so no await before its request.
Chooses(q, p, askedOnes, kind) ==
    /\ breaker' = [x \in Providers |-> IF x \in askedOnes THEN Asked(breaker[x]) ELSE breaker[x]]
    /\ call' = [call EXCEPT ![q] = [pc |-> IF kind = "embed" THEN "calling" ELSE "check",
                                    provider |-> p, kind |-> kind, tokens |-> 0]]
    /\ UNCHANGED <<used, late, faults>>

SelectHinted(q, h, kind) ==
    /\ call[q].pc = "idle"
    /\ Allows(breaker[h])
    /\ Chooses(q, h, {h}, kind)

\* No hint, or one that is open; with no candidate left the call gives up.
Select(q, m, kind) ==
    /\ call[q].pc = "idle"
    /\ \E p \in {x \in CandidatesOf[m] : Allows(breaker[x])} : Chooses(q, p, CandidatesOf[m], kind)

\* The breaker may have opened since the call was given its provider.
Sends(q) ==
    LET p == call[q].provider IN
    /\ call' = [call EXCEPT ![q].pc = "calling"]
    /\ late' = IF breaker[p].state = "open" /\ ~breaker[p].cool
               THEN [late EXCEPT ![p] = @ + 1] ELSE late

CallOver(q) == call' = [call EXCEPT ![q] = Idle]

\* Mutant: the pre-check compares what is used and not what is asked for.
BudgetCheck_NoEstimate(q) ==
    /\ call[q].pc = "check"
    /\ IF Limit > 0 /\ used > Limit
       THEN CallOver(q) /\ UNCHANGED late
       ELSE Sends(q)
    /\ UNCHANGED <<breaker, used, faults>>

\* TokenBudget.check.
BudgetCheck(q) ==
    /\ call[q].pc = "check"
    /\ IF Limit > 0 /\ used + MaxTokens > Limit
       THEN CallOver(q) /\ UNCHANGED late
       ELSE Sends(q)
    /\ UNCHANGED <<breaker, used, faults>>

\* HGETALL raises, or the caller is cancelled: nothing is recorded.
CheckFails(q) ==
    /\ call[q].pc = "check"
    /\ Fault
    /\ CallOver(q)
    /\ UNCHANGED <<breaker, used, late>>

----------------------------------------------------------------------------
(* The provider's answer.                                                  *)

\* The call goes on to its deduction, or ends when there is nothing to deduct.
Accounts(q, n) ==
    call' = [call EXCEPT ![q] = IF call[q].kind # "embed" /\ n > 0
                                THEN [@ EXCEPT !.pc = "deduct", !.tokens = n] ELSE Idle]

\* What a request that ends early deducts of n tokens: its finally clause deducts
\* what a stream has reported, chat and embed deduct nothing.
Reported(q, n) == IF call[q].kind = "stream" THEN n ELSE 0

\* The breaker is told first; an answer without tools is then put in the cache.
Succeeds(q) ==
    /\ call[q].pc = "calling"
    /\ LET p == call[q].provider IN breaker' = [breaker EXCEPT ![p] = RecordSuccess(@)]
    /\ \E n \in 0..MaxActual :
           \/ Accounts(q, n)
           \/ /\ call[q].kind # "embed"
              /\ call' = [call EXCEPT ![q].pc = "store", ![q].tokens = n]
    /\ UNCHANGED <<used, late, faults>>

FailureAt(p) ==
    /\ breaker' = [breaker EXCEPT ![p] = RecordFailure(@)]
    /\ late' = IF breaker[p].state # "open" THEN [late EXCEPT ![p] = 0] ELSE late

Fails(q) ==
    /\ call[q].pc = "calling"
    /\ Fault
    /\ FailureAt(call[q].provider)
    /\ \E n \in 0..MaxActual : Accounts(q, Reported(q, n))
    /\ UNCHANGED <<used>>

\* SemanticCache.store.
Stores(q) ==
    /\ call[q].pc = "store"
    /\ Accounts(q, call[q].tokens)
    /\ UNCHANGED <<breaker, used, late, faults>>

\* Redis fails inside the try: the provider's breaker is told of a failure.
StoreFails(q) ==
    /\ call[q].pc = "store"
    /\ Fault
    /\ FailureAt(call[q].provider)
    /\ Accounts(q, Reported(q, call[q].tokens))
    /\ UNCHANGED <<used>>

\* The consumer goes away: GeneratorExit and CancelledError record nothing, and
\* only the latter deducts.
Disconnects(q) ==
    /\ call[q].pc \in {"calling", "store"}
    /\ Fault
    /\ \E n \in IF call[q].pc = "calling" THEN 0..MaxActual ELSE {call[q].tokens} :
           Accounts(q, Reported(q, n))
    /\ UNCHANGED <<breaker, used, late>>

\* HINCRBY; without a limit the counter is never read and is not kept here.
Deduct(q) ==
    /\ call[q].pc = "deduct"
    /\ used' = IF Limit > 0 THEN used + call[q].tokens ELSE used
    /\ CallOver(q)
    /\ UNCHANGED <<breaker, late, faults>>

\* A Redis error is logged and the tokens are not counted.
DeductFails(q) ==
    /\ call[q].pc = "deduct"
    /\ Fault
    /\ CallOver(q)
    /\ UNCHANGED <<breaker, used, late>>

\* TokenBudget.reset.
ResetBudget ==
    /\ Fault
    /\ used' = 0
    /\ UNCHANGED <<breaker, call, late>>

----------------------------------------------------------------------------
Hinted(h) == \E q \in Calls, k \in Kinds : SelectHinted(q, h, k)
Unbudgeted(h) == \E q \in Calls : SelectHinted(q, h, "embed")

CallsNext ==
    \/ \E p \in Providers : Cools(p) \/ Hinted(p)
    \/ \E q \in Calls :
           \/ \E m \in Models, k \in Kinds : Select(q, m, k)
           \/ BudgetCheck(q) \/ CheckFails(q)
           \/ Succeeds(q) \/ Fails(q) \/ Disconnects(q)
           \/ Stores(q) \/ StoreFails(q) \/ Deduct(q) \/ DeductFails(q)
    \/ ResetBudget

CallsSpec == CallsInit /\ [][CallsNext]_callsVars

\* Time passes and providers answer.
CallsFairness ==
    /\ \A p \in Providers : WF_callsVars(Cools(p))
    /\ \A q \in Calls : /\ WF_callsVars(BudgetCheck(q)) /\ WF_callsVars(Succeeds(q))
                        /\ WF_callsVars(Stores(q)) /\ WF_callsVars(Deduct(q))

\* Callers whom the budget does not stop keep asking for every provider.
CallsFairSpec == CallsSpec /\ CallsFairness /\ \A p \in Providers : SF_callsVars(Unbudgeted(p))

----------------------------------------------------------------------------
(* Properties.                                                             *)

\* A provider whose breaker is open gets no more calls, until the recovery
\* time has passed, than were already on their way when it opened.
OpenSheds == \A p \in Providers : late[p] <= Cardinality(Calls) - 1

\* The budget is checked before a call and charged after it: it is exceeded by
\* no more than what the calls in between can use.
BudgetOvershootBounded ==
    Limit >= MaxTokens /\ Limit > 0 => used <= Limit - MaxTokens + Cardinality(Calls) * MaxActual

\* A breaker never stays open: once failures stop, whatever outcomes came late
\* and whatever the budget refused, the provider is taken back.
ProvidersComeBack ==
    \A p \in Providers : breaker[p].state # "closed" ~> breaker[p].state = "closed"
=============================================================================
