----------------------------- MODULE TaskPlans ------------------------------
(***************************************************************************)
(* The task router (app/core/task_router.py) with the registry of          *)
(* capabilities (app/core/capabilities.py): a request becomes a chain of   *)
(* subtasks, each is matched with a capability, and they are executed one  *)
(* layer after the other while the registry may change.                    *)
(*                                                                         *)
(* Scores and texts are abstracted: a search finds any capability that the *)
(* tenant may see, or none.  The two sorts of the router agree on a chain. *)
(***************************************************************************)
EXTENDS Integers, Sequences, SequencesExt, FiniteSets

CONSTANTS
    Caps,               \* capabilities that subtasks name
    GeneralChat,        \* agent:general_chat
    PlanTenants, Everyone,      \* tenants; the owner of a global capability
    MaxSubtasks,        \* bound: workstations an intent recommends
    RegistryChanges     \* bound: registrations and their removal

ASSUME PlanAssumption == MaxSubtasks \in Nat \ {0} /\ RegistryChanges \in Nat /\ GeneralChat \notin Caps /\ Everyone \notin PlanTenants
    /\ PlanTenants # {}

VARIABLES
    regs,         \* _capabilities: <<owner, capability>>
    changes,
    since,        \* history: changes of the registry when the subtasks were matched
    tenant,       \* whose request it is
    planPc,
    plan,         \* the subtasks as planned: capability they name or none, template on the one before
    matched,      \* the subtasks that found a capability, with it
    results       \* ExecutedTask records

tpVars == <<regs, changes, since, tenant, planPc, plan, matched, results>>

NoCap == "none"
AnyCap == Caps \union {GeneralChat}
ASSUME CapAssumption == NoCap \notin AnyCap
PlansTypeOK ==
    /\ regs \subseteq (PlanTenants \union {Everyone}) \X AnyCap /\ changes \in 0..RegistryChanges
    /\ tenant \in PlanTenants /\ planPc \in {"new", "match", "run", "completed", "error"}
    /\ (Len(plan) <= 2 \/ Len(plan) <= MaxSubtasks) /\ Len(matched) <= Len(plan) /\ Len(results) <= Len(matched)

PlansInit ==
    /\ regs = {<<Everyone, GeneralChat>>} /\ changes = 0 /\ since = 0 /\ tenant = CHOOSE t \in PlanTenants : TRUE
    /\ planPc = "new" /\ plan = <<>> /\ matched = <<>> /\ results = <<>>

----------------------------------------------------------------------------
Register(o, c) ==
    /\ changes < RegistryChanges /\ changes' = changes + 1
    /\ <<o, c>> \notin regs /\ regs' = regs \union {<<o, c>>}
    /\ UNCHANGED <<since, tenant, planPc, plan, matched, results>>
Unregister(o, c) ==
    /\ changes < RegistryChanges /\ changes' = changes + 1
    /\ <<o, c>> \in regs /\ regs' = regs \ {<<o, c>>}
    /\ UNCHANGED <<since, tenant, planPc, plan, matched, results>>

\* What search and list_by_workstation show a tenant.
Visible(t) == {r \in regs : r[1] \in {Everyone, t}}
\* get_by_id: the tenant's own, or else the global one.
GetById(c, t) ==
    IF <<t, c>> \in regs THEN <<t, c>> ELSE IF <<Everyone, c>> \in regs THEN <<Everyone, c>> ELSE <<NoCap, NoCap>>

Subtask(c, uses) == [cap |-> c, uses |-> uses]
\* A simple intent or an unknown action: one subtask without a capability; the actions
\* of the rules: two, the second with or without a template on the first's output.
Named == [cap: Caps, uses: BOOLEAN]
RulePlans == {<<Subtask(NoCap, FALSE)>>} \union {p \in Named \X Named : ~p[1].uses}
\* Recommended workstations: a chain of the first capability of each; an unknown or
\* empty one is skipped.
Recommended(t) == UNION {[1..n -> {Subtask(r[2], FALSE) : r \in Visible(t)}] : n \in 1..MaxSubtasks}
PlanTask ==
    /\ planPc = "new" /\ planPc' = "match"
    /\ \E t \in PlanTenants : tenant' = t /\ plan' \in RulePlans \union Recommended(t)
    /\ UNCHANGED <<regs, changes, since, matched, results>>

\* _match_capabilities: by name, else by search, else general chat, which drops the
\* template with the other parameters; or the subtask is dropped.
Matches(i, t) ==
    LET exact == GetById(plan[i].cap, t) IN
    IF exact[2] # NoCap THEN {[n |-> i, cap |-> exact[2], uses |-> plan[i].uses]}
    ELSE {[n |-> i, cap |-> r[2], uses |-> plan[i].uses] : r \in Visible(t)}
         \union {[n |-> i, cap |-> GetById(GeneralChat, t)[2], uses |-> FALSE]}
MatchAll ==
    /\ planPc = "match" /\ since' = changes
    /\ \E m \in [1..Len(plan) -> UNION {Matches(i, tenant) : i \in 1..Len(plan)}] :
        /\ \A i \in 1..Len(plan) : m[i] \in Matches(i, tenant)
        /\ LET found == {i \in 1..Len(plan) : m[i].cap # NoCap} IN
            \* _group_by_dependencies: a subtask whose dependency was dropped is left over
            \* and makes the test of the cycle raise.
            IF \A i \in found : i = 1 \/ i - 1 \in found
            THEN matched' = SubSeq(m, 1, Cardinality(found)) /\ planPc' = "run"
            ELSE planPc' = "error" /\ UNCHANGED matched
    /\ UNCHANGED <<regs, changes, tenant, plan, results>>

\* _resolve_params: the output of the one before, or the empty string.
Resolved(k) ==
    IF ~matched[k].uses THEN "given"
    ELSE IF \E j \in 1..Len(results) : results[j].n = matched[k].n - 1 /\ results[j].status = "completed"
         THEN "output" ELSE "empty"
\* _execute_single_task: the capability is looked up again; what it returns or raises.
ExecuteNext ==
    LET k == Len(results) + 1
        found == GetById(matched[k].cap, tenant) IN
    /\ planPc = "run" /\ k <= Len(matched)
    /\ \E status \in (IF found[2] = NoCap THEN {"failed"} ELSE {"completed", "failed"}) :
        results' = Append(results, [n |-> matched[k].n, by |-> found, input |-> Resolved(k), status |-> status])
    /\ UNCHANGED <<regs, changes, since, tenant, planPc, plan, matched>>
\* _aggregate_results, whatever became of the subtasks.
AggregateResults ==
    /\ planPc = "run" /\ Len(results) = Len(matched) /\ planPc' = "completed"
    /\ UNCHANGED <<regs, changes, since, tenant, plan, matched, results>>

PlansNext ==
    \/ \E o \in PlanTenants \union {Everyone}, c \in AnyCap : Register(o, c) \/ Unregister(o, c)
    \/ PlanTask \/ MatchAll \/ ExecuteNext \/ AggregateResults

----------------------------------------------------------------------------
\* A request is served by its tenant's capabilities and global ones only, looked up
\* afresh when a subtask runs, however registrations change after the match.
ServedByVisible ==
    /\ \A k \in 1..Len(results) : results[k].by[1] \in {Everyone, tenant, NoCap}
    /\ \A k \in 1..Len(results) : results[k].status = "completed" => results[k].by[2] = matched[k].cap
    /\ (planPc = "run" /\ changes = since) => \A k \in 1..Len(matched) : GetById(matched[k].cap, tenant)[2] # NoCap

\* A completed task has run each of its subtasks once, in the order of the chain, down to
\* one that found no capability, which is left out without a word; and a subtask saw the
\* output of the one before exactly if that one completed; a task with a subtask that lost
\* its dependency runs nothing at all.
ChainIsWhole ==
    /\ planPc = "completed" =>
        /\ [k \in 1..Len(results) |-> results[k].n] = [k \in 1..Len(matched) |-> k]
        /\ \A k \in 2..Len(results) : /\ results[k].input = "output" => results[k - 1].status = "completed"
                                      /\ results[k].input = "empty" => results[k - 1].status = "failed"
    /\ planPc = "error" => results = <<>>
=============================================================================
