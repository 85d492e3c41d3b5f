--------------------------- MODULE AgentDispatcher --------------------------
(***************************************************************************)
(* The dispatcher of named sub-agents (app/agent/multi_agent.py): tasks in *)
(* the background, a bounded table of results, callers that wait for one,  *)
(* and cancel_all.                                                         *)
(***************************************************************************)
EXTENDS Integers, Sequences, SequencesExt, FiniteSets

CONSTANTS
    SubRuns,            \* task ids
    MaxResults,         \* max_results of _bound_results
    SubTurns            \* max_turns of an agent

ASSUME DispatchAssumption == MaxResults \in Nat \ {0} /\ SubTurns \in Nat \ {0}

VARIABLES
    srun,         \* the background tasks: place, turns, result
    sactive,      \* _active
    sresults,     \* _results, in the order of insertion
    waiter,       \* a caller of get_result for each task, and what it was told
    sweeping,     \* tasks cancel_all waits for
    ranked,       \* history: tasks in the order in which their results were stored
    forgotten     \* history: tasks cancel_all dropped while they ran

dpVars == <<srun, sactive, sresults, waiter, sweeping, ranked, forgotten>>

DispatchTypeOK ==
    /\ \A r \in SubRuns : /\ srun[r].pc \in {"none", "running", "stored", "cancelled"} /\ srun[r].turns \in 0..SubTurns
                          /\ srun[r].result \in {"none", "answer", "empty", "error"}
    /\ sactive \subseteq SubRuns /\ sweeping \subseteq SubRuns /\ forgotten \subseteq SubRuns
    /\ sresults \in Seq(SubRuns) /\ Len(sresults) <= MaxResults
    /\ waiter \in [SubRuns -> {"none", "waiting", "cancelled", "nothing", "answer", "empty", "error"}]

DispatchInit ==
    /\ srun = [r \in SubRuns |-> [pc |-> "none", turns |-> 0, result |-> "none"]]
    /\ sactive = {} /\ sresults = <<>> /\ waiter = [r \in SubRuns |-> "none"]
    /\ sweeping = {} /\ ranked = <<>> /\ forgotten = {}

----------------------------------------------------------------------------
\* _bound_results
Bounded(s) == IF Len(s) > MaxResults THEN Tail(s) ELSE s

\* dispatch_async: an unknown agent is a failed result at once.
DispatchAsync(r) ==
    /\ srun[r].pc = "none"
    /\ \/ /\ srun' = [srun EXCEPT ![r].pc = "running"] /\ sactive' = sactive \union {r}
          /\ UNCHANGED <<sresults, ranked>>
       \/ /\ srun' = [srun EXCEPT ![r].pc = "stored", ![r].result = "error"]
          /\ sresults' = Bounded(Append(sresults, r)) /\ ranked' = Append(ranked, r) /\ UNCHANGED sactive
    /\ UNCHANGED <<waiter, sweeping, forgotten>>

\* A turn of SubAgent.run: tool calls and another turn, an answer, an error; when the
\* last turn was spent on tools the run succeeds with no output.
Turn(r) ==
    /\ srun[r].pc = "running" /\ srun[r].result = "none"
    /\ IF srun[r].turns = SubTurns THEN srun' = [srun EXCEPT ![r].result = "empty"]
       ELSE \E v \in {"none", "answer", "error"} : srun' = [srun EXCEPT ![r].turns = @ + 1, ![r].result = v]
    /\ UNCHANGED <<sactive, sresults, waiter, sweeping, ranked, forgotten>>

\* What get_result finds in the table once the task is over.
InTable(table, r) == IF r \in Range(table) THEN srun[r].result ELSE "nothing"
\* _run_and_store without an await in it; a caller that waits reads the table next.
StoreSub(r) ==
    /\ srun[r].pc = "running" /\ srun[r].result # "none"
    /\ sresults' = Bounded(Append(sresults, r)) /\ sactive' = sactive \ {r}
    /\ srun' = [srun EXCEPT ![r].pc = "stored"] /\ ranked' = Append(ranked, r)
    /\ UNCHANGED <<waiter, sweeping, forgotten>>

\* get_result: the table, or a task to wait for.
GetResult(r) ==
    /\ waiter[r] = "none" /\ srun[r].pc # "none"
    /\ waiter' = [waiter EXCEPT ![r] = IF r \in Range(sresults) \/ r \notin sactive THEN InTable(sresults, r) ELSE "waiting"]
    /\ UNCHANGED <<srun, sactive, sresults, sweeping, ranked, forgotten>>
WaiterWakes(r) ==
    /\ waiter[r] = "waiting" /\ srun[r].pc \in {"stored", "cancelled"}
    /\ waiter' = [waiter EXCEPT ![r] = IF srun[r].pc = "cancelled" THEN "cancelled" ELSE InTable(sresults, r)]
    /\ UNCHANGED <<srun, sactive, sresults, sweeping, ranked, forgotten>>

\* The caller of get_result is cancelled while it awaits the task, which is cancelled
\* with it, stays in _active, and fails whoever asks for its result from then on.
CallerLeaves(r) ==
    /\ waiter[r] = "waiting" /\ srun[r].pc = "running"
    /\ waiter' = [waiter EXCEPT ![r] = "none"] /\ srun' = [srun EXCEPT ![r].pc = "cancelled"]
    /\ UNCHANGED <<sactive, sresults, sweeping, ranked, forgotten>>

\* cancel_all: the tasks of _active are cancelled and waited for, then all of _active
\* is cleared, with what was dispatched meanwhile.
CancelAll ==
    /\ sweeping = {} /\ sactive # {} /\ sweeping' = sactive
    /\ UNCHANGED <<srun, sactive, sresults, waiter, ranked, forgotten>>
\* The cancellation arrives at an await of the agent.
Cancelled(r) ==
    /\ r \in sweeping /\ srun[r].pc = "running" /\ srun' = [srun EXCEPT ![r].pc = "cancelled"]
    /\ UNCHANGED <<sactive, sresults, waiter, sweeping, ranked, forgotten>>
\* Mutant: _active is cleared before the tasks ended.
SweepDone_AtOnce ==
    /\ sweeping # {} /\ sweeping' = {} /\ sactive' = {} /\ UNCHANGED <<srun, sresults, waiter, ranked, forgotten>>
SweepDone ==
    /\ sweeping # {} /\ \A r \in sweeping : srun[r].pc # "running"
    /\ forgotten' = forgotten \union {r \in sactive : srun[r].pc = "running"}
    /\ sweeping' = {} /\ sactive' = {}
    /\ UNCHANGED <<srun, sresults, waiter, ranked>>

DispatchNext ==
    \/ \E r \in SubRuns : \/ DispatchAsync(r) \/ Turn(r) \/ StoreSub(r)
                          \/ GetResult(r) \/ WaiterWakes(r) \/ CallerLeaves(r) \/ Cancelled(r)
    \/ CancelAll \/ SweepDone

\* The event loop runs the agents and wakes the callers.
DispatchFairness ==
    /\ \A r \in SubRuns : WF_dpVars(Turn(r) \/ StoreSub(r)) /\ WF_dpVars(WaiterWakes(r))
    /\ WF_dpVars(SweepDone)

----------------------------------------------------------------------------
\* A caller is told that there is no result only when newer results pushed it out of
\* the table, when its task was cancelled, or when cancel_all forgot a task that it
\* did not cancel; whatever else it is told is the task's own result.
AnswersAreOwn == \A r \in SubRuns :
    /\ waiter[r] \in {"answer", "empty", "error"} => waiter[r] = srun[r].result
    /\ waiter[r] = "nothing" =>
        \/ srun[r].pc = "cancelled" \/ r \in forgotten
        \/ \E i \in 1..Len(ranked) : ranked[i] = r /\ Len(ranked) - i >= MaxResults
    /\ waiter[r] = "cancelled" => srun[r].pc = "cancelled"

\* Every task that runs is in _active, so that active_count, get_result and the next
\* cancel_all see it, unless cancel_all forgot it.
RunningIsActive == \A r \in SubRuns : srun[r].pc = "running" => r \in sactive \union forgotten

\* A caller that waits is answered.
WaitersReturn == \A r \in SubRuns : waiter[r] = "waiting" ~> waiter[r] # "waiting"
=============================================================================
