------------------------------ MODULE AgentHub ------------------------------
(***************************************************************************)
(* The collaboration hub (AgentHub in app/agent/collaboration.py): a task  *)
(* takes a place in its tenant's quota, is planned into waves of subtasks  *)
(* (TaskGraphs has the waves), runs the subtasks of a wave concurrently    *)
(* under a semaphore and counts their end signals, and is aggregated.      *)
(***************************************************************************)
EXTENDS Integers, Sequences, FiniteSets

CONSTANTS
    HubJobs, HubTenants,
    HubQuota,           \* _max_concurrent_per_tenant: tasks of a tenant, and the semaphore of a task
    Waves, WaveWidth    \* bounds: waves of a plan, subtasks of a wave

ASSUME HubAssumption ==
    /\ HubQuota \in Nat \ {0} /\ Waves \in Nat \ {0} /\ WaveWidth \in Nat \ {0}
    /\ IsFiniteSet(HubJobs) /\ HubTenants # {}

VARIABLES
    job,          \* the collaborative tasks: place, tenant, widths of the waves, wave, signals counted
    sub,          \* the subtasks
    signals,      \* end signals in the queue of the current wave
    quota         \* _tenant_running_agents

hbVars == <<job, sub, signals, quota>>

Subtasks == (1..Waves) \X (1..WaveWidth)
HubActive == {"planning", "waves", "aggregating"}
HubOver == {"done", "denied", "failed", "closed"}
HubTypeOK ==
    /\ \A j \in HubJobs : /\ job[j].pc \in {"new"} \union HubActive \union HubOver /\ job[j].tenant \in HubTenants
                          /\ job[j].wave \in 0..Waves /\ job[j].counted \in 0..WaveWidth
                          /\ job[j].plan \in Seq(1..WaveWidth) /\ Len(job[j].plan) <= Waves
    /\ sub \in [HubJobs -> [Subtasks -> {"none", "queued", "running", "ended", "raised", "cancelled"}]]
    /\ signals \in [HubJobs -> 0..WaveWidth]
    /\ quota \in [HubTenants -> 0..HubQuota]

HubInit ==
    /\ job = [j \in HubJobs |-> [pc |-> "new", tenant |-> CHOOSE t \in HubTenants : TRUE,
                                plan |-> <<>>, wave |-> 0, counted |-> 0]]
    /\ sub = [j \in HubJobs |-> [s \in Subtasks |-> "none"]]
    /\ signals = [j \in HubJobs |-> 0] /\ quota = [t \in HubTenants |-> 0]

----------------------------------------------------------------------------
HasRoom(t) == quota[t] < HubQuota
StartJob(j) ==
    /\ job[j].pc = "new" /\ UNCHANGED <<sub, signals>>
    /\ \E t \in HubTenants :
        IF HasRoom(t) THEN /\ job' = [job EXCEPT ![j].pc = "planning", ![j].tenant = t]
                           /\ quota' = [quota EXCEPT ![t] = @ + 1]
        ELSE job' = [job EXCEPT ![j].pc = "denied", ![j].tenant = t] /\ UNCHANGED quota

\* The finally of run_collaborative_task.
LeavesAs(j, pc) ==
    /\ job' = [job EXCEPT ![j].pc = pc]
    /\ quota' = [quota EXCEPT ![job[j].tenant] = IF @ > 0 THEN @ - 1 ELSE 0]

\* The widths of the waves of a plan the planner may make.
Plans == UNION {[1..n -> 1..WaveWidth] : n \in 0..Waves}
BeginWave(j, plan, w) ==
    IF w > Len(plan) THEN /\ job' = [job EXCEPT ![j].pc = "aggregating", ![j].plan = plan]
                          /\ UNCHANGED <<sub, signals>>
    ELSE /\ job' = [job EXCEPT ![j].pc = "waves", ![j].plan = plan, ![j].wave = w, ![j].counted = 0]
         /\ sub' = [sub EXCEPT ![j] = [s \in Subtasks |-> IF s[1] = w /\ s[2] <= plan[w] THEN "queued" ELSE @[s]]]
         /\ signals' = [signals EXCEPT ![j] = 0]
\* The planner, whose output may be no list of subtasks at all, which raises.
Plan(j) ==
    /\ job[j].pc = "planning"
    /\ \/ (\E plan \in Plans : BeginWave(j, plan, 1)) /\ UNCHANGED quota
       \/ LeavesAs(j, "failed") /\ UNCHANGED <<sub, signals>>

InSemaphore(j) == {s \in Subtasks : sub[j][s] = "running"}
\* A subtask without a description raises before it takes the semaphore.
EnterSubtask(j, s) ==
    /\ sub[j][s] = "queued"
    /\ \/ Cardinality(InSemaphore(j)) < HubQuota /\ sub' = [sub EXCEPT ![j][s] = "running"]
       \/ sub' = [sub EXCEPT ![j][s] = "raised"]
    /\ UNCHANGED <<job, signals, quota>>
\* Mutant: the signal is forgotten.
EndSubtask_NoSignal(j, s) ==
    /\ sub[j][s] = "running" /\ sub' = [sub EXCEPT ![j][s] = "ended"] /\ UNCHANGED <<job, signals, quota>>
\* The agent has run; the end signal is put into the queue.
EndSubtask(j, s) ==
    /\ sub[j][s] = "running" /\ sub' = [sub EXCEPT ![j][s] = "ended"]
    /\ signals' = [signals EXCEPT ![j] = IF job[j].pc = "waves" THEN @ + 1 ELSE @]
    /\ UNCHANGED <<job, quota>>

\* The agent or the record of its span raises: the task ends without a signal.
RaiseSubtask(j, s) ==
    /\ sub[j][s] = "running" /\ sub' = [sub EXCEPT ![j][s] = "raised"] /\ UNCHANGED <<job, signals, quota>>

\* _execute_subtask_dag takes a signal; with the last one it gathers and goes on.
Gathered(j) == \A i \in 1..job[j].plan[job[j].wave] : sub[j][<<job[j].wave, i>>] \notin {"queued", "running"}
CountSignal(j) ==
    /\ job[j].pc = "waves" /\ signals[j] > 0
    /\ job' = [job EXCEPT ![j].counted = @ + 1] /\ signals' = [signals EXCEPT ![j] = @ - 1]
    /\ UNCHANGED <<sub, quota>>
NextWave(j) ==
    /\ job[j].pc = "waves" /\ job[j].counted = job[j].plan[job[j].wave] /\ Gathered(j)
    /\ BeginWave(j, job[j].plan, job[j].wave + 1) /\ UNCHANGED quota
Aggregate(j) == job[j].pc = "aggregating" /\ LeavesAs(j, "done") /\ UNCHANGED <<sub, signals>>

\* The consumer is cancelled while the hub waits for an event: subtasks are cancelled.
CancelJob(j) ==
    /\ job[j].pc = "waves" /\ LeavesAs(j, "failed")
    /\ sub' = [sub EXCEPT ![j] = [s \in Subtasks |-> IF @[s] \in {"queued", "running"} THEN "cancelled" ELSE @[s]]]
    /\ UNCHANGED signals
\* The consumer closes the generator at an event: the subtasks go on by themselves.
CloseJob(j) == job[j].pc \in HubActive /\ LeavesAs(j, "closed") /\ UNCHANGED <<sub, signals>>

HubNext ==
    \E j \in HubJobs :
        \/ StartJob(j) \/ Plan(j) \/ CountSignal(j) \/ NextWave(j) \/ Aggregate(j) \/ CancelJob(j) \/ CloseJob(j)
        \/ \E s \in Subtasks : EnterSubtask(j, s) \/ EndSubtask(j, s) \/ RaiseSubtask(j, s)

\* The event loop runs planner, subtasks and hub; nobody need cancel or close.
HubFairness ==
    \A j \in HubJobs :
        /\ WF_hbVars(Plan(j) \/ CountSignal(j) \/ NextWave(j) \/ Aggregate(j))
        /\ \A s \in Subtasks : WF_hbVars(EnterSubtask(j, s) \/ EndSubtask(j, s))

----------------------------------------------------------------------------
\* A tenant's quota is exactly the number of its tasks under way: no way out of a task,
\* denied, failed, cancelled or closed, leaks a place or gives one back twice.
QuotaIsExact == \A t \in HubTenants :
    quota[t] = Cardinality({j \in HubJobs : job[j].tenant = t /\ job[j].pc \in HubActive})

\* A subtask runs only when every subtask of the earlier waves is over, and no more
\* subtasks of a task run at a time than the semaphore has places.
WavesInOrder == \A j \in HubJobs :
    /\ \A s \in Subtasks : sub[j][s] # "none" =>
        \A r \in Subtasks : r[1] < s[1] => sub[j][r] \notin {"queued", "running"}
    /\ Cardinality(InSemaphore(j)) <= HubQuota

\* A task comes to an end unless one of its subtasks raised: then the hub waits for
\* its signal for ever, and the place in the quota is taken until the consumer leaves.
HubJobsEnd == \A j \in HubJobs :
    job[j].pc = "planning" ~> (job[j].pc \in HubOver \/ \E s \in Subtasks : sub[j][s] = "raised")
=============================================================================
