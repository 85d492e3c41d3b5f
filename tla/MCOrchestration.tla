-------------------------- MODULE MCOrchestration ---------------------------
EXTENDS TaskGraphs, ChatTasks, ContextBus, AgentEngine, TaskPlans

CONSTANTS Parts

VARIABLE part
Init == part \in Parts /\ TgInit /\ ChInit /\ BusInit /\ AlInit /\ EnInit /\ PlansInit
Next ==
    \/ part = "graphs" /\ TgNext /\ UNCHANGED <<part, alVars, enVars, tpVars, chVars, cbVars>>
    \/ part = "chat" /\ ChNext /\ UNCHANGED <<part, alVars, enVars, tpVars, tgVars, cbVars>>
    \/ part = "bus" /\ MemNext /\ UNCHANGED <<part, alVars, enVars, tpVars, tgVars, chVars, redisVars>>
    \/ part = "redisbus" /\ RedisNext /\ UNCHANGED <<part, alVars, enVars, tpVars, tgVars, chVars>>
    \/ part = "loop" /\ AlNext /\ UNCHANGED <<part, tgVars, chVars, cbVars, enVars, tpVars>>
    \/ part = "engine" /\ EnNext /\ UNCHANGED <<part, tgVars, chVars, cbVars, alVars, tpVars>>
    \/ part = "plans" /\ PlansNext /\ UNCHANGED <<part, tgVars, chVars, cbVars, alVars, enVars>>
Spec == Init /\ [][Next]_<<part, tgVars, chVars, cbVars, alVars, enVars, tpVars>>

\* A message reaches whom it is for, in memory and over Redis: callbacks that stay
\* hear it once although others leave during the publish, a tenant's query and
\* snapshot are its latest messages up to publishes that overlapped, and a process
\* hears only the channels it asked for (publish, query, _pubsub_listener).
BusDelivers == BusTypeOK /\ SteadyHear /\ QueryIsRecent /\ SnapshotIsRecent /\ HeardAsAsked

\* A conversation survives its caches and its failures: the table has question and
\* answer of every task whose statements succeeded, a cache holds nothing else, and
\* a task that failed says so (submit_task, get_session_messages).
ConversationsKept == ChTypeOK /\ ConversationsStored /\ CachesHoldHistory /\ FailuresAreLoud

\* A graph runs in the order of its dependencies, every node once, in sequence and in
\* waves, whatever cycles and unknown nodes it has (_topological_sort, _topological_waves).
GraphsAreOrdered == SortIsTopological /\ WavesAreLayers

\* A plan runs along its chain although capabilities change meanwhile, and only with
\* what its tenant may use; a run of the engine leaves one run's view in the row,
\* calls without results only in its last turn and if it was cut, no waiting for a decision that nobody
\* awaits; and a stream tells its caller one end (_execute_tasks, run, run_agent).
RunsAreSound ==
    /\ PlansTypeOK /\ ServedByVisible /\ ChainIsWhole
    /\ EnTypeOK /\ RowIsPaired /\ RowIsOneView /\ DecisionsAreAwaited
    /\ EndsOnce
=============================================================================
