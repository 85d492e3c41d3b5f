---------------------------- MODULE MCAgentTeams ----------------------------
EXTENDS WorkflowRuns, AgentHub, AgentDispatcher

CONSTANTS TeamParts

VARIABLE team
TeamsInit == team \in TeamParts /\ WfInit /\ HubInit /\ DispatchInit
TeamsNext ==
    \/ team = "workflows" /\ InstanceNext /\ UNCHANGED <<team, hbVars, dpVars>>
    \/ team = "traced" /\ TracedNext /\ UNCHANGED <<team, hbVars, dpVars>>
    \/ team = "hub" /\ HubNext /\ UNCHANGED <<team, wfVars, dpVars>>
    \/ team = "dispatch" /\ DispatchNext /\ UNCHANGED <<team, wfVars, hbVars>>
teVars == <<team, wfVars, hbVars, dpVars>>
TeamsSpec == TeamsInit /\ [][TeamsNext]_teVars /\ WfFairness /\ HubFairness /\ DispatchFairness

\* Background work and what is told of it agree: an outcome is the instance's own
\* (or the error in the row of a run of more than a day),
\* edits reach the run they are for, the quota counts the tasks under way, waves
\* run in order, and an answer is that of the sub-agent asked for, although rows,
\* tables and results are evicted and runs cancelled meanwhile (workflow_status,
\* run_collaborative_task, AgentDispatcher.cancel_all).
TeamsAreSound ==
    /\ WfTypeOK /\ HubTypeOK /\ DispatchTypeOK
    /\ OutcomesAreTrue /\ EditsStayInTheirRun
    /\ QuotaIsExact /\ WavesInOrder
    /\ AnswersAreOwn /\ RunningIsActive

\* Whoever waits for background work hears of its end: the client that polls an
\* instance, the consumer of a collaboration, the caller of get_result.
TeamsSettle == InstancesSettle /\ HubJobsEnd /\ WaitersReturn
=============================================================================
