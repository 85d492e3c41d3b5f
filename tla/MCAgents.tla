------------------------------ MODULE MCAgents ------------------------------
EXTENDS AgentRun

CONSTANTS AgentParts, r1, r2

ThreeCalls == {<<r1, 1>>, <<r1, 2>>, <<r2, 1>>}
TwoIds == {<<r1, 1>>, <<r1, 2>>}

VARIABLE agentPart
AgentsInit == agentPart \in AgentParts /\ MhInit /\ ArInit
AgentsNext ==
    \/ agentPart = "history" /\ MhNext /\ UNCHANGED <<agentPart, arVars>>
    \/ agentPart = "runs" /\ ArNext /\ UNCHANGED <<agentPart, mhVars>>
agVars == <<agentPart, mhVars, arVars>>
AgentsSpec == AgentsInit /\ [][AgentsNext]_agVars /\ ArFairness

\* What is sent to a provider is well formed: repair, pruning and the conversions
\* between formats pair calls with their results for every short history, and so
\* does every request of every run, whatever cut-off runs left in the cache
\* (_ensure_valid_tool_sequence, _prune_messages, from_anthropic, run).
HistoriesAreSound ==
    /\ ArTypeOK
    /\ RepairIsSound /\ PruneKeepsPairs /\ ConversionsKeepPairs
    /\ RequestsWellFormed

\* What the user says arrives: a message stays in the session's history however its
\* run ended, and a decision reaches the call that waits for it, unless two runs of
\* the session overlapped (run, agent_approval).
UsersAreHeard == MessagesKept /\ DecisionsReachLoneRuns
=============================================================================
