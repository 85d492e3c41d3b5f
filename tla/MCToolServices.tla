--------------------------- MODULE MCToolServices ---------------------------
(***************************************************************************)
(* Small instances of the services behind the engine's tools, which share  *)
(* no state: shells and jobs, an MCP connection, the plugin pool.          *)
(***************************************************************************)
EXTENDS Shells, McpLink, PluginPool

CONSTANTS
    Parts,
    c1, c2, c3, s1, s2, f1, f2, f3

TwoSessions == [c \in {c1, c2, c3} |-> IF c = c3 THEN s2 ELSE s1]
SecondInBackground == [c \in {c1, c2, c3} |-> c = c2]
SameName == [f \in {f1, f2, f3} |-> IF f = f3 THEN "b" ELSE "a"]
ThreeConfigs == {{}, {f1}, {f2, f3}}

VARIABLE part

tsVars == <<part, shVars, mcVars, ppVars>>

Init ==
    /\ part \in Parts /\ ShInit /\ McInit /\ PpInit
    /\ part # "plugins" => files = [u \in PluginUsers |-> {}]

Next ==
    \/ part = "shells" /\ ShNext /\ UNCHANGED <<part, mcVars, ppVars>>
    \/ part = "mcp" /\ McNext /\ UNCHANGED <<part, shVars, ppVars>>
    \/ part = "plugins" /\ PpNext /\ UNCHANGED <<part, shVars, mcVars>>

\* What callers share is theirs: a running shell is in the table unless it was
\* started in a race, an answer goes to the call that asked until one timed out,
\* and connections and tools of the plugins are open and registered for exactly
\* the users who refer to them (execute, send_jsonrpc, reconcile).
ServicesAreSound ==
    /\ ShellsTypeOK /\ McpLinkTypeOK /\ PluginPoolTypeOK
    /\ OrphansNeedARace
    /\ AnswersMatchUntilTimeout
    /\ HandlersAreLive /\ ReferencesMatch /\ OwnersMatch

\* Every background job leaves the table in the end, and every configuration of an
\* active user is loaded (_start_cleanup_loop, _poll_loop).
ServicesSettle == JobsAreForgotten /\ ConfigsAreLoaded

Spec == Init /\ [][Next]_tsVars /\ ShFairness /\ (part = "plugins" => PpFairness)
=============================================================================
