SPECIFICATION Spec
CONSTANTS
    Parts = {"shells", "mcp", "plugins"}
    c1 = c1  c2 = c2  c3 = c3  s1 = s1  s2 = s2
    ShellCommands = {c1, c2, c3}
    ShellSessions = {s1, s2}
    SessionOf <- TwoSessions
    BackgroundOf <- SecondInBackground
    MaxShellExits = 1
    NoShell = NoShell
    McpCalls = {q1, q2, q3}
    MaxMcpTimeouts = 2
    NoCall = NoCall
    f1 = f1  f2 = f2  f3 = f3
    PluginUsers = {u1, u2}
    Fingerprints = {f1, f2, f3}
    NameOf <- SameName
    Configs <- ThreeConfigs
    Reconcilers = {poll, reload}
    MaxConfigEdits = 1
    MaxConnectFailures = 1
    Nobody = Nobody
INVARIANTS ServicesAreSound
PROPERTIES ServicesSettle
CHECK_DEADLOCK FALSE
