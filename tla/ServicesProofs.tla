--------------------------- MODULE ServicesProofs ---------------------------
(***************************************************************************)
(* Proofs about the services behind the engine's tools, for any commands,  *)
(* sessions, calls, users and servers: running shells stay in the table,   *)
(* an MCP connection keeps calls and answers in step until a time-out, and *)
(* the plugin pool's references, owners and handlers agree; and about the  *)
(* background work of agents: what is told of instances and sub-agents is  *)
(* true, and the hub's quota, waves and semaphore hold; and about agent    *)
(* runs: what is sent is well formed, and what users say arrives.          *)
(***************************************************************************)
EXTENDS MCToolServices, MCAgentTeams, MCAgents, DataLemmas, SequenceTheorems, TLAPS

----------------------------------------------------------------------------
(* Shells.                                                                 *)

Spawning(c) == command[c].pc = "spawning"

\* Who starts a shell for a session without a race is alone at it and finds no entry
\* to write over.
AloneUnlessRaced ==
    \A c \in ShellCommands : Spawning(c) /\ SessionOf[c] \notin raced =>
        /\ procs[SessionOf[c]] = NoShell
        /\ \A d \in ShellCommands : SessionOf[d] = SessionOf[c] /\ Spawning(d) => d = c

ShellInv == ShellsTypeOK /\ OrphansNeedARace /\ AloneUnlessRaced

----------------------------------------------------------------------------
(* The MCP connection.                                                     *)

\* One line is under way for the call that holds the lock, and none without one, as
\* long as nobody gave up.
InStep ==
    /\ holder = NoCall => requests = <<>> /\ answers = <<>>
    /\ holder # NoCall => \/ requests = <<holder>> /\ answers = <<>> /\ server
                          \/ requests = <<>> /\ answers = <<holder>>
                          \/ requests = <<>> /\ answers = <<>> /\ ~server
LinkInv ==
    /\ McpLinkTypeOK /\ AnswersMatchUntilTimeout
    /\ \A q \in McpCalls : mcall[q].pc = "reading" => holder = q
    /\ timeouts = 0 => InStep

----------------------------------------------------------------------------
(* The plugin pool.                                                        *)

\* A user's tools are those of the user's connections, and a handler is a server of its
\* tool's name.
ToolsAreConnected ==
    /\ \A v \in PluginUsers : userTools[v] = {NameOf[f] : f \in userConns[v]}
    /\ \A n \in ToolNames : \A f \in toolDefs[n].handler : NameOf[f] = n
PoolInv ==
    /\ PluginPoolTypeOK /\ ReferencesMatch /\ OwnersMatch /\ ToolsAreConnected
    /\ \A r \in Reconcilers : recon[r].pc \in {"read", "servers"} => recon[r].user \in PluginUsers

----------------------------------------------------------------------------
(* The steps of the shells.                                                *)

LEMMA QueueTypes ==
    ASSUME NEW S, NEW s \in Seq(S)
    PROVE  /\ \A x \in S : Append(s, x) \in Seq(S)
           /\ s # <<>> => Head(s) \in S /\ Tail(s) \in Seq(S)
BY AppendProperties, HeadTailProperties

LEMMA ShellTypes ==
    ASSUME ShellInv
    PROVE  /\ procs \in [ShellSessions -> ShellCommands \union {NoShell}] /\ alive \subseteq ShellCommands
           /\ lines \in [ShellCommands -> Seq(ShellCommands)] /\ command \in [ShellCommands -> ShellCommand]
           /\ finished \subseteq ShellCommands /\ jobs \subseteq ShellCommands
           /\ raced \subseteq ShellSessions /\ exits \in 0..MaxShellExits
           /\ SessionOf \in [ShellCommands -> ShellSessions] /\ NoShell \notin ShellCommands /\ NoShell \notin alive
           /\ MaxShellExits \in Nat
BY ShellAssumption DEF ShellInv, ShellsTypeOK, ShellAssumption

\* What a coroutine turns into keeps the type.
LEMMA BecomesTypes ==
    ASSUME ShellInv, NEW c \in ShellCommands, NEW sh \in ShellCommands \union {NoShell},
           NEW pc \in {"new", "spawning", "polling", "completed", "reset", "timed_out", "blocked", "cancelled"},
           Becomes(c, pc, sh)
    PROVE  /\ command' \in [ShellCommands -> ShellCommand]
           /\ \A d \in ShellCommands : command'[d].pc = IF d = c THEN pc ELSE command[d].pc
<1> DEFINE r == [pc |-> pc, shell |-> sh]
<1>1. r \in ShellCommand /\ r.pc = pc
  BY DEF ShellCommand
<1> HIDE DEF r
<1>2. command' = [command EXCEPT ![c] = r]
  BY DEF Becomes, r
<1> QED BY <1>1, <1>2, ShellTypes

\* The start of a shell.
LEMMA StartShellKeeps == ASSUME ShellInv, NEW c \in ShellCommands, StartShell(c) PROVE ShellInv'
<1> USE ShellTypes
<1> DEFINE s == SessionOf[c]
<1>1. /\ procs' = [t \in ShellSessions |-> IF procs[t] \in alive THEN procs[t] ELSE NoShell]
      /\ alive' = alive \union {c} /\ s \in ShellSessions /\ raced \subseteq raced' /\ raced' \subseteq ShellSessions
      /\ procs[s] = NoShell \/ procs[s] \notin alive
      /\ UNCHANGED <<lines, finished, jobs, exits>>
      /\ Becomes(c, "spawning", c)
      /\ raced' = IF \E d \in ShellCommands : SessionOf[d] = s /\ command[d].pc = "spawning"
                  THEN raced \union {s} ELSE raced
  BY DEF StartShell
<1>2. /\ command' \in [ShellCommands -> ShellCommand]
      /\ \A d \in ShellCommands : command'[d].pc = IF d = c THEN "spawning" ELSE command[d].pc
  BY <1>1, BecomesTypes
<1>3. ShellsTypeOK'
  BY <1>1, <1>2 DEF ShellsTypeOK
<1>4. OrphansNeedARace'
  <2> SUFFICES ASSUME NEW sh \in alive'
               PROVE  procs'[SessionOf[sh]] = sh \/ command'[sh].pc = "spawning" \/ SessionOf[sh] \in raced'
    BY DEF OrphansNeedARace
  <2>1. CASE sh = c
    BY <1>2, <2>1
  <2>2. CASE sh \in alive /\ sh # c
    BY <1>1, <1>2, <2>2 DEF ShellInv, OrphansNeedARace
  <2> QED BY <1>1, <2>1, <2>2
<1>5. AloneUnlessRaced'
  <2> SUFFICES ASSUME NEW d \in ShellCommands, command'[d].pc = "spawning", SessionOf[d] \notin raced'
               PROVE  /\ procs'[SessionOf[d]] = NoShell
                      /\ \A e \in ShellCommands : SessionOf[e] = SessionOf[d] /\ command'[e].pc = "spawning" => e = d
    BY DEF AloneUnlessRaced, Spawning
  <2>1. CASE SessionOf[d] = s
    <3>1. \A e \in ShellCommands : SessionOf[e] = s => command[e].pc # "spawning"
      BY <1>1, <2>1
    <3> QED BY <1>1, <1>2, <2>1, <3>1
  <2>2. CASE SessionOf[d] # s
    <3>1. Spawning(d) /\ SessionOf[d] \notin raced
      BY <1>1, <1>2, <2>2 DEF Spawning
    <3>2. /\ procs[SessionOf[d]] = NoShell
          /\ \A e \in ShellCommands : SessionOf[e] = SessionOf[d] /\ Spawning(e) => e = d
      BY <3>1 DEF ShellInv, AloneUnlessRaced
    <3> QED BY <1>1, <1>2, <2>2, <3>2 DEF Spawning
  <2> QED BY <2>1, <2>2
<1> QED BY <1>3, <1>4, <1>5 DEF ShellInv

\* The new shell takes its place in the table.
LEMMA ShellStartedKeeps == ASSUME ShellInv, NEW c \in ShellCommands, ShellStarted(c) PROVE ShellInv'
<1> USE ShellTypes
<1> DEFINE s == SessionOf[c]
<1>1. /\ Spawning(c) /\ s \in ShellSessions /\ UNCHANGED <<alive, finished, jobs, raced, exits>>
      /\ lines' \in [ShellCommands -> Seq(ShellCommands)]
  <2>1. Append(lines[c], c) \in Seq(ShellCommands)
    BY QueueTypes
  <2>2. lines' = lines \/ lines' = [lines EXCEPT ![c] = Append(lines[c], c)]
    BY DEF ShellStarted
  <2>3. lines' \in [ShellCommands -> Seq(ShellCommands)]
    BY <2>1, <2>2
  <2>4. Spawning(c) /\ s \in ShellSessions /\ UNCHANGED <<alive, finished, jobs, raced, exits>>
    BY DEF ShellStarted, Spawning
  <2> QED BY <2>3, <2>4
<1>2. PICK pc \in {"blocked", "polling", "reset"} :
        /\ Becomes(c, pc, c)
        /\ procs' = [procs EXCEPT ![s] = c] \/ (procs' = [procs EXCEPT ![s] = NoShell] /\ c \notin alive)
  BY DEF ShellStarted
<1>3. /\ command' \in [ShellCommands -> ShellCommand]
      /\ \A d \in ShellCommands : command'[d].pc = IF d = c THEN pc ELSE command[d].pc
  BY <1>2, BecomesTypes
<1>4. ShellsTypeOK'
  BY ZenonT(40), <1>1, <1>2, <1>3 DEF ShellsTypeOK
<1>5. s \notin raced => /\ procs[s] = NoShell
                        /\ \A d \in ShellCommands : SessionOf[d] = s /\ Spawning(d) => d = c
  BY <1>1 DEF ShellInv, AloneUnlessRaced
<1>6. OrphansNeedARace'
  <2> SUFFICES ASSUME NEW sh \in alive
               PROVE  procs'[SessionOf[sh]] = sh \/ command'[sh].pc = "spawning" \/ SessionOf[sh] \in raced
    BY <1>1 DEF OrphansNeedARace
  <2>1. procs[SessionOf[sh]] = sh \/ Spawning(sh) \/ SessionOf[sh] \in raced
    BY DEF ShellInv, OrphansNeedARace, Spawning
  <2>2. CASE sh = c
    BY <1>1, <1>2, <2>2
  <2>3. CASE sh # c /\ SessionOf[sh] = s
    BY <1>5, <2>1, <2>3
  <2>4. CASE sh # c /\ SessionOf[sh] # s
    BY <1>1, <1>2, <1>3, <2>1, <2>4 DEF Spawning
  <2> QED BY <2>2, <2>3, <2>4
<1>7. AloneUnlessRaced'
  <2> SUFFICES ASSUME NEW d \in ShellCommands, command'[d].pc = "spawning", SessionOf[d] \notin raced
               PROVE  /\ procs'[SessionOf[d]] = NoShell
                      /\ \A e \in ShellCommands : SessionOf[e] = SessionOf[d] /\ command'[e].pc = "spawning" => e = d
    BY <1>1 DEF AloneUnlessRaced, Spawning
  <2>1. d # c /\ Spawning(d)
    BY <1>2, <1>3 DEF Spawning
  <2>2. /\ procs[SessionOf[d]] = NoShell
        /\ \A e \in ShellCommands : SessionOf[e] = SessionOf[d] /\ Spawning(e) => e = d
    BY <2>1 DEF ShellInv, AloneUnlessRaced
  <2>3. SessionOf[d] # s
    BY <1>1, <2>1, <2>2
  <2> QED BY <1>1, <1>2, <1>3, <2>1, <2>2, <2>3 DEF Spawning
<1> QED BY <1>4, <1>6, <1>7 DEF ShellInv

\* Steps that start no shell: an entry is kept or dropped with its shell, and who gives up
\* starting one says so.
Calm == /\ alive' \subseteq alive /\ raced \subseteq raced'
        /\ \A t \in ShellSessions : procs'[t] = procs[t] \/ (procs'[t] = NoShell /\ procs[t] \notin alive')
        /\ \A d \in ShellCommands : /\ Spawning(d)' => Spawning(d)
                                    /\ Spawning(d) => Spawning(d)' \/ SessionOf[d] \in raced'
LEMMA CalmKeeps ==
    ASSUME ShellInv, Calm, ShellsTypeOK'
    PROVE  ShellInv'
<1> USE ShellTypes
<1>1. OrphansNeedARace'
  <2> SUFFICES ASSUME NEW sh \in alive'
               PROVE  procs'[SessionOf[sh]] = sh \/ command'[sh].pc = "spawning" \/ SessionOf[sh] \in raced'
    BY DEF OrphansNeedARace
  <2>1. sh \in alive /\ sh \in ShellCommands /\ SessionOf[sh] \in ShellSessions
    BY DEF Calm
  <2>2. procs[SessionOf[sh]] = sh \/ Spawning(sh) \/ SessionOf[sh] \in raced
    BY <2>1 DEF ShellInv, OrphansNeedARace, Spawning
  <2> QED BY <2>1, <2>2 DEF Calm, Spawning
<1>2. AloneUnlessRaced'
  <2> SUFFICES ASSUME NEW d \in ShellCommands, Spawning(d)', SessionOf[d] \notin raced'
               PROVE  /\ procs'[SessionOf[d]] = NoShell
                      /\ \A e \in ShellCommands : SessionOf[e] = SessionOf[d] /\ Spawning(e)' => e = d
    BY DEF AloneUnlessRaced
  <2>1. Spawning(d) /\ SessionOf[d] \notin raced
    BY DEF Calm
  <2>2. /\ procs[SessionOf[d]] = NoShell
        /\ \A e \in ShellCommands : SessionOf[e] = SessionOf[d] /\ Spawning(e) => e = d
    BY <2>1 DEF ShellInv, AloneUnlessRaced
  <2> QED BY <2>1, <2>2 DEF Calm
<1> QED BY <1>1, <1>2 DEF ShellInv

\* A coroutine that was not starting a shell becomes something else.
LEMMA PollersKeep ==
    ASSUME ShellInv, NEW c \in ShellCommands, ~Spawning(c),
           NEW pc \in {"new", "polling", "completed", "reset", "timed_out", "blocked", "cancelled"},
           NEW sh \in ShellCommands \union {NoShell}, Becomes(c, pc, sh),
           lines' \in [ShellCommands -> Seq(ShellCommands)], UNCHANGED <<finished, jobs, raced, exits>>,
           \/ UNCHANGED <<procs, alive>>
           \/ Discard(SessionOf[c])
    PROVE  ShellInv'
<1> USE ShellTypes
<1>1. /\ command' \in [ShellCommands -> ShellCommand]
      /\ \A d \in ShellCommands : command'[d].pc = IF d = c THEN pc ELSE command[d].pc
  BY BecomesTypes
<1>2. ShellsTypeOK'
  BY <1>1 DEF ShellsTypeOK, Discard
<1>3. Calm
  BY <1>1 DEF Calm, Spawning, Discard
<1> QED BY <1>2, <1>3, CalmKeeps

\* Commands that share a live shell, or end.
LEMMA CommandsKeep ==
    ASSUME ShellInv, NEW c \in ShellCommands, RunInShell(c) \/ Completes(c) \/ ShellGone(c) \/ TimesOut(c)
    PROVE  ShellInv'
<1> USE ShellTypes
<1>1. CASE RunInShell(c)
  <2> DEFINE sh == procs[SessionOf[c]]
  <2>1. sh \in ShellCommands /\ ~Spawning(c) /\ UNCHANGED <<procs, alive, finished, jobs, raced, exits>>
    BY <1>1 DEF RunInShell, Starts, Spawning
  <2>2. PICK pc \in {"polling", "blocked"} : Becomes(c, pc, sh)
    BY <1>1 DEF RunInShell
  <2>3. lines' = lines \/ lines' = [lines EXCEPT ![sh] = Append(lines[sh], c)]
    BY <1>1 DEF RunInShell
  <2>4. Append(lines[sh], c) \in Seq(ShellCommands)
    BY <2>1, QueueTypes
  <2> HIDE DEF sh
  <2>5. lines' \in [ShellCommands -> Seq(ShellCommands)]
    BY <2>3, <2>4
  <2> QED BY <2>1, <2>2, <2>5, PollersKeep
<1>2. CASE Completes(c) \/ ShellGone(c) \/ TimesOut(c)
  <2>1. /\ ~Spawning(c) /\ command[c].shell \in ShellCommands \union {NoShell}
        /\ UNCHANGED <<lines, finished, jobs, raced, exits>> /\ (UNCHANGED <<procs, alive>> \/ Discard(SessionOf[c]))
    BY <1>2 DEF Completes, ShellGone, TimesOut, Spawning, ShellCommand
  <2>2. PICK pc \in {"completed", "reset", "timed_out"} : Becomes(c, pc, command[c].shell)
    BY <1>2 DEF Completes, ShellGone, TimesOut
  <2> QED BY <2>1, <2>2, PollersKeep
<1> QED BY <1>1, <1>2

\* Shells get on or exit, jobs come and go.
LEMMA TablesKeep ==
    ASSUME ShellInv, NEW c \in ShellCommands,
           RunInBackground(c) \/ ShellAdvances(c) \/ ShellExits(c) \/ JobOutput(c) \/ Cleanup(c)
    PROVE  ShellInv'
<1> USE ShellTypes
<1>1. /\ Calm /\ UNCHANGED <<procs, command, raced>> /\ alive' \subseteq ShellCommands /\ jobs' \subseteq ShellCommands
      /\ exits' \in 0..MaxShellExits
  BY DEF RunInBackground, ShellAdvances, ShellExits, JobOutput, Cleanup, Calm, Spawning
<1>2. lines' \in [ShellCommands -> Seq(ShellCommands)] /\ finished' \subseteq ShellCommands
  <2>1. CASE ShellAdvances(c)
    <3>1. lines[c] # <<>> /\ lines[c] \in Seq(ShellCommands)
      BY <2>1 DEF ShellAdvances
    <3>2. Head(lines[c]) \in ShellCommands /\ Tail(lines[c]) \in Seq(ShellCommands)
      BY <3>1, QueueTypes
    <3> QED BY <2>1, <3>2 DEF ShellAdvances
  <2>2. CASE lines' = lines /\ finished' = finished
    BY <2>2
  <2> QED BY <2>1, <2>2 DEF RunInBackground, ShellExits, JobOutput, Cleanup
<1> QED BY <1>1, <1>2, CalmKeeps DEF ShellsTypeOK

LEMMA PcIsSet ==
    ASSUME NEW o, o = [pc |-> o.pc, shell |-> o.shell], NEW x
    PROVE  [o EXCEPT !.pc = x] = [pc |-> x, shell |-> o.shell]
OBVIOUS

\* A job is killed, perhaps while it starts a shell.
LEMMA JobKillKeeps == ASSUME ShellInv, NEW c \in ShellCommands, JobKill(c) PROVE ShellInv'
<1> USE ShellTypes
<1>1. /\ command' \in [ShellCommands -> ShellCommand]
      /\ \A d \in ShellCommands : command'[d].pc = command[d].pc \/ (d = c /\ command'[d].pc = "cancelled")
  <2> DEFINE r == [command[c] EXCEPT !.pc = "cancelled"]
  <2>1. command[c] = [pc |-> command[c].pc, shell |-> command[c].shell] /\ command[c].shell \in ShellCommands \union {NoShell}
    BY DEF ShellCommand
  <2>2. r = [pc |-> "cancelled", shell |-> command[c].shell]
    BY <2>1, PcIsSet
  <2>3. r \in ShellCommand /\ r.pc = "cancelled"
    BY <2>1, <2>2 DEF ShellCommand
  <2>4. command' = command \/ command' = [command EXCEPT ![c] = r]
    BY DEF JobKill
  <2> HIDE DEF r
  <2> QED BY <2>3, <2>4
<1>2. /\ jobs' \subseteq jobs /\ alive' \subseteq alive /\ raced \subseteq raced' /\ raced' \subseteq ShellSessions
      /\ UNCHANGED <<procs, lines, finished, exits>>
      /\ Spawning(c) => SessionOf[c] \in raced'
  BY DEF JobKill, Spawning
<1>3. ShellsTypeOK'
  BY <1>1, <1>2 DEF ShellsTypeOK
<1>4. Calm
  BY <1>1, <1>2 DEF Calm, Spawning
<1> QED BY <1>3, <1>4, CalmKeeps

LEMMA ShellStep == ASSUME ShellInv, ShNext PROVE ShellInv'
BY StartShellKeeps, ShellStartedKeeps, CommandsKeep, TablesKeep, JobKillKeeps DEF ShNext

LEMMA ShellStart == ShInit => ShellInv
<1> SUFFICES ASSUME ShInit PROVE ShellInv
  OBVIOUS
<1>1. ShellsTypeOK
  BY ShellAssumption DEF ShInit, ShellsTypeOK, ShellCommand, ShellAssumption
<1>2. \A c \in ShellCommands : command[c].pc = "new"
  BY DEF ShInit
<1> QED BY <1>1, <1>2 DEF ShInit, ShellInv, OrphansNeedARace, AloneUnlessRaced, Spawning

----------------------------------------------------------------------------
(* The steps of the MCP connection.                                        *)

LEMMA LinkTypes ==
    ASSUME LinkInv
    PROVE  /\ mcall \in [McpCalls -> [pc: {"new", "reading", "answered", "failed"}, got: McpCalls \union {NoCall}]]
           /\ holder \in McpCalls \union {NoCall} /\ (holder # NoCall => mcall[holder].pc = "reading")
           /\ requests \in Seq(McpCalls) /\ answers \in Seq(McpCalls)
           /\ server \in BOOLEAN /\ timeouts \in 0..MaxMcpTimeouts
           /\ MaxMcpTimeouts \in Nat /\ NoCall \notin McpCalls
           /\ \A q \in McpCalls : mcall[q].pc = "reading" => holder = q
BY McpAssumption DEF LinkInv, McpLinkTypeOK, McpAssumption

\* A sequence of one line.
LEMMA OneLine ==
    ASSUME NEW x, NEW s
    PROVE  /\ s = <<>> => Append(s, x) = <<x>>
           /\ Head(<<x>>) = x /\ Tail(<<x>>) = <<>> /\ <<x>> # <<>>
<1>1. <<x>> # <<>> /\ Head(<<x>>) = x
  OBVIOUS
<1>2. Tail(<<x>>) = <<>>
  OBVIOUS
<1>3. s = <<>> => Append(s, x) = <<x>>
  OBVIOUS
<1> QED BY <1>1, <1>2, <1>3

\* A caller gets out with a line or without.
LEMMA LeavesTypes ==
    ASSUME LinkInv, NEW q \in McpCalls, NEW pc \in {"answered", "failed"}, NEW got \in McpCalls \union {NoCall},
           Leaves(q, pc, got), mcall[q].pc = "reading" \/ holder = NoCall
    PROVE  /\ mcall' \in [McpCalls -> [pc: {"new", "reading", "answered", "failed"}, got: McpCalls \union {NoCall}]]
           /\ \A d \in McpCalls : /\ d # q => mcall'[d] = mcall[d]
                                  /\ d = q => mcall'[d].pc = pc /\ mcall'[d].got = got
           /\ holder' = NoCall /\ \A d \in McpCalls : mcall'[d].pc # "reading"
<1> DEFINE r == [pc |-> pc, got |-> got]
<1>1. /\ r \in [pc: {"new", "reading", "answered", "failed"}, got: McpCalls \union {NoCall}]
      /\ r.pc = pc /\ r.got = got
  OBVIOUS
<1> HIDE DEF r
<1>2. mcall' = [mcall EXCEPT ![q] = r] /\ holder' = IF holder = q THEN NoCall ELSE holder
  BY DEF Leaves, r
<1>3. holder' = NoCall
  BY <1>2, LinkTypes
<1>4. \A d \in McpCalls : d # q => mcall[d].pc # "reading"
  BY LinkTypes
<1> QED BY <1>1, <1>2, <1>3, <1>4, LinkTypes

LEMMA SendKeeps == ASSUME LinkInv, NEW q \in McpCalls, SendRequest(q) PROVE LinkInv'
<1> USE LinkTypes
<1>1. mcall[q].pc = "new" /\ holder = NoCall /\ UNCHANGED <<answers, server, timeouts>>
  BY DEF SendRequest, TakeLock
<1>2. timeouts = 0 => requests = <<>> /\ answers = <<>>
  BY <1>1 DEF LinkInv, InStep
<1>3. CASE /\ server /\ TakeLock(q)
           /\ mcall' = [mcall EXCEPT ![q].pc = "reading"]
           /\ requests' = Append(requests, q)
  <2> DEFINE r == [mcall[q] EXCEPT !.pc = "reading"]
  <2>1. /\ r \in [pc: {"new", "reading", "answered", "failed"}, got: McpCalls \union {NoCall}]
        /\ r.pc = "reading"
    OBVIOUS
  <2>2. mcall' = [mcall EXCEPT ![q] = r]
    BY <1>3
  <2> HIDE DEF r
  <2>3. /\ mcall' \in [McpCalls -> [pc: {"new", "reading", "answered", "failed"}, got: McpCalls \union {NoCall}]]
        /\ \A d \in McpCalls : (d # q => mcall'[d] = mcall[d]) /\ (d = q => mcall'[d].pc = "reading")
        /\ holder' = q /\ q # NoCall
    BY ZenonT(40), <1>3, <2>1, <2>2 DEF TakeLock
  <2>4. requests' \in Seq(McpCalls)
    BY <1>3, QueueTypes
  <2>5. McpLinkTypeOK'
    BY <1>1, <2>3, <2>4 DEF McpLinkTypeOK
  <2>6. AnswersMatchUntilTimeout'
    BY <1>1, <2>3 DEF LinkInv, AnswersMatchUntilTimeout
  <2>7. timeouts' = 0 => InStep'
    BY <1>1, <1>2, <1>3, <2>3, OneLine DEF InStep
  <2> QED BY <1>1, <2>3, <2>5, <2>6, <2>7 DEF LinkInv
<1>4. CASE ~server /\ Leaves(q, "failed", NoCall) /\ UNCHANGED requests
  <2>1. /\ mcall' \in [McpCalls -> [pc: {"new", "reading", "answered", "failed"}, got: McpCalls \union {NoCall}]]
        /\ \A d \in McpCalls : (d # q => mcall'[d] = mcall[d]) /\ (d = q => mcall'[d].pc = "failed")
        /\ holder' = NoCall /\ \A d \in McpCalls : mcall'[d].pc # "reading"
    BY <1>1, <1>4, LeavesTypes
  <2>2. McpLinkTypeOK'
    BY <1>1, <1>4, <2>1 DEF McpLinkTypeOK
  <2>3. AnswersMatchUntilTimeout'
    BY <1>1, <2>1 DEF LinkInv, AnswersMatchUntilTimeout
  <2> QED BY <1>1, <1>2, <1>4, <2>1, <2>2, <2>3 DEF LinkInv, InStep
<1> QED BY <1>3, <1>4 DEF SendRequest

LEMMA ReadsKeep == ASSUME LinkInv, NEW q \in McpCalls, ReadAnswer(q) \/ ReadFails(q) PROVE LinkInv'
<1> USE LinkTypes
<1>1. mcall[q].pc = "reading" /\ holder = q /\ q # NoCall /\ UNCHANGED <<requests, server>>
  BY DEF ReadAnswer, ReadFails
<1>2. timeouts = 0 => InStep
  BY DEF LinkInv
<1>3. CASE ReadAnswer(q)
  <2>1. Head(answers) \in McpCalls /\ Tail(answers) \in Seq(McpCalls) /\ answers # <<>>
    BY <1>3, QueueTypes DEF ReadAnswer
  <2>2. /\ mcall' \in [McpCalls -> [pc: {"new", "reading", "answered", "failed"}, got: McpCalls \union {NoCall}]]
        /\ \A d \in McpCalls : /\ d # q => mcall'[d] = mcall[d]
                               /\ d = q => mcall'[d].pc = "answered" /\ mcall'[d].got = Head(answers)
        /\ holder' = NoCall /\ \A d \in McpCalls : mcall'[d].pc # "reading"
    BY <1>1, <1>3, <2>1, LeavesTypes DEF ReadAnswer
  <2>3. timeouts = 0 => requests = <<>> /\ answers = <<q>>
    BY <1>1, <1>2, <2>1 DEF InStep
  <2>4. timeouts = 0 => Head(answers) = q /\ Tail(answers) = <<>>
    BY <2>3, OneLine
  <2>5. McpLinkTypeOK'
    BY <1>1, <1>3, <2>1, <2>2 DEF McpLinkTypeOK, ReadAnswer
  <2>6. AnswersMatchUntilTimeout'
    BY <1>3, <2>2, <2>4 DEF LinkInv, AnswersMatchUntilTimeout, ReadAnswer
  <2>7. timeouts' = 0 => InStep'
    BY <1>1, <1>3, <2>2, <2>3, <2>4 DEF InStep, ReadAnswer
  <2> QED BY <2>2, <2>5, <2>6, <2>7 DEF LinkInv
<1>4. CASE ReadFails(q)
  <2>1. /\ mcall' \in [McpCalls -> [pc: {"new", "reading", "answered", "failed"}, got: McpCalls \union {NoCall}]]
        /\ \A d \in McpCalls : (d # q => mcall'[d] = mcall[d]) /\ (d = q => mcall'[d].pc = "failed")
        /\ holder' = NoCall /\ \A d \in McpCalls : mcall'[d].pc # "reading"
    BY <1>1, <1>4, LeavesTypes DEF ReadFails
  <2>2. /\ answers = <<>> /\ answers' = answers /\ timeouts' \in 0..MaxMcpTimeouts
        /\ timeouts' = 0 => timeouts = 0 /\ ~server
    BY <1>4 DEF ReadFails
  <2>3. McpLinkTypeOK'
    BY <1>1, <2>1, <2>2 DEF McpLinkTypeOK
  <2>4. AnswersMatchUntilTimeout'
    BY <2>1, <2>2 DEF LinkInv, AnswersMatchUntilTimeout
  <2>5. timeouts' = 0 => requests = <<>>
    BY <1>1, <1>2, <2>2 DEF InStep
  <2> QED BY <1>1, <2>1, <2>2, <2>3, <2>4, <2>5 DEF LinkInv, InStep
<1> QED BY <1>3, <1>4

LEMMA ServerKeeps == ASSUME LinkInv, ServerAnswers \/ ServerExits PROVE LinkInv'
<1> USE LinkTypes
<1>1. UNCHANGED <<mcall, holder, timeouts>> /\ server
  BY DEF ServerAnswers, ServerExits
<1>2. timeouts = 0 => InStep
  BY DEF LinkInv
<1>3. AnswersMatchUntilTimeout' /\ \A q \in McpCalls : mcall'[q].pc = "reading" => holder' = q
  BY <1>1 DEF LinkInv, AnswersMatchUntilTimeout
<1>4. CASE ServerAnswers
  <2>1. requests # <<>> /\ Head(requests) \in McpCalls /\ requests' = Tail(requests) /\ server' = server
        /\ answers' = Append(answers, Head(requests))
    BY <1>4, QueueTypes DEF ServerAnswers
  <2>2. requests' \in Seq(McpCalls) /\ answers' \in Seq(McpCalls)
    BY <2>1, QueueTypes
  <2>3. McpLinkTypeOK'
    BY <1>1, <2>1, <2>2 DEF McpLinkTypeOK
  <2>4. timeouts = 0 => requests = <<holder>> /\ answers = <<>> /\ holder # NoCall
    BY <1>2, <2>1 DEF InStep
  <2>5. timeouts = 0 => requests' = <<>> /\ answers' = <<holder>>
    BY <2>1, <2>4, OneLine
  <2> QED BY <1>1, <1>3, <2>3, <2>4, <2>5 DEF LinkInv, InStep
<1>5. CASE ServerExits
  <2>1. requests' = <<>> /\ answers' = answers /\ server' = FALSE
    BY <1>5 DEF ServerExits
  <2>2. McpLinkTypeOK'
    <3>1. requests' \in Seq(McpCalls) /\ server' \in BOOLEAN
      BY <2>1, EmptySeq
    <3> QED BY <1>1, <2>1, <3>1 DEF McpLinkTypeOK
  <2> QED BY <1>1, <1>2, <1>3, <2>1, <2>2 DEF LinkInv, InStep
<1> QED BY <1>4, <1>5

LEMMA LinkStep == ASSUME LinkInv, McNext PROVE LinkInv'
BY SendKeeps, ReadsKeep, ServerKeeps DEF McNext

LEMMA LinkStart == McInit => LinkInv
BY McpAssumption DEF McInit, LinkInv, McpLinkTypeOK, AnswersMatchUntilTimeout, InStep, McpAssumption

----------------------------------------------------------------------------
(* The steps of the plugin pool.                                           *)

ReconOK(o) == o \in Recon /\ (o.pc \in {"read", "servers"} => o.user \in PluginUsers)

\* Who refers to a connection, and who to a tool.
Referring(f) == {v \in PluginUsers : f \in userConns[v]}
Loading(n) == {v \in PluginUsers : n \in userTools[v]}

PoolTables ==
    /\ conns \in [Fingerprints -> (SUBSET PluginUsers) \union {Closed}]
    /\ userSig \in [PluginUsers -> (SUBSET Fingerprints) \union {Closed}]
    /\ userConns \in [PluginUsers -> SUBSET Fingerprints] /\ userTools \in [PluginUsers -> SUBSET ToolNames]
    /\ toolDefs \in [ToolNames -> [owners: SUBSET PluginUsers, handler: SUBSET Fingerprints]]

\* The tables agree with each other.
PoolAgrees ==
    /\ \A f \in Fingerprints : IF conns[f] = Closed THEN Referring(f) = {} ELSE conns[f] = Referring(f)
    /\ \A n \in ToolNames : /\ toolDefs[n].owners = Loading(n)
                            /\ (toolDefs[n].owners = {}) = (toolDefs[n].handler = {})
                            /\ \A f \in toolDefs[n].handler : NameOf[f] = n
    /\ \A v \in PluginUsers : userTools[v] = {NameOf[f] : f \in userConns[v]}

PoolRest ==
    /\ files \in [PluginUsers -> SUBSET Fingerprints] /\ tried \in [PluginUsers -> SUBSET Fingerprints]
    /\ activeU \subseteq PluginUsers
    /\ recon \in [Reconcilers -> Recon] /\ \A r \in Reconcilers : ReconOK(recon[r])
    /\ configEdits \in 0..MaxConfigEdits /\ connectFailures \in 0..MaxConnectFailures

LEMMA PoolParts == PoolInv <=> PoolTables /\ PoolAgrees /\ PoolRest
<1>1. ReferencesMatch <=> \A f \in Fingerprints : IF conns[f] = Closed THEN Referring(f) = {} ELSE conns[f] = Referring(f)
  BY DEF ReferencesMatch, Referring
<1>2. OwnersMatch <=> \A n \in ToolNames : /\ toolDefs[n].owners = Loading(n)
                                           /\ (toolDefs[n].owners = {}) = (toolDefs[n].handler = {})
  BY DEF OwnersMatch, Loading
<1>3. recon \in [Reconcilers -> Recon] => \A r \in Reconcilers : recon[r] \in Recon
  OBVIOUS
<1>4. ASSUME PoolInv PROVE PoolTables /\ PoolAgrees /\ PoolRest
  BY <1>1, <1>2, <1>3, <1>4 DEF PoolInv, PluginPoolTypeOK, PoolTables, PoolAgrees, PoolRest, ToolsAreConnected, ReconOK
<1>5. ASSUME PoolTables, PoolAgrees, PoolRest PROVE PoolInv
  BY <1>1, <1>2, <1>5 DEF PoolInv, PluginPoolTypeOK, PoolTables, PoolAgrees, PoolRest, ToolsAreConnected, ReconOK
<1> QED BY <1>4, <1>5

LEMMA PoolConstants ==
    /\ MaxConfigEdits \in Nat /\ MaxConnectFailures \in Nat /\ Nobody \notin PluginUsers
    /\ DOMAIN NameOf = Fingerprints /\ \A S \in Configs : S \subseteq Fingerprints
    /\ \A f \in Fingerprints : NameOf[f] \in ToolNames
    /\ Closed # {} /\ \A U \in SUBSET PluginUsers : U # Closed
BY PluginAssumption DEF PluginAssumption, ToolNames, Closed

\* A reconciler's fields, set one at a time.
PutPc(o, x) == [o EXCEPT !.pc = x]
PutTodo(o, x) == [o EXCEPT !.todo = x]
PutActive(o, x) == [o EXCEPT !.active = x]
PutUser(o, x) == [o EXCEPT !.user = x]
PutSig(o, x) == [o EXCEPT !.sig = x]
PutLeft(o, x) == [o EXCEPT !.left = x]

LEMMA PutsPc ==
    ASSUME NEW o \in Recon, NEW x \in {"idle", "waiting", "users", "read", "servers", "release"}
    PROVE  PutPc(o, x) \in Recon /\ PutPc(o, x).pc = x /\ PutPc(o, x).user = o.user
BY DEF PutPc, Recon
LEMMA PutsTodo ==
    ASSUME NEW o \in Recon, NEW x \in SUBSET PluginUsers
    PROVE  PutTodo(o, x) \in Recon /\ PutTodo(o, x).pc = o.pc /\ PutTodo(o, x).user = o.user
BY DEF PutTodo, Recon
LEMMA PutsUser ==
    ASSUME NEW o \in Recon, NEW x \in PluginUsers \union {Nobody}
    PROVE  PutUser(o, x) \in Recon /\ PutUser(o, x).pc = o.pc /\ PutUser(o, x).user = x
BY DEF PutUser, Recon
LEMMA PutsSig ==
    ASSUME NEW o \in Recon, NEW x \in SUBSET Fingerprints
    PROVE  PutSig(o, x) \in Recon /\ PutSig(o, x).pc = o.pc /\ PutSig(o, x).user = o.user
BY DEF PutSig, Recon
LEMMA PutsActive ==
    ASSUME NEW o \in Recon, NEW x \in SUBSET PluginUsers
    PROVE  PutActive(o, x) \in Recon /\ PutActive(o, x).pc = o.pc /\ PutActive(o, x).user = o.user
BY DEF PutActive, Recon
LEMMA PutsLeft ==
    ASSUME NEW o \in Recon, NEW x \in SUBSET Fingerprints
    PROVE  PutLeft(o, x) \in Recon /\ PutLeft(o, x).pc = o.pc /\ PutLeft(o, x).user = o.user
BY DEF PutLeft, Recon

LEMMA ReconFields ==
    ASSUME NEW o \in Recon
    PROVE  /\ o.pc \in {"idle", "waiting", "users", "read", "servers", "release"} /\ o.todo \subseteq PluginUsers
           /\ o.active \subseteq PluginUsers /\ o.user \in PluginUsers \union {Nobody}
           /\ o.sig \subseteq Fingerprints /\ o.left \subseteq Fingerprints
BY DEF Recon

\* A reconciler goes on.
LEMMA ReconGoes ==
    ASSUME PoolRest, NEW r \in Reconcilers, NEW o, ReconOK(o), recon' = [recon EXCEPT ![r] = o]
    PROVE  recon' \in [Reconcilers -> Recon] /\ \A x \in Reconcilers : ReconOK(recon'[x])
<1>1. DOMAIN recon = Reconcilers /\ o \in Recon
  BY DEF PoolRest, ReconOK
<1>2. \A x \in Reconcilers : recon'[x] = IF x = r THEN o ELSE recon[x]
  BY <1>1
<1> QED BY <1>1, <1>2 DEF PoolRest, ReconOK

LEMMA QuietPool ==
    ASSUME PoolInv, UNCHANGED <<conns, userConns, userTools, toolDefs>>,
           userSig' \in [PluginUsers -> (SUBSET Fingerprints) \union {Closed}], PoolRest'
    PROVE  PoolInv'
<1>1. PoolTables /\ PoolAgrees
  BY PoolParts
<1>2. PoolTables' /\ PoolAgrees'
  BY <1>1 DEF PoolTables, PoolAgrees, Referring, Loading
<1>3. PoolTables' /\ PoolAgrees' /\ PoolRest' => PoolInv'
  BY PoolParts, PTL
<1> QED BY <1>2, <1>3

\* Users edit, come and go.
LEMMA UsersKeep ==
    ASSUME PoolInv, NEW v \in PluginUsers, Touch(v) \/ GoesIdle(v) \/ \E S \in Configs : SaveConfig(v, S)
    PROVE  PoolInv'
<1>1. PoolRest /\ PoolTables
  BY PoolParts
<1>2. /\ UNCHANGED <<poolVars, recon, connectFailures>> /\ activeU' \subseteq PluginUsers
      /\ files' \in [PluginUsers -> SUBSET Fingerprints] /\ configEdits' \in 0..MaxConfigEdits
  BY <1>1, PoolConstants DEF Touch, GoesIdle, SaveConfig, PoolRest
<1>3. PoolRest'
  BY <1>1, <1>2 DEF PoolRest, poolVars
<1> QED BY <1>1, <1>2, <1>3, QuietPool DEF poolVars, PoolTables

\* A reconciler that waits, has the lock, or reads the file again.
LEMMA WaitersKeep ==
    ASSUME PoolInv, NEW r \in Reconcilers, Reconcile(r) \/ GetsLock(r) \/ ReadServers(r) \/ UserLoaded(r)
    PROVE  PoolInv'
<1> DEFINE o == recon[r]
<1>1. PoolRest /\ PoolTables
  BY PoolParts
<1>2. ReconOK(o) /\ o \in Recon /\ activeU \subseteq PluginUsers /\ files \in [PluginUsers -> SUBSET Fingerprints]
      /\ DOMAIN recon = Reconcilers
  BY <1>1 DEF PoolRest, ReconOK
<1>3. ASSUME NEW q, ReconOK(q), recon' = [recon EXCEPT ![r] = q],
             UNCHANGED <<files, activeU, tried, configEdits, connectFailures, conns, userConns, userTools, toolDefs>>,
             userSig' \in [PluginUsers -> (SUBSET Fingerprints) \union {Closed}]
      PROVE  PoolInv'
  <2>1. PoolRest'
    BY <1>1, <1>3, ReconGoes DEF PoolRest
  <2> QED BY <1>3, <2>1, QuietPool
<1>4. CASE Reconcile(r)
  <2> DEFINE a == PutPc(o, "waiting")
             b == PutActive(a, activeU)
             q == PutTodo(b, activeU)
  <2>1. recon' = [recon EXCEPT ![r] = q]
    BY <1>2, <1>4 DEF Reconcile, PutPc, PutTodo, PutActive
  <2>2. ReconOK(q)
    <3>1. a \in Recon /\ a.pc = "waiting"
      BY <1>2, PutsPc
    <3> HIDE DEF a
    <3>2. b \in Recon /\ b.pc = "waiting"
      BY <1>2, <3>1, PutsActive
    <3> HIDE DEF b
    <3>3. q \in Recon /\ q.pc = "waiting"
      BY <1>2, <3>2, PutsTodo
    <3> QED BY <3>3 DEF ReconOK
  <2> HIDE DEF q
  <2> QED BY <1>1, <1>3, <1>4, <2>1, <2>2 DEF Reconcile, poolVars, PoolTables
<1>5. CASE GetsLock(r)
  <2> DEFINE q == PutPc(o, "users")
  <2>1. recon' = [recon EXCEPT ![r] = q]
    BY <1>5 DEF GetsLock, PutPc
  <2>2. ReconOK(q)
    BY <1>2, PutsPc DEF ReconOK
  <2> HIDE DEF q
  <2> QED BY <1>1, <1>3, <1>5, <2>1, <2>2 DEF GetsLock, poolVars, PoolTables
<1>6. CASE ReadServers(r)
  <2> DEFINE a == PutPc(o, "servers")
             q == PutLeft(a, files[o.user])
  <2>1. recon' = [recon EXCEPT ![r] = q]
    BY <1>2, <1>6 DEF ReadServers, PutPc, PutLeft
  <2>2. o.user \in PluginUsers /\ files[o.user] \subseteq Fingerprints
    BY <1>2, <1>6 DEF ReadServers, ReconOK
  <2>3. a \in Recon /\ a.pc = "servers" /\ a.user = o.user
    BY <1>2, PutsPc
  <2> HIDE DEF a
  <2>4. q \in Recon /\ q.pc = "servers" /\ q.user = o.user
    BY <2>2, <2>3, PutsLeft
  <2>5. ReconOK(q)
    BY <2>2, <2>4 DEF ReconOK
  <2> HIDE DEF q
  <2> QED BY <1>1, <1>3, <1>6, <2>1, <2>5 DEF ReadServers, poolVars, PoolTables
<1>7. CASE UserLoaded(r)
  <2> DEFINE a == PutPc(o, "users")
             b == PutTodo(a, o.todo \ {o.user})
             d == PutUser(b, Nobody)
             q == PutSig(d, {})
  <2>1. recon' = [recon EXCEPT ![r] = q]
    BY <1>2, <1>7 DEF UserLoaded, PutPc, PutTodo, PutUser, PutSig
  <2>2. o.todo \ {o.user} \subseteq PluginUsers /\ o.user \in PluginUsers /\ o.sig \subseteq Fingerprints
    BY <1>2, <1>7, ReconFields DEF UserLoaded, ReconOK
  <2>3. a \in Recon /\ a.pc = "users"
    BY <1>2, PutsPc
  <2> HIDE DEF a
  <2>4. b \in Recon /\ b.pc = "users"
    BY <2>2, <2>3, PutsTodo
  <2> HIDE DEF b
  <2>5. d \in Recon /\ d.pc = "users"
    BY <2>4, PutsUser
  <2> HIDE DEF d
  <2>6. q \in Recon /\ q.pc = "users"
    BY <2>5, PutsSig
  <2> HIDE DEF q
  <2>7. userSig' \in [PluginUsers -> (SUBSET Fingerprints) \union {Closed}]
    BY <1>1, <1>7, <2>2 DEF UserLoaded, LoadedSig, PoolTables
  <2> QED BY <1>3, <1>7, <2>1, <2>6, <2>7 DEF UserLoaded, ReconOK
<1> QED BY <1>4, <1>5, <1>6, <1>7

\* What users leave behind: _release_user_locked.
LEMMA ReleasedTools ==
    ASSUME PoolTables, PoolAgrees, NEW U \in SUBSET PluginUsers, NEW n \in ToolNames
    PROVE  LET w == ToolsWithout(U)[n] IN
           /\ w \in [owners: SUBSET PluginUsers, handler: SUBSET Fingerprints]
           /\ w.owners = Loading(n) \ U
           /\ (w.owners = {}) = (w.handler = {}) /\ w.handler \subseteq toolDefs[n].handler
<1> DEFINE o == toolDefs[n]
           owners == o.owners \ {v \in U : n \in userTools[v]}
           w == ToolsWithout(U)[n]
           r == [o EXCEPT !.owners = owners]
<1>1. /\ o = [owners |-> o.owners, handler |-> o.handler] /\ o.owners \subseteq PluginUsers /\ o.handler \subseteq Fingerprints
      /\ o.owners = Loading(n) /\ (o.owners = {}) = (o.handler = {})
  BY DEF PoolTables, PoolAgrees
<1>2. w = IF owners = {} THEN [owners |-> {}, handler |-> {}] ELSE r
  BY DEF ToolsWithout
<1>3. owners = Loading(n) \ U
  BY <1>1 DEF Loading
<1>4. owners \subseteq PluginUsers
  BY <1>1
<1> HIDE DEF owners
<1>5. r = [owners |-> owners, handler |-> o.handler]
  BY <1>1
<1>6. CASE owners = {}
  <2>1. w = [owners |-> {}, handler |-> {}]
    BY <1>2, <1>6
  <2> QED BY <1>3, <1>6, <2>1
<1>7. CASE owners # {}
  <2>1. w = [owners |-> owners, handler |-> o.handler]
    BY <1>2, <1>5, <1>7
  <2>2. o.owners # {}
    BY <1>1, <1>3, <1>7
  <2>3. w.owners = owners /\ w.handler = o.handler
    BY <2>1
  <2> QED BY <1>1, <1>3, <1>4, <1>7, <2>1, <2>2, <2>3
<1> QED BY <1>6, <1>7

LEMMA ReleasedKeeps ==
    ASSUME PoolTables, PoolAgrees, NEW U \in SUBSET PluginUsers, Released(U),
           userSig' \in [PluginUsers -> (SUBSET Fingerprints) \union {Closed}]
    PROVE  PoolTables' /\ PoolAgrees'
<1>1. /\ \A f \in Fingerprints : conns'[f] = IF conns[f] = Closed THEN Closed ELSE conns[f] \ U
      /\ conns' \in [Fingerprints -> (SUBSET PluginUsers) \union {Closed}]
  <2>1. conns' = [f \in Fingerprints |-> IF conns[f] = Closed THEN Closed ELSE conns[f] \ U]
    BY DEF Released, ConnsWithout
  <2>2. \A f \in Fingerprints : conns[f] # Closed => conns[f] \subseteq PluginUsers
    BY DEF PoolTables
  <2> QED BY <2>1, <2>2
<1>2. /\ \A v \in PluginUsers : userConns'[v] = IF v \in U THEN {} ELSE userConns[v]
      /\ \A v \in PluginUsers : userTools'[v] = IF v \in U THEN {} ELSE userTools[v]
      /\ userConns' \in [PluginUsers -> SUBSET Fingerprints] /\ userTools' \in [PluginUsers -> SUBSET ToolNames]
  BY DEF Released, PoolTables
<1>3. /\ toolDefs' \in [ToolNames -> [owners: SUBSET PluginUsers, handler: SUBSET Fingerprints]]
      /\ \A n \in ToolNames : /\ toolDefs'[n].owners = Loading(n) \ U
                              /\ (toolDefs'[n].owners = {}) = (toolDefs'[n].handler = {})
                              /\ toolDefs'[n].handler \subseteq toolDefs[n].handler
  <2>1. toolDefs' = ToolsWithout(U)
    BY DEF Released
  <2>2. DOMAIN ToolsWithout(U) = ToolNames /\ ToolsWithout(U) = [n \in ToolNames |-> ToolsWithout(U)[n]]
    BY DEF ToolsWithout
  <2> QED BY <2>1, <2>2, ReleasedTools
<1>4. PoolTables'
  BY <1>1, <1>2, <1>3 DEF PoolTables
<1>5. ASSUME NEW f \in Fingerprints
      PROVE  IF conns'[f] = Closed THEN Referring(f)' = {} ELSE conns'[f] = Referring(f)'
  <2>1. Referring(f)' = Referring(f) \ U
    BY <1>2 DEF Referring
  <2>2. IF conns[f] = Closed THEN Referring(f) = {} ELSE conns[f] = Referring(f)
    BY DEF PoolAgrees
  <2>3. conns[f] # Closed => conns[f] \ U # Closed
    BY PoolConstants DEF PoolTables
  <2> QED BY <1>1, <2>1, <2>2, <2>3
<1>6. \A n \in ToolNames : Loading(n)' = Loading(n) \ U
  BY <1>2 DEF Loading
<1>7. \A n \in ToolNames : \A f \in toolDefs'[n].handler : NameOf[f] = n
  BY <1>3 DEF PoolAgrees
<1>8. ASSUME NEW v \in PluginUsers PROVE userTools'[v] = {NameOf[f] : f \in userConns'[v]}
  BY <1>2 DEF PoolAgrees
<1>9. PoolAgrees'
  <2>1. ASSUME NEW n \in ToolNames
        PROVE  /\ toolDefs'[n].owners = Loading(n)'
               /\ (toolDefs'[n].owners = {}) = (toolDefs'[n].handler = {})
               /\ \A f \in toolDefs'[n].handler : NameOf[f] = n
    BY <1>3, <1>6, <1>7
  <2> QED BY <1>5, <1>8, <2>1 DEF PoolAgrees
<1> QED BY <1>4, <1>9

LEMMA PoolIs == ASSUME PoolTables', PoolAgrees', PoolRest' PROVE PoolInv'
<1>1. PoolTables' /\ PoolAgrees' /\ PoolRest' => PoolInv'
  BY PoolParts, PTL
<1> QED BY <1>1

\* A user whose file changed is released.
LEMMA SyncKeeps == ASSUME PoolInv, NEW r \in Reconcilers, NEW v \in PluginUsers, SyncUser(r, v) PROVE PoolInv'
<1> DEFINE o == recon[r]
<1>1. PoolRest /\ PoolTables /\ PoolAgrees
  BY PoolParts
<1>2. /\ ReconOK(o) /\ o \in Recon /\ DOMAIN recon = Reconcilers /\ o.pc = "users"
      /\ files \in [PluginUsers -> SUBSET Fingerprints]
      /\ UNCHANGED <<files, activeU, configEdits, connectFailures>>
  BY <1>1 DEF PoolRest, ReconOK, SyncUser
<1>3. CASE recon' = [recon EXCEPT ![r].todo = @ \ {v}] /\ UNCHANGED poolVars
  <2> DEFINE q == PutTodo(o, o.todo \ {v})
  <2>1. recon' = [recon EXCEPT ![r] = q]
    BY <1>2, <1>3 DEF PutTodo
  <2>2. o.todo \ {v} \in SUBSET PluginUsers
    BY <1>2, ReconFields
  <2>3. q \in Recon /\ q.pc = "users"
    BY <1>2, <2>2, PutsTodo
  <2> HIDE DEF q
  <2>4. PoolRest'
    BY <1>1, <1>2, <1>3, <2>1, <2>3, ReconGoes DEF PoolRest, ReconOK, poolVars
  <2> QED BY <1>1, <1>3, <2>4, QuietPool DEF poolVars, PoolTables
<1>4. CASE /\ Released({v})
           /\ userSig' = [userSig EXCEPT ![v] = Closed]
           /\ tried' = [tried EXCEPT ![v] = {}]
           /\ recon' = [recon EXCEPT ![r].pc = "read", ![r].user = v, ![r].sig = files[v]]
  <2> DEFINE a == PutPc(o, "read")
             b == PutUser(a, v)
             q == PutSig(b, files[v])
  <2>1. recon' = [recon EXCEPT ![r] = q]
    BY <1>2, <1>4 DEF PutPc, PutUser, PutSig
  <2>2. a \in Recon /\ a.pc = "read"
    BY <1>2, PutsPc
  <2> HIDE DEF a
  <2>3. b \in Recon /\ b.pc = "read" /\ b.user = v
    BY <2>2, PutsUser
  <2> HIDE DEF b
  <2>4. files[v] \in SUBSET Fingerprints
    BY <1>2
  <2>5. q \in Recon /\ q.pc = "read" /\ q.user = v
    BY <2>3, <2>4, PutsSig
  <2> HIDE DEF q
  <2>6. tried' \in [PluginUsers -> SUBSET Fingerprints]
    BY <1>1, <1>4 DEF PoolRest
  <2>7. PoolRest'
    BY <1>1, <1>2, <2>1, <2>5, <2>6, ReconGoes DEF PoolRest, ReconOK
  <2>8. userSig' \in [PluginUsers -> (SUBSET Fingerprints) \union {Closed}]
    BY <1>1, <1>4 DEF PoolTables
  <2>9. PoolTables' /\ PoolAgrees'
    BY <1>1, <1>4, <2>8, ReleasedKeeps
  <2> QED BY <2>7, <2>9, PoolIs
<1> QED BY <1>3, <1>4 DEF SyncUser

\* Idle users are released, and then what nobody uses is closed.
LEMMA IdleKeeps == ASSUME PoolInv, NEW r \in Reconcilers, ReleaseIdle(r) PROVE PoolInv'
<1> DEFINE o == recon[r]
           gone == {v \in PluginUsers : userSig[v] # Closed /\ v \notin o.active}
           q == PutPc(o, "release")
<1>1. PoolRest /\ PoolTables /\ PoolAgrees
  BY PoolParts
<1>2. o \in Recon /\ recon' = [recon EXCEPT ![r] = q]
  BY <1>1 DEF PoolRest, ReleaseIdle, PutPc
<1>3. q \in Recon /\ q.pc = "release"
  BY <1>2, PutsPc
<1> HIDE DEF q
<1>4. PoolRest'
  BY <1>1, <1>2, <1>3, ReconGoes DEF PoolRest, ReconOK, ReleaseIdle
<1>5. userSig' = [v \in PluginUsers |-> IF v \in gone THEN Closed ELSE userSig[v]] /\ Released(gone)
      /\ gone \in SUBSET PluginUsers
  BY DEF ReleaseIdle
<1> HIDE DEF gone
<1>6. userSig' \in [PluginUsers -> (SUBSET Fingerprints) \union {Closed}]
  BY <1>1, <1>5 DEF PoolTables
<1>7. PoolTables' /\ PoolAgrees'
  BY <1>1, <1>5, <1>6, ReleasedKeeps
<1> QED BY <1>4, <1>7, PoolIs

LEMMA CloseKeeps == ASSUME PoolInv, NEW r \in Reconcilers, CloseUnused(r) PROVE PoolInv'
<1>1. PoolRest /\ PoolTables /\ PoolAgrees
  BY PoolParts
<1>2. ReconOK(Resting)
  BY DEF ReconOK, Resting, Recon
<1>3. PoolRest'
  BY <1>1, <1>2, ReconGoes DEF PoolRest, CloseUnused
<1>4. /\ \A f \in Fingerprints : conns'[f] = IF conns[f] = {} THEN Closed ELSE conns[f]
      /\ conns' \in [Fingerprints -> (SUBSET PluginUsers) \union {Closed}]
      /\ UNCHANGED <<userSig, userConns, userTools, toolDefs>>
  BY <1>1 DEF CloseUnused, Unused, PoolTables
<1>5. PoolTables'
  BY <1>1, <1>4 DEF PoolTables
<1>6. \A f \in Fingerprints : IF conns'[f] = Closed THEN Referring(f)' = {} ELSE conns'[f] = Referring(f)'
  BY <1>1, <1>4 DEF PoolAgrees, Referring
<1>7. PoolAgrees'
  BY <1>1, <1>4, <1>6 DEF PoolAgrees, Loading
<1> QED BY <1>3, <1>5, <1>7, PoolIs

\* A server is connected for a user, or does not start.
LEMMA ConnectKeeps == ASSUME PoolInv, NEW r \in Reconcilers, NEW f \in Fingerprints, ConnectServer(r, f) PROVE PoolInv'
<1> DEFINE o == recon[r]
           v == o.user
           n == NameOf[f]
           q == PutLeft(o, o.left \ {f})
<1>1. PoolRest /\ PoolTables /\ PoolAgrees
  BY PoolParts
<1>2. /\ ReconOK(o) /\ o \in Recon /\ DOMAIN recon = Reconcilers /\ o.pc = "servers" /\ v \in PluginUsers
      /\ UNCHANGED <<files, activeU, userSig, configEdits>>
  BY <1>1 DEF PoolRest, ReconOK, ConnectServer
<1>3. recon' = [recon EXCEPT ![r] = q]
  BY <1>2 DEF PutLeft, ConnectServer
<1>4. q \in Recon /\ q.pc = "servers" /\ q.user = v
  <2>1. o.left \ {f} \in SUBSET Fingerprints
    BY <1>2, ReconFields
  <2> QED BY <1>2, <2>1, PutsLeft
<1> HIDE DEF q
<1>5. /\ tried' \in [PluginUsers -> SUBSET Fingerprints]
      /\ connectFailures' \in 0..MaxConnectFailures
  BY <1>1, <1>2, PoolConstants DEF PoolRest, ConnectServer
<1>6. PoolRest'
  BY <1>1, <1>2, <1>3, <1>4, <1>5, ReconGoes DEF PoolRest, ReconOK
<1>7. CASE UNCHANGED <<conns, userConns, userTools, toolDefs>>
  BY <1>1, <1>2, <1>6, <1>7, QuietPool DEF PoolTables
<1>8. CASE /\ conns' = [conns EXCEPT ![f] = (@ \ Closed) \union {v}]
           /\ userConns' = [userConns EXCEPT ![v] = @ \union {f}]
           /\ userTools' = [userTools EXCEPT ![v] = @ \union {n}]
           /\ toolDefs' = [toolDefs EXCEPT ![n] = [owners |-> @.owners \union {v}, handler |-> {f}]]
  <2> DEFINE sharing == (conns[f] \ Closed) \union {v}
             def == [owners |-> toolDefs[n].owners \union {v}, handler |-> {f}]
  <2>1. sharing = Referring(f) \union {v} /\ sharing \subseteq PluginUsers /\ sharing # Closed
    <3>1. Referring(f) \subseteq PluginUsers /\ Nobody \notin PluginUsers
      BY PoolConstants DEF Referring
    <3>2. IF conns[f] = Closed THEN Referring(f) = {} ELSE conns[f] = Referring(f)
      BY <1>1 DEF PoolAgrees
    <3>3. conns[f] \ Closed = Referring(f)
      BY <3>1, <3>2 DEF Closed
    <3> QED BY <1>2, <3>1, <3>3 DEF Closed
  <2>2. n \in ToolNames /\ toolDefs[n].owners \subseteq PluginUsers
    BY <1>1, PoolConstants DEF PoolTables
  <2>3. /\ def \in [owners: SUBSET PluginUsers, handler: SUBSET Fingerprints]
        /\ def.owners = toolDefs[n].owners \union {v} /\ def.handler = {f}
    BY <1>2, <2>2
  <2> HIDE DEF def, sharing
  <2>4. /\ \A g \in Fingerprints : conns'[g] = IF g = f THEN sharing ELSE conns[g]
        /\ conns' \in [Fingerprints -> (SUBSET PluginUsers) \union {Closed}]
    BY <1>1, <1>8, <2>1 DEF PoolTables, sharing
  <2>5. /\ \A x \in PluginUsers : userConns'[x] = IF x = v THEN userConns[x] \union {f} ELSE userConns[x]
        /\ \A x \in PluginUsers : userTools'[x] = IF x = v THEN userTools[x] \union {n} ELSE userTools[x]
        /\ userConns' \in [PluginUsers -> SUBSET Fingerprints] /\ userTools' \in [PluginUsers -> SUBSET ToolNames]
    BY <1>1, <1>8, <2>2 DEF PoolTables
  <2>6. /\ \A m \in ToolNames : toolDefs'[m] = IF m = n THEN def ELSE toolDefs[m]
        /\ toolDefs' \in [ToolNames -> [owners: SUBSET PluginUsers, handler: SUBSET Fingerprints]]
    BY <1>1, <1>8, <2>3 DEF PoolTables, def
  <2>7. PoolTables'
    BY <1>1, <1>2, <2>4, <2>5, <2>6 DEF PoolTables
  <2>8. ASSUME NEW g \in Fingerprints
        PROVE  IF conns'[g] = Closed THEN Referring(g)' = {} ELSE conns'[g] = Referring(g)'
    <3>1. Referring(g)' = IF g = f THEN Referring(g) \union {v} ELSE Referring(g)
      BY <1>2, <2>5 DEF Referring
    <3> QED BY <1>1, <2>1, <2>4, <3>1 DEF PoolAgrees
  <2>9. ASSUME NEW m \in ToolNames
        PROVE  /\ toolDefs'[m].owners = Loading(m)'
               /\ (toolDefs'[m].owners = {}) = (toolDefs'[m].handler = {})
               /\ \A g \in toolDefs'[m].handler : NameOf[g] = m
    <3>1. Loading(m)' = IF m = n THEN Loading(m) \union {v} ELSE Loading(m)
      BY <1>2, <2>5 DEF Loading
    <3>2. /\ toolDefs[m].owners = Loading(m) /\ (toolDefs[m].owners = {}) = (toolDefs[m].handler = {})
          /\ \A g \in toolDefs[m].handler : NameOf[g] = m
      BY <1>1 DEF PoolAgrees
    <3> QED BY <2>3, <2>6, <3>1, <3>2
  <2>10. ASSUME NEW x \in PluginUsers PROVE userTools'[x] = {NameOf[g] : g \in userConns'[x]}
    <3>1. userTools[x] = {NameOf[g] : g \in userConns[x]}
      BY <1>1 DEF PoolAgrees
    <3> QED BY <2>5, <3>1
  <2> QED BY <1>6, <2>7, <2>8, <2>9, <2>10, PoolIs DEF PoolAgrees
<1> QED BY <1>7, <1>8 DEF ConnectServer

LEMMA PoolStep == ASSUME PoolInv, PpNext PROVE PoolInv'
BY UsersKeep, WaitersKeep, SyncKeeps, IdleKeeps, CloseKeeps, ConnectKeeps DEF PpNext

LEMMA PoolStart == PpInit => PoolInv
<1> SUFFICES ASSUME PpInit PROVE PoolInv
  OBVIOUS
<1>1. Resting \in Recon /\ Resting.pc = "idle"
  BY DEF Resting, Recon
<1>2. PoolRest
  BY <1>1, PoolConstants DEF PoolRest, PpInit, ReconOK
<1>3. PoolTables
  BY DEF PpInit, PoolTables
<1>4. PoolAgrees
  BY DEF PpInit, PoolAgrees, Referring, Loading
<1> QED BY <1>2, <1>3, <1>4, PoolParts

\* Who owns a tool is connected to a server of its name.
LEMMA HandlersHold == ASSUME PoolInv PROVE HandlersAreLive
<1>1. PoolTables /\ PoolAgrees
  BY PoolParts
<1> SUFFICES ASSUME NEW n \in ToolNames, NEW f \in toolDefs[n].handler, conns[f] = Closed
             PROVE  \E g \in Fingerprints \ {f} : NameOf[g] = n /\ conns[g] \intersect toolDefs[n].owners # {}
  BY DEF HandlersAreLive
<1>2. toolDefs[n].owners # {} /\ toolDefs[n].owners = Loading(n)
  BY <1>1 DEF PoolAgrees
<1>3. PICK v \in PluginUsers : n \in userTools[v]
  BY <1>2 DEF Loading
<1>4. PICK g \in userConns[v] : NameOf[g] = n
  BY <1>1, <1>3 DEF PoolAgrees
<1>5. g \in Fingerprints /\ v \in Referring(g) /\ v \in toolDefs[n].owners
  BY <1>1, <1>2, <1>3, <1>4 DEF PoolTables, Referring, Loading
<1>6. conns[g] = Referring(g) /\ conns[g] # Closed
  BY <1>1, <1>5 DEF PoolAgrees
<1> QED BY <1>4, <1>5, <1>6

----------------------------------------------------------------------------
LEMMA ShellRest == ASSUME ShellInv, UNCHANGED shVars PROVE ShellInv'
BY DEF shVars, ShellInv, ShellsTypeOK, OrphansNeedARace, AloneUnlessRaced, Spawning
LEMMA LinkRest == ASSUME LinkInv, UNCHANGED mcVars PROVE LinkInv'
BY DEF mcVars, LinkInv, McpLinkTypeOK, AnswersMatchUntilTimeout, InStep
LEMMA PoolStays == ASSUME PoolInv, UNCHANGED ppVars PROVE PoolInv'
BY DEF ppVars, PoolInv, PluginPoolTypeOK, ReferencesMatch, OwnersMatch, ToolsAreConnected

\* A running shell is in the table unless it was started in a race, an answer goes to the
\* call that asked until one timed out, and the connections and tools of the plugins are
\* open and registered for exactly the users who refer to them, for any commands,
\* sessions, calls, users and servers (execute, send_jsonrpc, reconcile).
THEOREM ServicesStaySound == Spec => []ServicesAreSound
<1> DEFINE IInv == ShellInv /\ LinkInv /\ PoolInv
<1>1. Init => IInv
  BY ShellStart, LinkStart, PoolStart DEF Init
<1>2. IInv /\ [Next]_tsVars => IInv'
  <2>1. ASSUME [Next]_tsVars
        PROVE  (ShNext \/ UNCHANGED shVars) /\ (McNext \/ UNCHANGED mcVars) /\ (PpNext \/ UNCHANGED ppVars)
    BY <2>1 DEF Next, tsVars
  <2> QED BY <2>1, ShellStep, ShellRest, LinkStep, LinkRest, PoolStep, PoolStays
<1>3. IInv => ServicesAreSound
  BY HandlersHold DEF ServicesAreSound, ShellInv, LinkInv, PoolInv
<1> QED BY <1>1, <1>2, <1>3, PTL DEF Spec
----------------------------------------------------------------------------
(* The dispatcher of sub-agents.                                           *)

DispatchTables ==
    /\ srun \in [SubRuns -> [pc: {"none", "running", "stored", "cancelled"}, turns: 0..SubTurns,
                             result: {"none", "answer", "empty", "error"}]]
    /\ ranked \in Seq(SubRuns)

\* The table holds the newest results, in the order in which they were stored.
TableIsNewest ==
    /\ Len(sresults) = IF Len(ranked) <= MaxResults THEN Len(ranked) ELSE MaxResults
    /\ \A i \in 1..Len(sresults) : sresults[i] = ranked[Len(ranked) - Len(sresults) + i]

\* A task has one place: nobody asked for it before it was dispatched, and its result
\* was stored exactly when it says so.
StoredIsRanked == \A r \in SubRuns :
    /\ srun[r].pc = "none" => srun[r].result = "none" /\ waiter[r] = "none"
    /\ srun[r].pc = "stored" => srun[r].result # "none" /\ \E i \in 1..Len(ranked) : ranked[i] = r

DispatchInv ==
    /\ DispatchTypeOK /\ DispatchTables /\ TableIsNewest /\ StoredIsRanked
    /\ AnswersAreOwn /\ RunningIsActive

LEMMA DispatchConstants == MaxResults \in Nat \ {0} /\ SubTurns \in Nat \ {0}
BY DispatchAssumption

\* The first element of a sequence leaves.
LEMMA TailOfAppend ==
    ASSUME NEW S, NEW t \in Seq(S), NEW e \in S
    PROVE  /\ Append(t, e) \in Seq(S) /\ Len(Append(t, e)) = Len(t) + 1
           /\ \A i \in 1..(Len(t) + 1) : Append(t, e)[i] = IF i <= Len(t) THEN t[i] ELSE e
           /\ Tail(Append(t, e)) \in Seq(S) /\ Len(Tail(Append(t, e))) = Len(t)
           /\ \A i \in 1..Len(t) : Tail(Append(t, e))[i] = Append(t, e)[i + 1]
<1> DEFINE a == Append(t, e)
<1>1. a \in Seq(S) /\ Len(a) = Len(t) + 1 /\ Len(t) \in Nat
      /\ \A i \in 1..(Len(t) + 1) : a[i] = IF i <= Len(t) THEN t[i] ELSE e
  BY AppendProperties, LenProperties
<1>2. a # <<>>
  BY <1>1, EmptySeq
<1>3. Tail(a) \in Seq(S) /\ Len(Tail(a)) = Len(a) - 1 /\ \A i \in 1..Len(Tail(a)) : Tail(a)[i] = a[i + 1]
  BY <1>1, <1>2, HeadTailProperties
<1> QED BY <1>1, <1>3

LEMMA DispatchStarts == DispatchInit => DispatchInv
<1> SUFFICES ASSUME DispatchInit PROVE DispatchInv
  OBVIOUS
<1>1. DispatchTypeOK /\ DispatchTables
  BY DispatchConstants, EmptySeq DEF DispatchInit, DispatchTypeOK, DispatchTables
<1>2. TableIsNewest
  BY DispatchConstants, EmptySeq DEF DispatchInit, TableIsNewest
<1>3. StoredIsRanked /\ AnswersAreOwn /\ RunningIsActive
  BY DEF DispatchInit, StoredIsRanked, AnswersAreOwn, RunningIsActive
<1> QED BY <1>1, <1>2, <1>3 DEF DispatchInv

\* A result is stored: the table stays the newest, and old results keep their rank.
LEMMA ResultIsStored ==
    ASSUME DispatchInv, NEW r \in SubRuns,
           sresults' = Bounded(Append(sresults, r)), ranked' = Append(ranked, r)
    PROVE  /\ sresults' \in Seq(SubRuns) /\ Len(sresults') <= MaxResults /\ ranked' \in Seq(SubRuns)
           /\ TableIsNewest'
           /\ Len(ranked) \in Nat /\ Len(ranked') = Len(ranked) + 1 /\ ranked'[Len(ranked')] = r
           /\ \A i \in 1..Len(ranked) : ranked'[i] = ranked[i]
<1> DEFINE m == Len(sresults)
           n == Len(ranked)
<1>1. /\ sresults \in Seq(SubRuns) /\ ranked \in Seq(SubRuns) /\ m \in Nat /\ n \in Nat
      /\ MaxResults \in Nat \ {0} /\ m <= MaxResults
  BY DispatchConstants, LenProperties DEF DispatchInv, DispatchTypeOK, DispatchTables
<1>2. m = (IF n <= MaxResults THEN n ELSE MaxResults) /\ \A i \in 1..m : sresults[i] = ranked[n - m + i]
  BY DEF DispatchInv, TableIsNewest
<1>3. /\ ranked' \in Seq(SubRuns) /\ Len(ranked') = n + 1
      /\ \A i \in 1..(n + 1) : ranked'[i] = IF i <= n THEN ranked[i] ELSE r
  BY <1>1, TailOfAppend
<1>4. /\ Append(sresults, r) \in Seq(SubRuns) /\ Len(Append(sresults, r)) = m + 1
      /\ \A i \in 1..(m + 1) : Append(sresults, r)[i] = IF i <= m THEN sresults[i] ELSE r
      /\ Tail(Append(sresults, r)) \in Seq(SubRuns) /\ Len(Tail(Append(sresults, r))) = m
      /\ \A i \in 1..m : Tail(Append(sresults, r))[i] = Append(sresults, r)[i + 1]
  BY <1>1, TailOfAppend
<1> HIDE DEF m, n
<1>5. CASE m = MaxResults
  <2>1. sresults' = Tail(Append(sresults, r))
    BY <1>1, <1>4, <1>5 DEF Bounded
  <2>2. sresults' \in Seq(SubRuns) /\ Len(sresults') = m
    BY <1>4, <2>1
  <2>3. ASSUME NEW i \in 1..m PROVE sresults'[i] = ranked'[(n + 1) - m + i]
    <3>1. i + 1 \in 1..(m + 1) /\ (n + 1) - m + i \in 1..(n + 1) /\ i \in Int
      BY <1>1, <1>2, <2>3
    <3>2. sresults'[i] = IF i + 1 <= m THEN sresults[i + 1] ELSE r
      BY <1>4, <2>1, <3>1
    <3>3. ranked'[(n + 1) - m + i] = IF (n + 1) - m + i <= n THEN ranked[(n + 1) - m + i] ELSE r
      BY <1>3, <3>1
    <3>4. i + 1 <= m => sresults[i + 1] = ranked[n - m + (i + 1)]
      BY <1>1, <1>2, <3>1
    <3>6. n - m + (i + 1) = (n + 1) - m + i
      BY <1>1, <3>1
    <3>5. i + 1 <= m <=> (n + 1) - m + i <= n
      BY <1>1, <3>1
    <3> QED BY <3>2, <3>3, <3>4, <3>5, <3>6
  <2>4. m = IF n + 1 <= MaxResults THEN n + 1 ELSE MaxResults
    BY <1>1, <1>2, <1>5
  <2>5. TableIsNewest'
    BY <1>3, <2>2, <2>3, <2>4 DEF TableIsNewest
  <2> QED BY <1>1, <2>2, <2>5
<1>6. CASE m < MaxResults
  <2>1. sresults' = Append(sresults, r)
    BY <1>1, <1>4, <1>6 DEF Bounded
  <2>2. sresults' \in Seq(SubRuns) /\ Len(sresults') = m + 1 /\ m = n /\ m + 1 <= MaxResults
    BY <1>1, <1>2, <1>4, <1>6, <2>1
  <2>3. ASSUME NEW i \in 1..(m + 1) PROVE sresults'[i] = ranked'[(n + 1) - (m + 1) + i]
    <3>1. i \in 1..(n + 1) /\ (n + 1) - (m + 1) + i = i /\ n - m + i = i
      BY <1>1, <2>2, <2>3
    <3>2. sresults'[i] = IF i <= m THEN sresults[i] ELSE r
      BY <1>4, <2>1
    <3>3. ranked'[i] = IF i <= n THEN ranked[i] ELSE r
      BY <1>3, <3>1
    <3>4. i <= m => sresults[i] = ranked[n - m + i]
      BY <1>1, <1>2, <3>1
    <3> QED BY <2>2, <3>1, <3>2, <3>3, <3>4
  <2>4. m + 1 = IF n + 1 <= MaxResults THEN n + 1 ELSE MaxResults
    BY <1>1, <2>2
  <2>5. TableIsNewest'
    BY <1>3, <2>2, <2>3, <2>4 DEF TableIsNewest
  <2> QED BY <1>1, <2>2, <2>5
<1>7. Len(ranked') = Len(ranked) + 1 /\ ranked'[Len(ranked')] = r /\ \A i \in 1..Len(ranked) : ranked'[i] = ranked[i]
  BY <1>1, <1>3 DEF n
<1>8. m = MaxResults \/ m < MaxResults
  BY <1>1
<1>9. sresults' \in Seq(SubRuns) /\ Len(sresults') <= MaxResults /\ TableIsNewest'
  BY <1>5, <1>6, <1>8
<1>10. Len(ranked) \in Nat
  BY <1>1 DEF n
<1> QED BY <1>3, <1>7, <1>9, <1>10

\* Who finds no result of a stored task in the table finds newer ones there.
LEMMA TableMisses ==
    ASSUME DispatchInv, NEW r \in SubRuns, srun[r].pc = "stored", r \notin Range(sresults)
    PROVE  \E i \in 1..Len(ranked) : ranked[i] = r /\ Len(ranked) - i >= MaxResults
<1> DEFINE m == Len(sresults)
           n == Len(ranked)
<1>1. m \in Nat /\ n \in Nat /\ MaxResults \in Nat \ {0}
  BY DispatchConstants, LenProperties DEF DispatchInv, DispatchTypeOK, DispatchTables
<1>2. m = (IF n <= MaxResults THEN n ELSE MaxResults) /\ \A i \in 1..m : sresults[i] = ranked[n - m + i]
  BY DEF DispatchInv, TableIsNewest
<1>3. PICK i \in 1..n : ranked[i] = r
  BY DEF DispatchInv, StoredIsRanked
<1> HIDE DEF m, n
<1>4. i <= n - m
  <2> SUFFICES ASSUME i > n - m PROVE FALSE
    BY <1>1, <1>3
  <2>1. i - (n - m) \in 1..m /\ n - m + (i - (n - m)) = i
    BY <1>1, <1>2, <1>3
  <2>2. sresults[i - (n - m)] = r
    BY <1>2, <1>3, <2>1
  <2>3. i - (n - m) \in DOMAIN sresults
    BY <2>1, LenProperties DEF DispatchInv, DispatchTypeOK, m
  <2> QED BY <2>2, <2>3 DEF Range
<1>5. m = MaxResults /\ n - i >= MaxResults
  BY <1>1, <1>2, <1>3, <1>4
<1> QED BY <1>3, <1>5 DEF n

\* Every result in the table is that of a task that has one.
LEMMA TableHasResults ==
    ASSUME DispatchInv, NEW r \in SubRuns
    PROVE  InTable(sresults, r) \in {"nothing", srun[r].result}
BY DEF InTable

\* A step that touches no result and no table.
LEMMA DispatchKeeps ==
    ASSUME DispatchInv, UNCHANGED <<sresults, ranked>>
    PROVE  TableIsNewest' /\ ranked' \in Seq(SubRuns) /\ sresults' \in Seq(SubRuns) /\ Len(sresults') <= MaxResults
BY DEF DispatchInv, TableIsNewest, DispatchTables, DispatchTypeOK

LEMMA AsyncStep == ASSUME DispatchInv, NEW r \in SubRuns, DispatchAsync(r) PROVE DispatchInv'
<1>1. srun[r].pc = "none" /\ srun[r].result = "none" /\ waiter[r] = "none" /\ UNCHANGED <<waiter, sweeping, forgotten>>
  BY DEF DispatchAsync, DispatchInv, StoredIsRanked
<1>2. CASE srun' = [srun EXCEPT ![r].pc = "running"] /\ sactive' = sactive \union {r} /\ UNCHANGED <<sresults, ranked>>
  <2>1. TableIsNewest' /\ DispatchTables' /\ DispatchTypeOK'
    BY <1>1, <1>2, DispatchKeeps DEF DispatchInv, DispatchTables, DispatchTypeOK
  <2>2. StoredIsRanked' /\ AnswersAreOwn' /\ RunningIsActive'
    BY <1>1, <1>2 DEF DispatchInv, DispatchTables, DispatchTypeOK, StoredIsRanked, AnswersAreOwn, RunningIsActive
  <2> QED BY <2>1, <2>2 DEF DispatchInv
<1>3. CASE /\ srun' = [srun EXCEPT ![r].pc = "stored", ![r].result = "error"]
           /\ sresults' = Bounded(Append(sresults, r)) /\ ranked' = Append(ranked, r) /\ UNCHANGED sactive
  <2>1. /\ sresults' \in Seq(SubRuns) /\ Len(sresults') <= MaxResults /\ ranked' \in Seq(SubRuns)
        /\ TableIsNewest'
        /\ Len(ranked) \in Nat /\ Len(ranked') = Len(ranked) + 1 /\ ranked'[Len(ranked')] = r
        /\ \A i \in 1..Len(ranked) : ranked'[i] = ranked[i]
    BY <1>3, ResultIsStored
  <2>8. DispatchTables'
    BY ZenonT(40), <1>3, <2>1 DEF DispatchInv, DispatchTables
  <2>2. DispatchTypeOK'
    <3>1. \A q \in SubRuns : /\ srun'[q].pc \in {"none", "running", "stored", "cancelled"} /\ srun'[q].turns \in 0..SubTurns
                              /\ srun'[q].result \in {"none", "answer", "empty", "error"}
      BY <2>8 DEF DispatchTables
    <3> QED BY <1>1, <1>3, <2>1, <3>1 DEF DispatchInv, DispatchTypeOK
  <2>3. \A q \in SubRuns : q # r => srun'[q] = srun[q]
    BY <1>3 DEF DispatchInv, DispatchTables
  <2>4. srun'[r].pc = "stored" /\ srun'[r].result = "error"
    BY <1>3 DEF DispatchInv, DispatchTables
  <2>5. StoredIsRanked'
    <3> SUFFICES ASSUME NEW q \in SubRuns
                 PROVE  /\ srun'[q].pc = "none" => srun'[q].result = "none" /\ waiter'[q] = "none"
                        /\ srun'[q].pc = "stored" => srun'[q].result # "none" /\ \E i \in 1..Len(ranked') : ranked'[i] = q
      BY DEF StoredIsRanked
    <3>1. CASE q = r
      <4>1. Len(ranked') \in 1..Len(ranked')
        BY <2>1
      <4> QED BY <2>1, <2>4, <3>1, <4>1
    <3>2. CASE q # r
      <4>1. \A i \in 1..Len(ranked) : i \in 1..Len(ranked')
        BY <2>1
      <4> QED BY <1>1, <2>1, <2>3, <3>2, <4>1 DEF DispatchInv, StoredIsRanked
    <3> QED BY <3>1, <3>2
  <2>6. AnswersAreOwn'
    <3> SUFFICES ASSUME NEW q \in SubRuns
                 PROVE  /\ waiter'[q] \in {"answer", "empty", "error"} => waiter'[q] = srun'[q].result
                        /\ waiter'[q] = "nothing" =>
                            \/ srun'[q].pc = "cancelled" \/ q \in forgotten'
                            \/ \E i \in 1..Len(ranked') : ranked'[i] = q /\ Len(ranked') - i >= MaxResults
                        /\ waiter'[q] = "cancelled" => srun'[q].pc = "cancelled"
      BY DEF AnswersAreOwn
    <3>1. CASE q = r
      BY <1>1, <3>1
    <3>2. CASE q # r
      <4>1. \A i \in 1..Len(ranked) : i \in 1..Len(ranked') /\ (Len(ranked) - i >= MaxResults => Len(ranked') - i >= MaxResults)
        BY <2>1, DispatchConstants
      <4> QED BY <1>1, <2>1, <2>3, <3>2, <4>1 DEF DispatchInv, AnswersAreOwn
    <3> QED BY <3>1, <3>2
  <2>7. RunningIsActive'
    BY <1>1, <1>3, <2>3, <2>4 DEF DispatchInv, RunningIsActive
  <2> QED BY <2>1, <2>2, <2>5, <2>6, <2>7, <2>8 DEF DispatchInv
<1> QED BY <1>2, <1>3 DEF DispatchAsync

LEMMA TurnStep == ASSUME DispatchInv, NEW r \in SubRuns, Turn(r) PROVE DispatchInv'
<1>1. /\ srun[r].pc = "running" /\ srun[r].result = "none"
      /\ UNCHANGED <<sactive, sresults, waiter, sweeping, ranked, forgotten>>
  BY DEF Turn
<1>2. DispatchTables' /\ \A q \in SubRuns : srun'[q].pc = srun[q].pc /\ (q # r => srun'[q] = srun[q])
  <2>1. CASE srun[r].turns = SubTurns
    BY <1>1, <2>1 DEF Turn, DispatchInv, DispatchTables
  <2>2. CASE srun[r].turns # SubTurns
    <3>1. PICK v \in {"none", "answer", "error"} : srun' = [srun EXCEPT ![r].turns = @ + 1, ![r].result = v]
      BY <2>2 DEF Turn
    <3>2. srun[r].turns + 1 \in 0..SubTurns
      BY <2>2, DispatchConstants DEF DispatchInv, DispatchTables
    <3> QED BY <1>1, <3>1, <3>2 DEF DispatchInv, DispatchTables
  <2> QED BY <2>1, <2>2
<1>3. TableIsNewest' /\ DispatchTypeOK'
  BY <1>1, <1>2, DispatchKeeps DEF DispatchInv, DispatchTables, DispatchTypeOK
<1>4. StoredIsRanked' /\ RunningIsActive'
  BY <1>1, <1>2 DEF DispatchInv, StoredIsRanked, RunningIsActive
<1>5. AnswersAreOwn'
  BY <1>1, <1>2 DEF DispatchInv, AnswersAreOwn
<1> QED BY <1>2, <1>3, <1>4, <1>5 DEF DispatchInv

LEMMA StoreStep == ASSUME DispatchInv, NEW r \in SubRuns, StoreSub(r) PROVE DispatchInv'
<1>1. /\ srun[r].pc = "running" /\ srun[r].result # "none" /\ sactive' = sactive \ {r}
      /\ srun' = [srun EXCEPT ![r].pc = "stored"] /\ UNCHANGED <<waiter, sweeping, forgotten>>
  BY DEF StoreSub
<1>2. /\ sresults' \in Seq(SubRuns) /\ Len(sresults') <= MaxResults /\ ranked' \in Seq(SubRuns)
      /\ TableIsNewest'
      /\ Len(ranked) \in Nat /\ Len(ranked') = Len(ranked) + 1 /\ ranked'[Len(ranked')] = r
      /\ \A i \in 1..Len(ranked) : ranked'[i] = ranked[i]
  BY ResultIsStored DEF StoreSub
<1>3. DispatchTables' /\ DispatchTypeOK'
  BY <1>1, <1>2 DEF DispatchInv, DispatchTables, DispatchTypeOK
<1>4. /\ \A q \in SubRuns : q # r => srun'[q] = srun[q]
      /\ srun'[r].pc = "stored" /\ srun'[r].result = srun[r].result
  BY <1>1 DEF DispatchInv, DispatchTables
<1>5. \A i \in 1..Len(ranked) : i \in 1..Len(ranked') /\ (Len(ranked) - i >= MaxResults => Len(ranked') - i >= MaxResults)
  BY <1>2, DispatchConstants
<1>6. Len(ranked') \in 1..Len(ranked')
  BY <1>2
<1>7. StoredIsRanked'
  BY <1>1, <1>2, <1>4, <1>5, <1>6 DEF DispatchInv, StoredIsRanked
<1>8. AnswersAreOwn'
  BY <1>1, <1>2, <1>4, <1>5 DEF DispatchInv, AnswersAreOwn
<1>9. RunningIsActive'
  BY <1>1, <1>4 DEF DispatchInv, RunningIsActive
<1> QED BY <1>2, <1>3, <1>7, <1>8, <1>9 DEF DispatchInv

\* What a caller is told of a task that is over, or that runs unseen, is excused or its own.
LEMMA TableTells ==
    ASSUME DispatchInv, NEW r \in SubRuns, srun[r].pc # "none", srun[r].pc = "running" => r \in forgotten
    PROVE  /\ InTable(sresults, r) \in {"nothing", srun[r].result}
           /\ InTable(sresults, r) = "nothing" =>
                \/ srun[r].pc = "cancelled" \/ r \in forgotten
                \/ \E i \in 1..Len(ranked) : ranked[i] = r /\ Len(ranked) - i >= MaxResults
<1>1. srun[r].result # "nothing" /\ srun[r].pc \in {"running", "stored", "cancelled"}
  BY DEF DispatchInv, DispatchTables
<1>2. ASSUME InTable(sresults, r) = "nothing" PROVE r \notin Range(sresults)
  BY <1>1, <1>2 DEF InTable
<1> QED BY <1>1, <1>2, TableMisses DEF InTable

\* The caller of r is told v, and nothing else happens.
LEMMA CallerIsTold ==
    ASSUME DispatchInv, NEW r \in SubRuns,
           NEW v \in {"waiting", "cancelled", "nothing", "none", "answer", "empty", "error"},
           waiter' = [waiter EXCEPT ![r] = v], srun[r].pc # "none",
           UNCHANGED <<srun, sactive, sresults, sweeping, ranked, forgotten>>,
           v \in {"answer", "empty", "error"} => v = srun[r].result,
           v = "nothing" => \/ srun[r].pc = "cancelled" \/ r \in forgotten
                            \/ \E i \in 1..Len(ranked) : ranked[i] = r /\ Len(ranked) - i >= MaxResults,
           v = "cancelled" => srun[r].pc = "cancelled"
    PROVE  DispatchInv'
<1>1. TableIsNewest' /\ DispatchTables' /\ RunningIsActive'
  BY DEF DispatchInv, TableIsNewest, DispatchTables, RunningIsActive
<1>2. DispatchTypeOK'
  BY DEF DispatchInv, DispatchTypeOK
<1>3. \A q \in SubRuns : waiter'[q] = IF q = r THEN v ELSE waiter[q]
  BY DEF DispatchInv, DispatchTypeOK
<1>4. StoredIsRanked' /\ AnswersAreOwn'
  BY <1>3 DEF DispatchInv, StoredIsRanked, AnswersAreOwn
<1> QED BY <1>1, <1>2, <1>4 DEF DispatchInv

LEMMA GetStep == ASSUME DispatchInv, NEW r \in SubRuns, GetResult(r) PROVE DispatchInv'
<1> DEFINE v == IF r \in Range(sresults) \/ r \notin sactive THEN InTable(sresults, r) ELSE "waiting"
<1>1. /\ srun[r].pc # "none" /\ waiter' = [waiter EXCEPT ![r] = v]
      /\ UNCHANGED <<srun, sactive, sresults, sweeping, ranked, forgotten>>
  BY DEF GetResult
<1>2. srun[r].result \in {"none", "answer", "empty", "error"}
  BY DEF DispatchInv, DispatchTables
<1>3. CASE r \in Range(sresults)
  <2>1. v = srun[r].result
    BY <1>3 DEF InTable
  <2> HIDE DEF v
  <2> QED BY <1>1, <1>2, <2>1, CallerIsTold
<1>4. CASE r \notin Range(sresults) /\ r \notin sactive
  <2>1. srun[r].pc = "running" => r \in forgotten
    BY <1>4 DEF DispatchInv, RunningIsActive
  <2>2. v = InTable(sresults, r) /\ v = "nothing"
    BY <1>4 DEF InTable
  <2> HIDE DEF v
  <2> QED BY <1>1, <2>1, <2>2, TableTells, CallerIsTold
<1>5. CASE r \notin Range(sresults) /\ r \in sactive
  <2>1. v = "waiting"
    BY <1>5
  <2> HIDE DEF v
  <2> QED BY <1>1, <2>1, CallerIsTold
<1> QED BY <1>3, <1>4, <1>5

LEMMA WakesStep == ASSUME DispatchInv, NEW r \in SubRuns, WaiterWakes(r) PROVE DispatchInv'
<1> DEFINE v == IF srun[r].pc = "cancelled" THEN "cancelled" ELSE InTable(sresults, r)
<1>1. /\ srun[r].pc \in {"stored", "cancelled"} /\ waiter' = [waiter EXCEPT ![r] = v]
      /\ UNCHANGED <<srun, sactive, sresults, sweeping, ranked, forgotten>>
  BY DEF WaiterWakes
<1>2. srun[r].result \in {"none", "answer", "empty", "error"}
  BY DEF DispatchInv, DispatchTables
<1>3. CASE srun[r].pc = "cancelled"
  <2>1. v = "cancelled"
    BY <1>3
  <2> HIDE DEF v
  <2> QED BY <1>1, <1>3, <2>1, CallerIsTold
<1>4. CASE srun[r].pc = "stored"
  <2>1. v = InTable(sresults, r)
    BY <1>4
  <2>2. /\ v \in {"nothing", srun[r].result}
        /\ v = "nothing" => \/ srun[r].pc = "cancelled" \/ r \in forgotten
                            \/ \E i \in 1..Len(ranked) : ranked[i] = r /\ Len(ranked) - i >= MaxResults
    BY <1>4, <2>1, TableTells
  <2> HIDE DEF v
  <2>3. v \in {"answer", "empty", "error"} => v = srun[r].result
    BY <2>2
  <2>4. v \in {"waiting", "cancelled", "nothing", "none", "answer", "empty", "error"} /\ v # "cancelled"
    BY <1>2, <2>2
  <2> QED BY <1>1, <2>2, <2>3, <2>4, CallerIsTold
<1> QED BY <1>1, <1>3, <1>4

LEMMA CancelAllStep == ASSUME DispatchInv, CancelAll PROVE DispatchInv'
<1>1. sweeping' = sactive /\ UNCHANGED <<srun, sactive, sresults, waiter, ranked, forgotten>>
  BY DEF CancelAll
<1>2. TableIsNewest' /\ DispatchTables' /\ RunningIsActive' /\ StoredIsRanked' /\ AnswersAreOwn'
  BY <1>1 DEF DispatchInv, TableIsNewest, DispatchTables, RunningIsActive, StoredIsRanked, AnswersAreOwn
<1>3. DispatchTypeOK'
  BY <1>1 DEF DispatchInv, DispatchTypeOK
<1> QED BY <1>2, <1>3 DEF DispatchInv

LEMMA CancelledStep == ASSUME DispatchInv, NEW r \in SubRuns, Cancelled(r) PROVE DispatchInv'
<1>1. /\ srun[r].pc = "running" /\ srun' = [srun EXCEPT ![r].pc = "cancelled"]
      /\ UNCHANGED <<sactive, sresults, waiter, sweeping, ranked, forgotten>>
  BY DEF Cancelled
<1>2. DispatchTables' /\ \A q \in SubRuns : /\ srun'[q].result = srun[q].result /\ q # r => srun'[q] = srun[q]
  BY <1>1 DEF DispatchInv, DispatchTables
<1>3. srun'[r].pc = "cancelled"
  BY <1>1 DEF DispatchInv, DispatchTables
<1>4. TableIsNewest' /\ DispatchTypeOK'
  BY <1>1, <1>2, DispatchKeeps DEF DispatchInv, DispatchTables, DispatchTypeOK
<1>5. StoredIsRanked' /\ RunningIsActive'
  BY <1>1, <1>2, <1>3 DEF DispatchInv, StoredIsRanked, RunningIsActive
<1>6. AnswersAreOwn'
  BY <1>1, <1>2, <1>3 DEF DispatchInv, AnswersAreOwn
<1> QED BY <1>2, <1>4, <1>5, <1>6 DEF DispatchInv

LEMMA LeavesStep == ASSUME DispatchInv, NEW r \in SubRuns, CallerLeaves(r) PROVE DispatchInv'
<1>1. /\ srun[r].pc = "running" /\ srun' = [srun EXCEPT ![r].pc = "cancelled"] /\ waiter' = [waiter EXCEPT ![r] = "none"]
      /\ UNCHANGED <<sactive, sresults, sweeping, ranked, forgotten>>
  BY DEF CallerLeaves
<1>2. DispatchTables' /\ \A q \in SubRuns : /\ srun'[q].result = srun[q].result /\ q # r => srun'[q] = srun[q]
  BY <1>1 DEF DispatchInv, DispatchTables
<1>3. srun'[r].pc = "cancelled"
  BY <1>1 DEF DispatchInv, DispatchTables
<1>7. /\ waiter' \in [SubRuns -> {"none", "waiting", "cancelled", "nothing", "answer", "empty", "error"}]
      /\ \A q \in SubRuns : waiter'[q] = IF q = r THEN "none" ELSE waiter[q]
  BY <1>1 DEF DispatchInv, DispatchTypeOK
<1>4. TableIsNewest' /\ DispatchTypeOK'
  BY <1>1, <1>2, <1>7, DispatchKeeps DEF DispatchInv, DispatchTables, DispatchTypeOK
<1>5. StoredIsRanked' /\ RunningIsActive'
  BY <1>1, <1>2, <1>3 DEF DispatchInv, StoredIsRanked, RunningIsActive
<1>6. AnswersAreOwn'
  BY <1>1, <1>2, <1>3, <1>7 DEF DispatchInv, AnswersAreOwn
<1> QED BY <1>2, <1>4, <1>5, <1>6 DEF DispatchInv

LEMMA SweepStep == ASSUME DispatchInv, SweepDone PROVE DispatchInv'
<1>1. /\ forgotten' = forgotten \union {r \in sactive : srun[r].pc = "running"}
      /\ sweeping' = {} /\ sactive' = {} /\ UNCHANGED <<srun, sresults, waiter, ranked>>
  BY DEF SweepDone
<1>2. TableIsNewest' /\ DispatchTables' /\ RunningIsActive' /\ StoredIsRanked' /\ AnswersAreOwn'
  BY SMTT(40), <1>1 DEF DispatchInv, TableIsNewest, DispatchTables, RunningIsActive, StoredIsRanked, AnswersAreOwn
<1>3. DispatchTypeOK'
  BY <1>1 DEF DispatchInv, DispatchTypeOK
<1> QED BY <1>2, <1>3 DEF DispatchInv

LEMMA DispatchStep == ASSUME DispatchInv, DispatchNext PROVE DispatchInv'
BY AsyncStep, TurnStep, StoreStep, GetStep, WakesStep, LeavesStep, CancelledStep, CancelAllStep, SweepStep DEF DispatchNext

LEMMA DispatchStays == ASSUME DispatchInv, UNCHANGED dpVars PROVE DispatchInv'
<1>1. UNCHANGED <<srun, sactive, sresults, waiter, sweeping, ranked, forgotten>>
  BY DEF dpVars
<1>2. TableIsNewest' /\ DispatchTables' /\ RunningIsActive' /\ StoredIsRanked' /\ AnswersAreOwn'
  BY <1>1 DEF DispatchInv, TableIsNewest, DispatchTables, RunningIsActive, StoredIsRanked, AnswersAreOwn
<1>3. DispatchTypeOK'
  BY <1>1 DEF DispatchInv, DispatchTypeOK
<1> QED BY <1>2, <1>3 DEF DispatchInv

----------------------------------------------------------------------------
(* Workflow instances and traced runs.                                     *)

\* The status of an instance is decided by its last node; a row that has an outcome
\* was written after that.
RowsFollow == \A i \in Instances :
    /\ wfTask[i].pc \in {"none", "ready", "running"} => wfTask[i].status = "running"
    /\ wfTask[i].pc = "ended" => wfTask[i].status \in Final
    /\ wfRow[i] \in Final => wfTask[i].pc = "stored" /\ OutcomeOf(i, wfRow[i])

InstanceInv ==
    /\ graphRow \in BOOLEAN /\ excused \subseteq Instances /\ wfCrashes \in 0..WfCrashes
    /\ wfTask \in [Instances -> [pc: {"none", "ready", "running", "ended", "stored", "lost"},
                                 left: 0..GraphSize, status: {"running"} \union Final, late: BOOLEAN]]
    /\ wfRow \in [Instances -> {"none", "running"} \union Final]
    /\ told \in [Instances -> {"none", "running"} \union Final]
    /\ wfTable \in Seq(Instances) /\ Len(wfTable) <= MaxInstances
    /\ RowsFollow /\ OutcomesAreTrue

EditSessions == [id: WfEditors, tenant: WfTenants, node: 1..GraphSize, live: BOOLEAN]

TracedTables ==
    /\ traced \in [WfTenants -> [done: 0..GraphSize, started: BOOLEAN, results: Seq({"completed", "error"}),
                                 applied: SUBSET (WfEditors \X (1..GraphSize) \X WfTenants)]]
    /\ edits \in Seq(EditSessions)
    /\ \A t \in WfTenants : /\ traced[t].started => traced[t].done < GraphSize
                            /\ Len(traced[t].results) = traced[t].done

\* A session is in the list once, or applied once, or gone.
SessionsAreOne ==
    /\ \A k, l \in 1..Len(edits) : edits[k].id = edits[l].id => k = l
    /\ \A t \in WfTenants : \A a \in traced[t].applied :
        /\ a[3] = t
        /\ \A b \in traced[t].applied : a[1] = b[1] => a = b
        /\ \A k \in 1..Len(edits) : edits[k].id # a[1]

TracedInv == TracedTables /\ SessionsAreOne

LEMMA WorkflowConstants ==
    MaxInstances \in Nat \ {0} /\ GraphSize \in Nat \ {0} /\ WfCrashes \in Nat
BY WorkflowAssumption

LEMMA InstancesStart == WfInit => InstanceInv
<1> SUFFICES ASSUME WfInit PROVE InstanceInv
  OBVIOUS
<1>1. wfTable \in Seq(Instances) /\ Len(wfTable) = 0 /\ \A i \in Instances : i \notin Range(wfTable)
  BY EmptySeq, LenProperties DEF WfInit, Range
<1>2. RowsFollow
  BY DEF WfInit, RowsFollow, Final
<1>3. OutcomesAreTrue
  BY <1>1 DEF WfInit, OutcomesAreTrue, OutcomeOf, Status, Final
<1>4. /\ graphRow \in BOOLEAN /\ excused \subseteq Instances /\ wfCrashes \in 0..WfCrashes
      /\ wfRow \in [Instances -> {"none", "running"} \union Final]
      /\ told \in [Instances -> {"none", "running"} \union Final]
  <2>1. graphRow \in BOOLEAN /\ excused \subseteq Instances
    BY DEF WfInit
  <2>2. wfCrashes = 0 /\ 0 \in 0..WfCrashes
    BY WorkflowConstants DEF WfInit
  <2>3. wfRow \in [Instances -> {"none", "running"} \union Final]
    BY DEF WfInit
  <2>4. told \in [Instances -> {"none", "running"} \union Final]
    BY DEF WfInit
  <2> QED BY <2>1, <2>2, <2>3, <2>4
<1>6. wfTask \in [Instances -> [pc: {"none", "ready", "running", "ended", "stored", "lost"},
                               left: 0..GraphSize, status: {"running"} \union Final, late: BOOLEAN]]
  <2>1. 0 \in 0..GraphSize
    BY WorkflowConstants
  <2> QED BY <2>1 DEF WfInit
<1>5. Len(wfTable) <= MaxInstances
  BY <1>1, WorkflowConstants
<1> QED BY <1>1, <1>2, <1>3, <1>4, <1>5, <1>6 DEF InstanceInv

\* A step that leaves told and the statuses that are final alone.
LEMMA OutcomesKept ==
    ASSUME InstanceInv, UNCHANGED told, RowsFollow',
           \A i \in Instances : wfTask[i].status \in Final =>
                wfTask'[i].status = wfTask[i].status /\ wfTask'[i].late = wfTask[i].late
    PROVE  OutcomesAreTrue'
<1>1. ASSUME NEW i \in Instances PROVE Status(i)' \in Final => OutcomeOf(i, Status(i))'
  BY DEF RowsFollow, Status, OutcomeOf
<1>2. ASSUME NEW i \in Instances, told[i] \in Final PROVE OutcomeOf(i, told[i])'
  BY <1>2 DEF InstanceInv, OutcomesAreTrue, OutcomeOf
<1> QED BY <1>1, <1>2 DEF OutcomesAreTrue

LEMMA ExecuteStep == ASSUME InstanceInv, NEW i \in Instances, ExecuteGraph(i) PROVE InstanceInv'
<1>1. /\ wfTask[i].pc = "none" /\ UNCHANGED <<graphRow, wfTable, told, wfCrashes>>
      /\ excused' \subseteq Instances
  BY DEF ExecuteGraph, InstanceInv
<1>2. PICK size \in 0..GraphSize : wfTask' = [wfTask EXCEPT ![i].pc = "ready", ![i].left = size]
  <2>1. GraphSize \in 0..GraphSize /\ {0, 1} \subseteq 0..GraphSize
    BY WorkflowConstants
  <2>2. PICK size \in (IF graphRow THEN {GraphSize} ELSE {0, 1}) :
            wfTask' = [wfTask EXCEPT ![i].pc = "ready", ![i].left = size]
    BY DEF ExecuteGraph
  <2> QED BY <2>1, <2>2
<1>3. wfRow' = [wfRow EXCEPT ![i] = "running"] \/ wfRow' = wfRow
  BY DEF ExecuteGraph
<1>4. /\ wfTask' \in [Instances -> [pc: {"none", "ready", "running", "ended", "stored", "lost"},
                                    left: 0..GraphSize, status: {"running"} \union Final, late: BOOLEAN]]
      /\ \A k \in Instances : /\ k # i => wfTask'[k] = wfTask[k]
                              /\ wfTask'[k].status = wfTask[k].status /\ wfTask'[k].late = wfTask[k].late
      /\ wfTask'[i].pc = "ready"
  BY <1>2 DEF InstanceInv
<1>5. /\ wfRow' \in [Instances -> {"none", "running"} \union Final]
      /\ \A k \in Instances : wfRow'[k] = wfRow[k] \/ wfRow'[k] = "running"
  BY <1>3 DEF InstanceInv
<1>6. RowsFollow'
  <2>1. wfRow[i] \notin Final /\ wfTask[i].status = "running"
    BY <1>1 DEF InstanceInv, RowsFollow
  <2>2. \A k \in Instances : wfRow'[k] \in Final => wfRow'[k] = wfRow[k]
    BY <1>5 DEF Final
  <2> SUFFICES ASSUME NEW k \in Instances
               PROVE  /\ wfTask'[k].pc \in {"none", "ready", "running"} => wfTask'[k].status = "running"
                      /\ wfTask'[k].pc = "ended" => wfTask'[k].status \in Final
                      /\ wfRow'[k] \in Final => wfTask'[k].pc = "stored" /\ OutcomeOf(k, wfRow[k])'
    BY DEF RowsFollow
  <2>3. CASE k = i
    BY <1>4, <2>1, <2>2, <2>3
  <2>4. CASE k # i
    BY <1>4, <2>2, <2>4 DEF InstanceInv, RowsFollow, OutcomeOf
  <2> QED BY <2>3, <2>4
<1>7. OutcomesAreTrue'
  BY <1>1, <1>4, <1>6, OutcomesKept
<1> QED BY <1>1, <1>4, <1>5, <1>6, <1>7 DEF InstanceInv

LEMMA InstanceStarts == ASSUME InstanceInv, NEW i \in Instances, StartInstance(i) PROVE InstanceInv'
<1>1. /\ wfTask[i].pc = "ready" /\ wfTask' = [wfTask EXCEPT ![i].pc = "running"]
      /\ UNCHANGED <<graphRow, wfRow, told, excused, wfCrashes>>
  BY DEF StartInstance
<1>2. wfTable' \in Seq(Instances) /\ Len(wfTable') <= MaxInstances
  <2>1. wfTable \in Seq(Instances) /\ Len(wfTable) <= MaxInstances /\ Len(wfTable) \in Nat
    BY LenProperties DEF InstanceInv
  <2>2. /\ Append(wfTable, i) \in Seq(Instances) /\ Len(Append(wfTable, i)) = Len(wfTable) + 1
        /\ Tail(Append(wfTable, i)) \in Seq(Instances) /\ Len(Tail(Append(wfTable, i))) = Len(wfTable)
    BY <2>1, TailOfAppend
  <2>3. wfTable' = IF Len(Append(wfTable, i)) > MaxInstances THEN Tail(Append(wfTable, i)) ELSE Append(wfTable, i)
    BY DEF StartInstance, Inserted
  <2> QED BY <2>1, <2>2, <2>3, WorkflowConstants
<1>3. /\ wfTask' \in [Instances -> [pc: {"none", "ready", "running", "ended", "stored", "lost"},
                                    left: 0..GraphSize, status: {"running"} \union Final, late: BOOLEAN]]
      /\ \A k \in Instances : /\ k # i => wfTask'[k] = wfTask[k]
                              /\ wfTask'[k].status = wfTask[k].status /\ wfTask'[k].late = wfTask[k].late
      /\ wfTask'[i].pc = "running"
  BY <1>1 DEF InstanceInv
<1>4. RowsFollow'
  BY <1>1, <1>3 DEF InstanceInv, RowsFollow, OutcomeOf
<1>5. OutcomesAreTrue'
  BY <1>1, <1>3, <1>4, OutcomesKept
<1> QED BY <1>1, <1>2, <1>3, <1>4, <1>5 DEF InstanceInv

LEMMA NodeStep == ASSUME InstanceInv, NEW i \in Instances, RunNode(i) PROVE InstanceInv'
<1>1. wfTask[i].pc = "running" /\ UNCHANGED <<graphRow, wfTable, wfRow, told, excused, wfCrashes>>
  BY DEF RunNode
<1>2. wfTask[i].status = "running" /\ wfRow[i] \notin Final
  BY <1>1 DEF InstanceInv, RowsFollow
<1>3. /\ wfTask' \in [Instances -> [pc: {"none", "ready", "running", "ended", "stored", "lost"},
                                    left: 0..GraphSize, status: {"running"} \union Final, late: BOOLEAN]]
      /\ \A k \in Instances : k # i => wfTask'[k] = wfTask[k]
      /\ \/ wfTask'[i].pc = "running" /\ wfTask'[i].status = "running"
         \/ wfTask'[i].pc = "ended" /\ wfTask'[i].status \in Final
  <2>1. CASE wfTask[i].left > 0 /\ wfTask' = [wfTask EXCEPT ![i].left = @ - 1]
    <3>1. wfTask[i].left - 1 \in 0..GraphSize
      BY <2>1, WorkflowConstants DEF InstanceInv
    <3> QED BY <1>1, <1>2, <2>1, <3>1 DEF InstanceInv
  <2>2. CASE \E late \in BOOLEAN : wfTask' = [wfTask EXCEPT ![i].pc = "ended", ![i].late = late,
                                     ![i].status = IF wfTask[i].left = 0 THEN "completed" ELSE "error"]
    <3> DEFINE v == IF wfTask[i].left = 0 THEN "completed" ELSE "error"
    <3>2. v \in Final
      BY DEF Final
    <3> HIDE DEF v
    <3>1. PICK late \in BOOLEAN : wfTask' = [wfTask EXCEPT ![i].pc = "ended", ![i].late = late, ![i].status = v]
      BY <2>2 DEF v
    <3> QED BY <3>1, <3>2 DEF InstanceInv
  <2> QED BY <2>1, <2>2 DEF RunNode
<1>4. RowsFollow'
  BY <1>1, <1>2, <1>3 DEF InstanceInv, RowsFollow, OutcomeOf
<1>5. "running" \notin Final
  BY DEF Final
<1>6. OutcomesAreTrue'
  BY <1>1, <1>2, <1>3, <1>4, <1>5, OutcomesKept
<1> QED BY <1>1, <1>3, <1>4, <1>6 DEF InstanceInv

LEMMA ResultStep == ASSUME InstanceInv, NEW i \in Instances, StoreResult(i) PROVE InstanceInv'
<1>1. /\ wfTask[i].pc = "ended" /\ wfTask' = [wfTask EXCEPT ![i].pc = "stored"]
      /\ UNCHANGED <<graphRow, wfTable, told, wfCrashes>> /\ excused' \subseteq Instances
  BY DEF StoreResult, InstanceInv
<1>2. /\ wfTask' \in [Instances -> [pc: {"none", "ready", "running", "ended", "stored", "lost"},
                                    left: 0..GraphSize, status: {"running"} \union Final, late: BOOLEAN]]
      /\ \A k \in Instances : /\ k # i => wfTask'[k] = wfTask[k]
                              /\ wfTask'[k].status = wfTask[k].status /\ wfTask'[k].late = wfTask[k].late
      /\ wfTask'[i].pc = "stored"
  BY <1>1 DEF InstanceInv
<1>3. OutcomeOf(i, StoredStatus(i)) /\ StoredStatus(i) \in Final /\ wfRow[i] \notin Final
  <2>1. wfTask[i].status \in Final /\ wfRow[i] \notin Final
    BY <1>1 DEF InstanceInv, RowsFollow
  <2> QED BY <2>1 DEF StoredStatus, OutcomeOf, Final
<1>4. wfRow' = [wfRow EXCEPT ![i] = StoredStatus(i)] \/ wfRow' = wfRow
  <2>1. wfRow' = [wfRow EXCEPT ![i] = IF wfRow[i] = "none" THEN wfRow[i] ELSE StoredStatus(i)] \/ wfRow' = wfRow
    BY DEF StoreResult
  <2> QED BY <1>3, <2>1 DEF InstanceInv
<1>5. /\ wfRow' \in [Instances -> {"none", "running"} \union Final]
      /\ \A k \in Instances : wfRow'[k] = wfRow[k] \/ (k = i /\ wfRow'[k] = StoredStatus(i))
  BY <1>3, <1>4 DEF InstanceInv
<1>8. \A k \in Instances : \A v : OutcomeOf(k, v) => OutcomeOf(k, v)'
  BY <1>2 DEF OutcomeOf
<1>6. RowsFollow'
  BY <1>1, <1>2, <1>3, <1>5, <1>8 DEF InstanceInv, RowsFollow
<1>7. OutcomesAreTrue'
  BY <1>1, <1>2, <1>6, OutcomesKept
<1> QED BY <1>1, <1>2, <1>5, <1>6, <1>7 DEF InstanceInv

LEMMA RestartStep == ASSUME InstanceInv, Restarts PROVE InstanceInv'
<1> DEFINE cut == {i \in Instances : wfTask[i].pc \in {"ready", "running", "ended"}}
<1>1. /\ wfCrashes < WfCrashes /\ wfCrashes' = wfCrashes + 1
      /\ wfTask' = [i \in Instances |-> IF i \in cut THEN [wfTask[i] EXCEPT !.pc = "lost"] ELSE wfTask[i]]
      /\ excused' = excused \union cut /\ wfTable' = <<>> /\ UNCHANGED <<graphRow, wfRow, told>>
  BY DEF Restarts
<1>2. wfCrashes' \in 0..WfCrashes /\ excused' \subseteq Instances
  BY <1>1, WorkflowConstants DEF InstanceInv
<1>3. wfTable' \in Seq(Instances) /\ Len(wfTable') <= MaxInstances
  BY <1>1, EmptySeq, WorkflowConstants
<1>4. /\ wfTask' \in [Instances -> [pc: {"none", "ready", "running", "ended", "stored", "lost"},
                                    left: 0..GraphSize, status: {"running"} \union Final, late: BOOLEAN]]
      /\ \A i \in Instances : /\ wfTask'[i].status = wfTask[i].status /\ wfTask'[i].late = wfTask[i].late
                              /\ wfTask'[i].pc = (IF i \in cut THEN "lost" ELSE wfTask[i].pc)
  BY <1>1 DEF InstanceInv
<1>5. RowsFollow'
  BY <1>1, <1>4 DEF InstanceInv, RowsFollow, OutcomeOf
<1>6. OutcomesAreTrue'
  BY <1>1, <1>4, <1>5, OutcomesKept
<1> QED BY <1>1, <1>2, <1>3, <1>4, <1>5, <1>6 DEF InstanceInv

LEMMA PollStep == ASSUME InstanceInv, NEW i \in Instances, Poll(i) PROVE InstanceInv'
<1>1. /\ told' = [told EXCEPT ![i] = Status(i)]
      /\ UNCHANGED <<graphRow, wfTask, wfTable, wfRow, excused, wfCrashes>>
  BY DEF Poll
<1>2. Status(i) \in {"none", "running"} \union Final
  BY DEF Status, InstanceInv
<1>3. told' \in [Instances -> {"none", "running"} \union Final]
  BY <1>1, <1>2 DEF InstanceInv
<1>4. RowsFollow'
  BY <1>1 DEF InstanceInv, RowsFollow, OutcomeOf
<1>5. \A k \in Instances : Status(k)' = Status(k)
  BY <1>1 DEF Status
<1>6. OutcomesAreTrue'
  BY <1>1, <1>5 DEF InstanceInv, OutcomesAreTrue, OutcomeOf
<1> QED BY <1>1, <1>3, <1>4, <1>6 DEF InstanceInv

LEMMA InstancesStay == ASSUME InstanceInv, UNCHANGED <<wfTask, wfTable, wfRow, told, excused, wfCrashes>>,
                              graphRow' \in BOOLEAN
                       PROVE  InstanceInv'
<1>1. RowsFollow'
  BY DEF InstanceInv, RowsFollow, OutcomeOf
<1>2. \A k \in Instances : Status(k)' = Status(k)
  BY DEF Status
<1>3. OutcomesAreTrue'
  BY <1>2 DEF InstanceInv, OutcomesAreTrue, OutcomeOf
<1> QED BY <1>1, <1>3 DEF InstanceInv

LEMMA InstanceStep == ASSUME InstanceInv, InstanceNext PROVE InstanceInv' /\ UNCHANGED <<traced, edits>>
<1>1. CASE SaveGraph
  BY <1>1, InstancesStay DEF SaveGraph, InstanceInv
<1>2. CASE Restarts
  BY <1>2, RestartStep DEF Restarts
<1>3. ASSUME NEW i \in Instances, ExecuteGraph(i) \/ StartInstance(i) \/ RunNode(i) \/ StoreResult(i) \/ Poll(i)
      PROVE  InstanceInv' /\ UNCHANGED <<traced, edits>>
  <2>1. UNCHANGED <<traced, edits>>
    BY <1>3 DEF ExecuteGraph, StartInstance, RunNode, StoreResult, Poll
  <2> QED BY <1>3, <2>1, ExecuteStep, InstanceStarts, NodeStep, ResultStep, PollStep
<1> QED BY <1>1, <1>2, <1>3 DEF InstanceNext

LEMMA TracedStarts == WfInit => TracedInv
<1> SUFFICES ASSUME WfInit PROVE TracedInv
  OBVIOUS
<1>1. /\ traced = [t \in WfTenants |-> [done |-> 0, started |-> FALSE, results |-> <<>>, applied |-> {}]]
      /\ edits = <<>>
  BY DEF WfInit
<1>2. <<>> \in Seq({"completed", "error"}) /\ edits \in Seq(EditSessions) /\ Len(edits) = 0 /\ Len(<<>>) = 0
  BY <1>1, EmptySeq
<1>3. 0 \in 0..GraphSize
  BY WorkflowConstants
<1>4. TracedTables
  BY <1>1, <1>2, <1>3 DEF TracedTables
<1>5. SessionsAreOne
  BY <1>1, <1>2 DEF SessionsAreOne
<1> QED BY <1>4, <1>5 DEF TracedInv

LEMMA EditsAre ==
    ASSUME TracedInv
    PROVE  /\ Len(edits) \in Nat
           /\ \A k \in 1..Len(edits) : /\ edits[k] \in EditSessions /\ edits[k].id \in WfEditors
                                       /\ edits[k].tenant \in WfTenants /\ edits[k].node \in 1..GraphSize
<1>1. edits \in Seq(EditSessions)
  BY DEF TracedInv, TracedTables
<1>2. Len(edits) \in Nat /\ \A k \in 1..Len(edits) : edits[k] \in EditSessions
  BY <1>1, LenProperties, ElementOfSeq
<1> QED BY <1>2 DEF EditSessions

LEMMA CreateStep == ASSUME TracedInv, NEW t \in WfTenants, CreateEdit(t) PROVE TracedInv'
<1> DEFINE m == Len(edits)
<1>1. PICK id \in WfEditors, n \in 1..GraphSize :
        /\ \A u \in WfTenants : id \notin {a[1] : a \in traced[u].applied}
        /\ \A k \in 1..m : edits[k].id # id
        /\ edits' = Append(edits, [id |-> id, tenant |-> t, node |-> n, live |-> TRUE])
  BY DEF CreateEdit
<1>2. traced' = traced
  BY DEF CreateEdit
<1>3. [id |-> id, tenant |-> t, node |-> n, live |-> TRUE] \in EditSessions
  BY DEF EditSessions
<1>4. /\ edits' \in Seq(EditSessions) /\ Len(edits') = m + 1 /\ m \in Nat
      /\ \A k \in 1..(m + 1) : edits'[k] = IF k <= m THEN edits[k] ELSE [id |-> id, tenant |-> t, node |-> n, live |-> TRUE]
  BY <1>1, <1>3, TailOfAppend, EditsAre DEF TracedInv, TracedTables
<1>5. TracedTables'
  BY <1>2, <1>4 DEF TracedInv, TracedTables
<1> HIDE DEF m
<1>6. \A k \in 1..(m + 1) : \/ k \in 1..m /\ edits'[k].id = edits[k].id
                            \/ k = m + 1 /\ edits'[k].id = id
  BY <1>4
<1>7. ASSUME NEW k \in 1..(m + 1), NEW l \in 1..(m + 1), edits'[k].id = edits'[l].id PROVE k = l
  <2>1. \A i, j \in 1..m : edits[i].id = edits[j].id => i = j
    BY DEF TracedInv, SessionsAreOne, m
  <2> QED BY <1>1, <1>6, <1>7, <2>1
<1>8. ASSUME NEW u \in WfTenants, NEW a \in traced[u].applied, NEW k \in 1..(m + 1) PROVE edits'[k].id # a[1]
  <2>1. \A i \in 1..m : edits[i].id # a[1]
    BY DEF TracedInv, SessionsAreOne, m
  <2> QED BY <1>1, <1>6, <2>1
<1>9. SessionsAreOne'
  <2>1. \A u \in WfTenants : \A a \in traced[u].applied : a[3] = u /\ \A b \in traced[u].applied : a[1] = b[1] => a = b
    BY DEF TracedInv, SessionsAreOne
  <2> QED BY <1>2, <1>4, <1>7, <1>8, <2>1 DEF SessionsAreOne
<1> QED BY <1>5, <1>9 DEF TracedInv

LEMMA ExpireStep == ASSUME TracedInv, NEW k, k \in 1..Len(edits), EditExpires(k) PROVE TracedInv'
<1>1. edits' = [edits EXCEPT ![k].live = FALSE] /\ traced' = traced
  BY DEF EditExpires
<1>2. edits \in Seq(EditSessions) /\ Len(edits) \in Nat
  BY EditsAre DEF TracedInv, TracedTables
<1>3. [edits[k] EXCEPT !.live = FALSE] \in EditSessions
  BY EditsAre DEF EditSessions
<1>4. edits' = [edits EXCEPT ![k] = [edits[k] EXCEPT !.live = FALSE]]
  BY <1>1
<1>5. edits' \in Seq(EditSessions) /\ Len(edits') = Len(edits)
  BY <1>2, <1>3, <1>4, ExceptSeq
<1>6. \A i \in 1..Len(edits) : edits'[i].id = edits[i].id
  <2>1. DOMAIN edits = 1..Len(edits)
    BY <1>2, LenProperties
  <2> QED BY <1>4, <2>1, EditsAre DEF EditSessions
<1>7. TracedTables'
  BY <1>1, <1>5 DEF TracedInv, TracedTables
<1>8. SessionsAreOne'
  BY <1>1, <1>5, <1>6 DEF TracedInv, SessionsAreOne
<1> QED BY <1>7, <1>8 DEF TracedInv

\* The first session that matches is one.
LEMMA FirstMatch ==
    ASSUME TracedInv, NEW t \in WfTenants, MatchingEdits(t) # {},
           NEW k, k = CHOOSE x \in MatchingEdits(t) : \A j \in MatchingEdits(t) : x <= j
    PROVE  k \in 1..Len(edits) /\ edits[k].tenant = t
<1>1. MatchingEdits(t) \in SUBSET Nat
  BY EditsAre DEF MatchingEdits
<1>2. k \in MatchingEdits(t)
  BY <1>1, Least
<1> QED BY <1>2 DEF MatchingEdits

\* A node begins in t's run: it takes a session out, or none, and applies what was t's.
LEMMA NodeBegins == ASSUME TracedInv, NEW t \in WfTenants, TracedNodeStart(t) PROVE TracedInv'
<1> DEFINE n == traced[t].done + 1
           found == MatchingEdits(t)
           k == CHOOSE k \in found : \A j \in found : k <= j
           m == Len(edits)
<1>1. n <= GraphSize /\ ~traced[t].started /\ traced[t].done \in 0..GraphSize /\ n \in 1..GraphSize
  BY WorkflowConstants DEF TracedNodeStart, TracedInv, TracedTables
<1>2. CASE found = {}
  <2>1. traced' = [traced EXCEPT ![t].started = TRUE] /\ edits' = edits
    BY <1>2 DEF TracedNodeStart
  <2>2. \A u \in WfTenants : /\ traced'[u].applied = traced[u].applied /\ traced'[u].done = traced[u].done
                             /\ traced'[u].results = traced[u].results
                             /\ traced'[u].started => traced[u].started \/ u = t
    BY <2>1 DEF TracedInv, TracedTables
  <2>3. TracedTables'
    <3>1. traced' \in [WfTenants -> [done: 0..GraphSize, started: BOOLEAN, results: Seq({"completed", "error"}),
                                     applied: SUBSET (WfEditors \X (1..GraphSize) \X WfTenants)]]
      BY <2>1 DEF TracedInv, TracedTables
    <3>2. traced[t].done < GraphSize
      BY <1>1, WorkflowConstants
    <3> QED BY <2>1, <2>2, <3>1, <3>2 DEF TracedInv, TracedTables
  <2>4. SessionsAreOne'
    BY <2>1, <2>2 DEF TracedInv, SessionsAreOne
  <2> QED BY <2>3, <2>4 DEF TracedInv
<1>3. CASE found # {}
  <2> DEFINE add == IF edits[k].node = n THEN {<<edits[k].id, n, edits[k].tenant>>} ELSE {}
  <2>1. /\ traced' = [traced EXCEPT ![t].started = TRUE, ![t].applied = @ \union add]
        /\ edits' = RemoveAt(edits, k)
    BY <1>3 DEF TracedNodeStart
  <2>2. k \in 1..m /\ edits[k].tenant = t /\ edits[k].id \in WfEditors
    BY <1>3, FirstMatch, EditsAre
  <2>3. edits \in Seq(EditSessions) /\ m \in Nat
    BY EditsAre DEF TracedInv, TracedTables
  <2>4. /\ edits' \in Seq(EditSessions) /\ Len(edits') = m - 1
        /\ \A j \in 1..(m - 1) : edits'[j] = IF j < k THEN edits[j] ELSE edits[j + 1]
    BY <2>1, <2>2, <2>3, RemoveAtSeq
  <2>5. add \subseteq {<<edits[k].id, n, t>>}
    BY <2>2
  <2> HIDE DEF add, k, found, m, n
  <2>6. \A j \in 1..(m - 1) : \E i \in 1..m : i # k /\ edits'[j] = edits[i] /\ i = IF j < k THEN j ELSE j + 1
    <3> TAKE j \in 1..(m - 1)
    <3>1. CASE j < k
      <4>1. j \in 1..m /\ j # k
        BY <2>2, <2>3, <3>1
      <4> QED BY <2>4, <3>1, <4>1
    <3>2. CASE ~(j < k)
      <4>1. j + 1 \in 1..m /\ j + 1 # k
        BY <2>2, <2>3, <3>2
      <4> QED BY <2>4, <3>2, <4>1
    <3> QED BY <3>1, <3>2
  <2>7. /\ traced' \in [WfTenants -> [done: 0..GraphSize, started: BOOLEAN, results: Seq({"completed", "error"}),
                                      applied: SUBSET (WfEditors \X (1..GraphSize) \X WfTenants)]]
        /\ \A u \in WfTenants : /\ traced'[u].done = traced[u].done /\ traced'[u].results = traced[u].results
                                /\ traced'[u].applied = (IF u = t THEN traced[t].applied \union add ELSE traced[u].applied)
                                /\ u # t => traced'[u].started = traced[u].started
    <3>1. add \subseteq WfEditors \X (1..GraphSize) \X WfTenants
      BY <1>1, <2>2, <2>5
    <3> QED BY <2>1, <3>1 DEF TracedInv, TracedTables
  <2>8. TracedTables'
    <3>1. traced[t].done < GraphSize
      BY <1>1, WorkflowConstants DEF n
    <3> QED BY <2>4, <2>7, <3>1 DEF TracedInv, TracedTables
  <2>9. \A i, j \in 1..m : edits[i].id = edits[j].id => i = j
    BY DEF TracedInv, SessionsAreOne, m
  <2>10. \A u \in WfTenants : \A a \in traced[u].applied :
            a[3] = u /\ (\A b \in traced[u].applied : a[1] = b[1] => a = b) /\ \A i \in 1..m : edits[i].id # a[1]
    BY DEF TracedInv, SessionsAreOne, m
  <2>11. ASSUME NEW i \in 1..(m - 1), NEW j \in 1..(m - 1), edits'[i].id = edits'[j].id PROVE i = j
    <3>1. PICK x \in 1..m : edits'[i] = edits[x] /\ x = IF i < k THEN i ELSE i + 1
      BY <2>6
    <3>2. PICK y \in 1..m : edits'[j] = edits[y] /\ y = IF j < k THEN j ELSE j + 1
      BY <2>6
    <3>3. x = y
      BY <2>9, <2>11, <3>1, <3>2
    <3> QED BY <2>2, <2>3, <3>1, <3>2, <3>3
  <2>12. ASSUME NEW a \in add PROVE a = <<edits[k].id, n, t>> /\ a[1] = edits[k].id /\ a[3] = t
    BY <2>5
  <2>13. ASSUME NEW u \in WfTenants, NEW a \in traced'[u].applied
         PROVE  a[3] = u /\ (\A b \in traced'[u].applied : a[1] = b[1] => a = b) /\ \A i \in 1..(m - 1) : edits'[i].id # a[1]
    <3>1. a \in traced[u].applied \/ (u = t /\ a \in add)
      BY <2>7, <2>13
    <3>2. a[3] = u
      BY <2>10, <2>12, <3>1
    <3>3. ASSUME NEW b \in traced'[u].applied, a[1] = b[1] PROVE a = b
      <4>1. b \in traced[u].applied \/ (u = t /\ b \in add)
        BY <2>7, <3>3
      <4> QED BY <2>2, <2>10, <2>12, <3>1, <3>3, <4>1
    <3>4. ASSUME NEW i \in 1..(m - 1) PROVE edits'[i].id # a[1]
      <4>1. PICK x \in 1..m : x # k /\ edits'[i] = edits[x]
        BY <2>6
      <4> QED BY <2>2, <2>9, <2>10, <2>12, <3>1, <4>1
    <3> QED BY <3>2, <3>3, <3>4
  <2>14. SessionsAreOne'
    BY <2>4, <2>11, <2>13 DEF SessionsAreOne
  <2> QED BY <2>8, <2>14 DEF TracedInv
<1> QED BY <1>2, <1>3

LEMMA NodeEnds == ASSUME TracedInv, NEW t \in WfTenants, TracedNodeEnd(t) PROVE TracedInv'
<1>1. traced[t].started /\ edits' = edits
  BY DEF TracedNodeEnd
<1>2. PICK r \in {"completed", "error"} :
        traced' = [traced EXCEPT ![t].started = FALSE, ![t].done = @ + 1, ![t].results = Append(@, r)]
  BY DEF TracedNodeEnd
<1>3. traced[t].done \in 0..GraphSize /\ traced[t].done < GraphSize /\ Len(traced[t].results) = traced[t].done
      /\ traced[t].results \in Seq({"completed", "error"})
  BY <1>1 DEF TracedInv, TracedTables
<1>4. traced[t].done + 1 \in 0..GraphSize
  BY <1>3, WorkflowConstants
<1>5. /\ Append(traced[t].results, r) \in Seq({"completed", "error"})
      /\ Len(Append(traced[t].results, r)) = traced[t].done + 1
  BY <1>3, TailOfAppend
<1>6. /\ traced' \in [WfTenants -> [done: 0..GraphSize, started: BOOLEAN, results: Seq({"completed", "error"}),
                                    applied: SUBSET (WfEditors \X (1..GraphSize) \X WfTenants)]]
      /\ \A u \in WfTenants : /\ traced'[u].applied = traced[u].applied
                              /\ u # t => traced'[u] = traced[u]
      /\ ~traced'[t].started /\ traced'[t].done = traced[t].done + 1
      /\ traced'[t].results = Append(traced[t].results, r)
  BY <1>2, <1>4, <1>5 DEF TracedInv, TracedTables
<1>7. TracedTables'
  BY <1>1, <1>5, <1>6 DEF TracedInv, TracedTables
<1>8. SessionsAreOne'
  BY <1>1, <1>6 DEF TracedInv, SessionsAreOne
<1> QED BY <1>7, <1>8 DEF TracedInv

LEMMA TracedStays == ASSUME TracedInv, UNCHANGED <<traced, edits>> PROVE TracedInv'
BY DEF TracedInv, TracedTables, SessionsAreOne

LEMMA TracedStep == ASSUME TracedInv, TracedNext PROVE TracedInv' /\ UNCHANGED runVars
<1>1. ASSUME NEW t \in WfTenants, CreateEdit(t) \/ TracedNodeStart(t) \/ TracedNodeEnd(t)
      PROVE  TracedInv' /\ UNCHANGED runVars
  <2>1. UNCHANGED runVars
    BY <1>1 DEF CreateEdit, TracedNodeStart, TracedNodeEnd
  <2> QED BY <1>1, <2>1, CreateStep, NodeBegins, NodeEnds
<1>2. ASSUME NEW k \in 1..Cardinality(WfEditors), EditExpires(k) PROVE TracedInv' /\ UNCHANGED runVars
  <2>1. Cardinality(WfEditors) \in Nat
    BY WorkflowAssumption, FS_CardinalityType
  <2>2. k \in 1..Len(edits)
    BY <1>2, <2>1, EditsAre DEF EditExpires
  <2> QED BY <1>2, <2>2, ExpireStep DEF EditExpires
<1> QED BY <1>1, <1>2 DEF TracedNext

----------------------------------------------------------------------------
(* The hub.                                                                *)

HubTables ==
    /\ job \in [HubJobs -> [pc: {"new"} \union HubActive \union HubOver, tenant: HubTenants,
                            plan: Seq(1..WaveWidth), wave: 0..Waves, counted: 0..WaveWidth]]
    /\ \A j \in HubJobs : Len(job[j].plan) <= Waves
    /\ sub \in [HubJobs -> [Subtasks -> {"none", "queued", "running", "ended", "raised", "cancelled"}]]
    /\ signals \in [HubJobs -> 0..WaveWidth]
    /\ quota \in [HubTenants -> 0..HubQuota]

\* Subtasks of the wave whose end the hub has been told or will be.
EndedIn(j) == {s \in Subtasks : s[1] = job[j].wave /\ sub[j][s] = "ended"}
\* While a task runs its waves, the earlier ones are over, the later ones have not
\* begun, and every signal, counted or not, is of a subtask of this wave that ended.
WavesFollow == \A j \in HubJobs :
    /\ job[j].pc \in {"new", "planning"} => \A s \in Subtasks : sub[j][s] = "none"
    /\ job[j].pc = "waves" =>
        /\ job[j].wave \in 1..Len(job[j].plan)
        /\ \A s \in Subtasks : /\ s[1] < job[j].wave => sub[j][s] \notin {"queued", "running"}
                               /\ s[1] > job[j].wave => sub[j][s] = "none"
                               /\ s[1] = job[j].wave /\ s[2] > job[j].plan[job[j].wave] => sub[j][s] = "none"
        /\ job[j].counted + signals[j] = Cardinality(EndedIn(j))

HubInv == HubTables /\ WavesFollow /\ QuotaIsExact /\ WavesInOrder

LEMMA HubConstants ==
    HubQuota \in Nat \ {0} /\ Waves \in Nat \ {0} /\ WaveWidth \in Nat \ {0} /\ IsFiniteSet(HubJobs) /\ HubTenants # {}
BY HubAssumption

LEMMA SubtasksFinite == IsFiniteSet(Subtasks)
<1>1. IsFiniteSet(1..Waves) /\ IsFiniteSet(1..WaveWidth)
  BY HubConstants, UpTo
<1> QED BY <1>1, FS_Product DEF Subtasks

\* The tasks that hold a place of a tenant.
Placed(t) == {j \in HubJobs : job[j].tenant = t /\ job[j].pc \in HubActive}

LEMMA QuotaMeans == QuotaIsExact <=> \A t \in HubTenants : quota[t] = Cardinality(Placed(t))
BY DEF QuotaIsExact, Placed

LEMMA HubStarts == HubInit => HubInv
<1> SUFFICES ASSUME HubInit PROVE HubInv
  OBVIOUS
<1> DEFINE t0 == CHOOSE t \in HubTenants : TRUE
<1>1. t0 \in HubTenants
  BY HubConstants
<1> HIDE DEF t0
<1>2. job = [j \in HubJobs |-> [pc |-> "new", tenant |-> t0, plan |-> <<>>, wave |-> 0, counted |-> 0]]
  BY DEF HubInit, t0
<1>3. <<>> \in Seq(1..WaveWidth) /\ Len(<<>>) = 0 /\ 0 \in 0..Waves /\ 0 \in 0..WaveWidth /\ 0 \in 0..HubQuota
  BY HubConstants, EmptySeq
<1>4. HubTables
  <2>1. job \in [HubJobs -> [pc: {"new"} \union HubActive \union HubOver, tenant: HubTenants,
                             plan: Seq(1..WaveWidth), wave: 0..Waves, counted: 0..WaveWidth]]
    BY <1>1, <1>2, <1>3
  <2>2. \A j \in HubJobs : Len(job[j].plan) <= Waves
    BY <1>2, <1>3, HubConstants
  <2>3. /\ sub \in [HubJobs -> [Subtasks -> {"none", "queued", "running", "ended", "raised", "cancelled"}]]
        /\ signals \in [HubJobs -> 0..WaveWidth] /\ quota \in [HubTenants -> 0..HubQuota]
    BY <1>3 DEF HubInit
  <2> QED BY <2>1, <2>2, <2>3 DEF HubTables
<1>5. WavesFollow
  BY <1>2 DEF HubInit, WavesFollow
<1>6. QuotaIsExact
  <2>1. \A j \in HubJobs : job[j].pc \notin HubActive
    BY <1>2 DEF HubActive
  <2>2. ASSUME NEW t \in HubTenants PROVE quota[t] = Cardinality(Placed(t))
    <3>1. Placed(t) = {}
      BY <2>1 DEF Placed
    <3> QED BY <3>1, FS_EmptySet DEF HubInit
  <2> QED BY <2>2, QuotaMeans
<1>7. WavesInOrder
  <2>1. ASSUME NEW j \in HubJobs PROVE Cardinality(InSemaphore(j)) <= HubQuota
    <3>1. InSemaphore(j) = {}
      BY DEF HubInit, InSemaphore
    <3> QED BY <3>1, FS_EmptySet, HubConstants
  <2> QED BY <2>1 DEF HubInit, WavesInOrder
<1> QED BY <1>4, <1>5, <1>6, <1>7 DEF HubInv

\* The places change with task j only.
LEMMA PlacesChange ==
    ASSUME HubInv, NEW j \in HubJobs, NEW t \in HubTenants,
           \A k \in HubJobs : k # j => job'[k] = job[k]
    PROVE  /\ quota[t] \in 0..HubQuota /\ Cardinality(Placed(t)') \in Nat
           /\ Cardinality(Placed(t)') = quota[t] - Bit(j \in Placed(t)) + Bit(j \in Placed(t)')
<1>1. Placed(t) \in SUBSET HubJobs /\ Placed(t)' \in SUBSET HubJobs /\ Placed(t) \ {j} = Placed(t)' \ {j}
  BY DEF Placed
<1>2. quota[t] = Cardinality(Placed(t)) /\ quota[t] \in 0..HubQuota
  BY QuotaMeans DEF HubInv, HubTables
<1> QED BY <1>1, <1>2, HubConstants, OneMember

\* The subtasks of a wave are no more than its width.
LEMMA EndedFit ==
    ASSUME NEW E, NEW w, E \subseteq {s \in Subtasks : s[1] = w}
    PROVE  IsFiniteSet(E) /\ Cardinality(E) \in 0..WaveWidth
<1> DEFINE f == [s \in E |-> s[2]]
<1>1. IsFiniteSet(E)
  BY SubtasksFinite, FS_Subset
<1>2. f \in [E -> 1..WaveWidth]
  BY DEF Subtasks
<1>3. \A s, r \in E : f[s] = f[r] => s = r
  BY DEF Subtasks
<1>4. f \in Injection(E, 1..WaveWidth)
  BY <1>2, <1>3, Fun_IsInj
<1>5. IsFiniteSet(1..WaveWidth) /\ Cardinality(1..WaveWidth) = WaveWidth
  BY HubConstants, UpTo
<1>6. Cardinality(E) <= WaveWidth
  BY <1>4, <1>5, FS_Injection
<1> QED BY <1>1, <1>6, HubConstants, FS_CardinalityType

LEMMA SubtasksAre == \A s \in Subtasks : s[1] \in 1..Waves /\ s[2] \in 1..WaveWidth /\ s = <<s[1], s[2]>>
BY DEF Subtasks

LEMMA JobsAre ==
    ASSUME HubInv, NEW j \in HubJobs
    PROVE  /\ job[j].pc \in {"new"} \union HubActive \union HubOver /\ job[j].tenant \in HubTenants
           /\ job[j].plan \in Seq(1..WaveWidth) /\ Len(job[j].plan) \in 0..Waves
           /\ job[j].wave \in 0..Waves /\ job[j].counted \in 0..WaveWidth /\ signals[j] \in 0..WaveWidth
           /\ \A s \in Subtasks : sub[j][s] \in {"none", "queued", "running", "ended", "raised", "cancelled"}
<1>1. job[j].plan \in Seq(1..WaveWidth) /\ Len(job[j].plan) <= Waves
  BY DEF HubInv, HubTables
<1>2. Len(job[j].plan) \in Nat
  BY <1>1, LenProperties
<1>3. Len(job[j].plan) \in 0..Waves
  BY <1>1, <1>2, HubConstants
<1>4. job[j] \in [pc: {"new"} \union HubActive \union HubOver, tenant: HubTenants,
                  plan: Seq(1..WaveWidth), wave: 0..Waves, counted: 0..WaveWidth]
  BY DEF HubInv, HubTables
<1>5. signals[j] \in 0..WaveWidth
  BY DEF HubInv, HubTables
<1>6. \A s \in Subtasks : sub[j][s] \in {"none", "queued", "running", "ended", "raised", "cancelled"}
  BY DEF HubInv, HubTables
<1> QED BY <1>1, <1>3, <1>4, <1>5, <1>6

\* The invariants of the waves, task by task.
FollowsAt(j) ==
    /\ job[j].pc \in {"new", "planning"} => \A s \in Subtasks : sub[j][s] = "none"
    /\ job[j].pc = "waves" =>
        /\ job[j].wave \in 1..Len(job[j].plan)
        /\ \A s \in Subtasks : /\ s[1] < job[j].wave => sub[j][s] \notin {"queued", "running"}
                               /\ s[1] > job[j].wave => sub[j][s] = "none"
                               /\ s[1] = job[j].wave /\ s[2] > job[j].plan[job[j].wave] => sub[j][s] = "none"
        /\ job[j].counted + signals[j] = Cardinality(EndedIn(j))
OrderAt(j) ==
    /\ \A s \in Subtasks : sub[j][s] # "none" =>
        \A r \in Subtasks : r[1] < s[1] => sub[j][r] \notin {"queued", "running"}
    /\ Cardinality(InSemaphore(j)) <= HubQuota

LEMMA TaskByTask == /\ WavesFollow <=> \A j \in HubJobs : FollowsAt(j)
                    /\ WavesInOrder <=> \A j \in HubJobs : OrderAt(j)
BY DEF WavesFollow, WavesInOrder, FollowsAt, OrderAt

\* A step of one task keeps the waves of the others.
LEMMA OthersKeep ==
    ASSUME HubInv, NEW j \in HubJobs,
           \A k \in HubJobs : k # j => job'[k] = job[k] /\ sub'[k] = sub[k] /\ signals'[k] = signals[k],
           FollowsAt(j)', OrderAt(j)'
    PROVE  WavesFollow' /\ WavesInOrder'
<1>1. ASSUME NEW k \in HubJobs PROVE FollowsAt(k)' /\ OrderAt(k)'
  <2>1. CASE k = j
    BY <2>1
  <2>2. CASE k # j
    <3>1. FollowsAt(k) /\ OrderAt(k) /\ job'[k] = job[k] /\ sub'[k] = sub[k] /\ signals'[k] = signals[k]
      BY <2>2, TaskByTask DEF HubInv
    <3>2. EndedIn(k)' = EndedIn(k) /\ InSemaphore(k)' = InSemaphore(k)
      BY <3>1 DEF EndedIn, InSemaphore
    <3>3. FollowsAt(k)'
      BY <3>1, <3>2 DEF FollowsAt
    <3>4. OrderAt(k)'
      BY <3>1, <3>2 DEF OrderAt
    <3> QED BY <3>3, <3>4
  <2> QED BY <2>1, <2>2
<1>2. (WavesFollow <=> \A k \in HubJobs : FollowsAt(k))' /\ (WavesInOrder <=> \A k \in HubJobs : OrderAt(k))'
  BY DEF WavesFollow, WavesInOrder, FollowsAt, OrderAt
<1> QED BY <1>1, <1>2

\* A task that has its place keeps it, under way.
LEMMA PlaceKept ==
    ASSUME HubInv, NEW j \in HubJobs, \A k \in HubJobs : k # j => job'[k] = job[k], UNCHANGED quota,
           job'[j].tenant = job[j].tenant, job[j].pc \in HubActive, job'[j].pc \in HubActive
    PROVE  QuotaIsExact'
<1>1. \A t \in HubTenants : Placed(t)' = Placed(t)
  BY DEF Placed
<1>2. \A t \in HubTenants : quota'[t] = Cardinality(Placed(t)')
  BY <1>1, QuotaMeans DEF HubInv
<1>3. (QuotaIsExact <=> \A t \in HubTenants : quota[t] = Cardinality(Placed(t)))'
  BY QuotaMeans, PTL
<1> QED BY <1>2, <1>3

\* The place of a task that leaves is given back once.
LEMMA Leaving ==
    ASSUME HubInv, NEW j \in HubJobs, job[j].pc \in HubActive, NEW pc \in HubOver, LeavesAs(j, pc)
    PROVE  /\ job' \in [HubJobs -> [pc: {"new"} \union HubActive \union HubOver, tenant: HubTenants,
                                    plan: Seq(1..WaveWidth), wave: 0..Waves, counted: 0..WaveWidth]]
           /\ \A k \in HubJobs : Len(job'[k].plan) <= Waves
           /\ \A k \in HubJobs : k # j => job'[k] = job[k]
           /\ job'[j].pc = pc
           /\ quota' \in [HubTenants -> 0..HubQuota] /\ QuotaIsExact'
<1>0. PICK u \in HubTenants : u = job[j].tenant
  BY JobsAre
<1>1. /\ job' = [job EXCEPT ![j].pc = pc]
      /\ quota' = [quota EXCEPT ![u] = IF quota[u] > 0 THEN quota[u] - 1 ELSE 0]
  BY <1>0 DEF LeavesAs, HubInv, HubTables
<1>2. u \in HubTenants /\ j \in Placed(u) /\ \A t \in HubTenants : t # u => j \notin Placed(t)
  BY <1>0 DEF Placed, HubInv, HubTables
<1>3. /\ job' \in [HubJobs -> [pc: {"new"} \union HubActive \union HubOver, tenant: HubTenants,
                               plan: Seq(1..WaveWidth), wave: 0..Waves, counted: 0..WaveWidth]]
      /\ \A k \in HubJobs : Len(job'[k].plan) <= Waves
      /\ \A k \in HubJobs : k # j => job'[k] = job[k]
      /\ job'[j].pc = pc
  <2>1. job' \in [HubJobs -> [pc: {"new"} \union HubActive \union HubOver, tenant: HubTenants,
                               plan: Seq(1..WaveWidth), wave: 0..Waves, counted: 0..WaveWidth]]
    BY <1>1 DEF HubInv, HubTables
  <2>2. \A k \in HubJobs : job'[k].plan = job[k].plan /\ (k # j => job'[k] = job[k])
    BY <1>1 DEF HubInv, HubTables
  <2>3. job'[j].pc = pc
    BY <1>1 DEF HubInv, HubTables
  <2> QED BY <2>1, <2>2, <2>3 DEF HubInv, HubTables
<1>4. \A t \in HubTenants : j \notin Placed(t)'
  BY <1>3 DEF Placed, HubOver, HubActive
<1>5. quota[u] \in 1..HubQuota
  <2>1. /\ quota[u] \in 0..HubQuota /\ Cardinality(Placed(u)') \in Nat
        /\ Cardinality(Placed(u)') = quota[u] - Bit(j \in Placed(u)) + Bit(j \in Placed(u)')
    BY <1>2, <1>3, PlacesChange
  <2>2. Bit(j \in Placed(u)) = 1 /\ Bit(j \in Placed(u)') = 0
    BY <1>2, <1>4 DEF Bit
  <2> QED BY <2>1, <2>2, HubConstants
<1>6. \A t \in HubTenants : quota'[t] = IF t = u THEN quota[t] - 1 ELSE quota[t]
  BY <1>1, <1>2, <1>5, HubConstants DEF HubInv, HubTables
<1>7. quota' \in [HubTenants -> 0..HubQuota]
  <2>1. (IF quota[u] > 0 THEN quota[u] - 1 ELSE 0) \in 0..HubQuota
    BY <1>5, HubConstants
  <2> QED BY <1>1, <2>1 DEF HubInv, HubTables
<1>8. \A t \in HubTenants : quota'[t] = Cardinality(Placed(t)')
  <2> TAKE t \in HubTenants
  <2>1. /\ quota[t] \in 0..HubQuota
        /\ Cardinality(Placed(t)') = quota[t] - Bit(j \in Placed(t)) + Bit(j \in Placed(t)')
    BY <1>3, PlacesChange
  <2>2. Bit(j \in Placed(t)') = 0 /\ Bit(j \in Placed(t)) = IF t = u THEN 1 ELSE 0
    BY <1>2, <1>4 DEF Bit
  <2> QED BY <1>6, <2>1, <2>2, HubConstants
<1>9. (QuotaIsExact <=> \A t \in HubTenants : quota[t] = Cardinality(Placed(t)))'
  BY QuotaMeans, PTL
<1> QED BY <1>3, <1>7, <1>8, <1>9

\* Two sets of subtasks that differ by one member.
LEMMA SubtaskCounts ==
    ASSUME NEW X \in SUBSET Subtasks, NEW Y \in SUBSET Subtasks, NEW s \in Subtasks, X \ {s} = Y \ {s}
    PROVE  /\ Cardinality(X) \in Nat /\ Cardinality(Y) \in Nat
           /\ Cardinality(Y) = Cardinality(X) - Bit(s \in X) + Bit(s \in Y)
BY SubtasksFinite, OneMember


LEMMA StartStep == ASSUME HubInv, NEW j \in HubJobs, StartJob(j) PROVE HubInv'
<1>1. job[j].pc = "new" /\ sub' = sub /\ signals' = signals
  BY DEF StartJob
<1>2. PICK t \in HubTenants :
        IF HasRoom(t) THEN /\ job' = [job EXCEPT ![j].pc = "planning", ![j].tenant = t]
                           /\ quota' = [quota EXCEPT ![t] = @ + 1]
        ELSE job' = [job EXCEPT ![j].pc = "denied", ![j].tenant = t] /\ UNCHANGED quota
  BY DEF StartJob
<1>3. /\ job' \in [HubJobs -> [pc: {"new"} \union HubActive \union HubOver, tenant: HubTenants,
                               plan: Seq(1..WaveWidth), wave: 0..Waves, counted: 0..WaveWidth]]
      /\ \A k \in HubJobs : job'[k].plan = job[k].plan /\ (k # j => job'[k] = job[k])
      /\ job'[j].tenant = t /\ job'[j].pc = IF HasRoom(t) THEN "planning" ELSE "denied"
  <2>1. PICK pc \in HubActive \union HubOver : /\ job' = [job EXCEPT ![j].pc = pc, ![j].tenant = t]
                                               /\ pc = IF HasRoom(t) THEN "planning" ELSE "denied"
    BY <1>2 DEF HubActive, HubOver
  <2> QED BY ZenonT(40), <2>1 DEF HubInv, HubTables
<1>4. /\ quota' \in [HubTenants -> 0..HubQuota]
      /\ \A v \in HubTenants : quota'[v] = IF v = t /\ HasRoom(t) THEN quota[v] + 1 ELSE quota[v]
  <2>1. CASE HasRoom(t)
    <3>1. quota[t] + 1 \in 0..HubQuota
      BY <2>1, HubConstants DEF HasRoom, HubInv, HubTables
    <3> QED BY <1>2, <2>1, <3>1 DEF HubInv, HubTables
  <2>2. CASE ~HasRoom(t)
    BY <1>2, <2>2 DEF HubInv, HubTables
  <2> QED BY <2>1, <2>2
<1>5. HubTables'
  BY <1>1, <1>3, <1>4 DEF HubInv, HubTables
<1>6. \A v \in HubTenants : quota'[v] = Cardinality(Placed(v)')
  <2> TAKE v \in HubTenants
  <2>1. /\ quota[v] \in 0..HubQuota
        /\ Cardinality(Placed(v)') = quota[v] - Bit(j \in Placed(v)) + Bit(j \in Placed(v)')
    BY <1>3, PlacesChange
  <2>2. j \notin Placed(v) /\ (j \in Placed(v)' <=> v = t /\ HasRoom(t))
    BY <1>1, <1>3 DEF Placed, HubActive
  <2>3. Bit(j \in Placed(v)) = 0 /\ Bit(j \in Placed(v)') = IF v = t /\ HasRoom(t) THEN 1 ELSE 0
    BY <2>2 DEF Bit
  <2> QED BY <1>4, <2>1, <2>3, HubConstants
<1>7. QuotaIsExact'
  BY <1>6 DEF QuotaIsExact, Placed
<1>8. FollowsAt(j)' /\ OrderAt(j)'
  <2>1. FollowsAt(j) /\ OrderAt(j)
    BY TaskByTask DEF HubInv
  <2>2. FollowsAt(j)'
    BY <1>1, <1>3, <2>1 DEF FollowsAt
  <2>3. OrderAt(j)'
    BY <1>1, <2>1 DEF OrderAt, InSemaphore
  <2> QED BY <2>2, <2>3
<1>9. WavesFollow' /\ WavesInOrder'
  BY <1>1, <1>3, <1>8, OthersKeep
<1> QED BY <1>5, <1>7, <1>9 DEF HubInv

\* A wave begins when no subtask runs and none of the later waves has begun.
LEMMA WaveBegins ==
    ASSUME HubInv, NEW j \in HubJobs, job[j].pc \in HubActive, UNCHANGED quota,
           NEW plan \in Seq(1..WaveWidth), Len(plan) <= Waves, NEW w \in Nat \ {0}, BeginWave(j, plan, w),
           \A s \in Subtasks : sub[j][s] \notin {"queued", "running"} /\ (s[1] >= w => sub[j][s] = "none")
    PROVE  HubInv'
<1>1. Len(plan) \in Nat /\ Len(plan) \in 0..Waves
  BY LenProperties, HubConstants
<1>2. CASE w > Len(plan)
  <2>1. job' = [job EXCEPT ![j].pc = "aggregating", ![j].plan = plan] /\ sub' = sub /\ signals' = signals
    BY <1>2 DEF BeginWave
  <2>2. /\ job' \in [HubJobs -> [pc: {"new"} \union HubActive \union HubOver, tenant: HubTenants,
                                 plan: Seq(1..WaveWidth), wave: 0..Waves, counted: 0..WaveWidth]]
        /\ \A k \in HubJobs : k # j => job'[k] = job[k]
        /\ job'[j].tenant = job[j].tenant /\ job'[j].pc = "aggregating" /\ job'[j].plan = plan
    <3>1. "aggregating" \in HubActive
      BY DEF HubActive
    <3> QED BY <2>1, <3>1 DEF HubInv, HubTables
  <2>3. HubTables'
    <3>1. \A k \in HubJobs : Len(job'[k].plan) <= Waves
      BY <2>2 DEF HubInv, HubTables
    <3> QED BY <2>1, <2>2, <3>1 DEF HubInv, HubTables
  <2>4. QuotaIsExact'
    BY <2>2, PlaceKept DEF HubActive
  <2>5. OrderAt(j)'
    <3>1. OrderAt(j)
      BY TaskByTask DEF HubInv
    <3> QED BY <2>1, <3>1 DEF OrderAt, InSemaphore
  <2>6. FollowsAt(j)'
    BY <2>2 DEF FollowsAt
  <2>7. WavesFollow' /\ WavesInOrder'
    BY <2>1, <2>2, <2>5, <2>6, OthersKeep
  <2> QED BY <2>3, <2>4, <2>7 DEF HubInv
<1>3. CASE w <= Len(plan)
  <2> DEFINE begun == [s \in Subtasks |-> IF s[1] = w /\ s[2] <= plan[w] THEN "queued" ELSE sub[j][s]]
  <2>1. /\ job' = [job EXCEPT ![j].pc = "waves", ![j].plan = plan, ![j].wave = w, ![j].counted = 0]
        /\ sub' = [sub EXCEPT ![j] = begun]
        /\ signals' = [signals EXCEPT ![j] = 0]
    <3>1. ~(w > Len(plan))
      BY <1>1, <1>3
    <3> QED BY <3>1 DEF BeginWave
  <2>2. /\ job' \in [HubJobs -> [pc: {"new"} \union HubActive \union HubOver, tenant: HubTenants,
                                 plan: Seq(1..WaveWidth), wave: 0..Waves, counted: 0..WaveWidth]]
        /\ \A k \in HubJobs : k # j => job'[k] = job[k]
        /\ job'[j].tenant = job[j].tenant /\ job'[j].pc = "waves" /\ job'[j].plan = plan
        /\ job'[j].wave = w /\ job'[j].counted = 0
    <3>1. "waves" \in HubActive /\ w \in 0..Waves /\ 0 \in 0..WaveWidth
      BY <1>1, <1>3, HubConstants DEF HubActive
    <3> QED BY ZenonT(40), <2>1, <3>1 DEF HubInv, HubTables
  <2>3. /\ begun \in [Subtasks -> {"none", "queued", "running", "ended", "raised", "cancelled"}]
        /\ \A s \in Subtasks : begun[s] = IF s[1] = w /\ s[2] <= plan[w] THEN "queued" ELSE sub[j][s]
    BY JobsAre
  <2> HIDE DEF begun
  <2>4. /\ sub' \in [HubJobs -> [Subtasks -> {"none", "queued", "running", "ended", "raised", "cancelled"}]]
        /\ \A k \in HubJobs : k # j => sub'[k] = sub[k]
        /\ sub'[j] = begun
    BY <2>1, <2>3 DEF HubInv, HubTables
  <2>5. /\ signals' \in [HubJobs -> 0..WaveWidth] /\ signals'[j] = 0
        /\ \A k \in HubJobs : k # j => signals'[k] = signals[k]
    <3>1. 0 \in 0..WaveWidth
      BY HubConstants
    <3> QED BY <2>1, <3>1 DEF HubInv, HubTables
  <2>6. HubTables'
    <3>1. \A k \in HubJobs : Len(job'[k].plan) <= Waves
      BY <2>2 DEF HubInv, HubTables
    <3> QED BY <2>2, <2>4, <2>5, <3>1 DEF HubInv, HubTables
  <2>7. QuotaIsExact'
    BY <2>2, PlaceKept DEF HubActive
  <2>8. plan[w] \in 1..WaveWidth
    <3>1. w \in 1..Len(plan)
      BY <1>1, <1>3
    <3> QED BY <3>1, ElementOfSeq
  <2>9. \A s \in Subtasks : s[1] \in Nat /\ s[2] \in Nat
    BY SubtasksAre
  <2>10. OrderAt(j)'
    <3>1. ASSUME NEW s \in Subtasks, begun[s] # "none", NEW r \in Subtasks, r[1] < s[1]
          PROVE  begun[r] \notin {"queued", "running"}
      <4>1. ~(s[1] > w)
        BY <2>3, <2>9, <3>1
      <4>2. r[1] # w
        BY <2>9, <3>1, <4>1
      <4> QED BY <2>3, <4>2
    <3>2. InSemaphore(j)' = {}
      BY <2>3, <2>4 DEF InSemaphore
    <3>3. Cardinality(InSemaphore(j)') <= HubQuota
      BY <3>2, FS_EmptySet, HubConstants
    <3> QED BY <2>4, <3>1, <3>3 DEF OrderAt
  <2>11. FollowsAt(j)'
    <3>1. w \in 1..Len(plan)
      BY <1>1, <1>3
    <3>2. ASSUME NEW s \in Subtasks
          PROVE  /\ s[1] < w => begun[s] \notin {"queued", "running"}
                 /\ s[1] > w => begun[s] = "none"
                 /\ s[1] = w /\ s[2] > plan[w] => begun[s] = "none"
                 /\ s[1] = w => begun[s] # "ended"
      BY <2>3, <2>8, <2>9
    <3>3. EndedIn(j)' = {}
      BY <2>2, <2>4, <3>2 DEF EndedIn
    <3>4. job'[j].counted + signals'[j] = Cardinality(EndedIn(j)')
      BY <2>2, <2>5, <3>3, FS_EmptySet
    <3> QED BY <2>2, <2>4, <3>1, <3>2, <3>4 DEF FollowsAt
  <2>12. WavesFollow' /\ WavesInOrder'
    BY <2>2, <2>4, <2>5, <2>10, <2>11, OthersKeep
  <2> QED BY <2>6, <2>7, <2>12 DEF HubInv
<1> QED BY <1>1, <1>2, <1>3

\* A task leaves and its subtasks are left as they are, or all cancelled.
LEMMA LeavesWith ==
    ASSUME HubInv, NEW j \in HubJobs, job[j].pc \in HubActive, NEW pc \in HubOver, LeavesAs(j, pc), signals' = signals,
           sub' = sub \/ sub' = [sub EXCEPT ![j] = [s \in Subtasks |->
                                    IF sub[j][s] \in {"queued", "running"} THEN "cancelled" ELSE sub[j][s]]]
    PROVE  HubInv'
<1>1. /\ job' \in [HubJobs -> [pc: {"new"} \union HubActive \union HubOver, tenant: HubTenants,
                               plan: Seq(1..WaveWidth), wave: 0..Waves, counted: 0..WaveWidth]]
      /\ \A k \in HubJobs : Len(job'[k].plan) <= Waves
      /\ \A k \in HubJobs : k # j => job'[k] = job[k]
      /\ job'[j].pc = pc
      /\ quota' \in [HubTenants -> 0..HubQuota] /\ QuotaIsExact'
  BY Leaving
<1>2. /\ sub' \in [HubJobs -> [Subtasks -> {"none", "queued", "running", "ended", "raised", "cancelled"}]]
      /\ \A k \in HubJobs : k # j => sub'[k] = sub[k]
      /\ sub' = sub \/ \A s \in Subtasks :
            sub'[j][s] = IF sub[j][s] \in {"queued", "running"} THEN "cancelled" ELSE sub[j][s]
  <2> DEFINE over == [s \in Subtasks |-> IF sub[j][s] \in {"queued", "running"} THEN "cancelled" ELSE sub[j][s]]
  <2>1. sub \in [HubJobs -> [Subtasks -> {"none", "queued", "running", "ended", "raised", "cancelled"}]]
    BY DEF HubInv, HubTables
  <2>2. over \in [Subtasks -> {"none", "queued", "running", "ended", "raised", "cancelled"}]
    BY JobsAre
  <2>3. CASE sub' = sub
    BY <2>1, <2>3
  <2>4. CASE sub' = [sub EXCEPT ![j] = over]
    <3>1. \A s \in Subtasks : over[s] = IF sub[j][s] \in {"queued", "running"} THEN "cancelled" ELSE sub[j][s]
      OBVIOUS
    <3> HIDE DEF over
    <3> QED BY <2>1, <2>2, <2>4, <3>1
  <2> QED BY <2>3, <2>4
<1>3. HubTables'
  BY <1>1, <1>2 DEF HubInv, HubTables
<1>4. FollowsAt(j)'
  BY <1>1 DEF FollowsAt, HubOver
<1>5. OrderAt(j)'
  <2>1. OrderAt(j)
    BY TaskByTask DEF HubInv
  <2>2. CASE sub' = sub
    BY <2>1, <2>2 DEF OrderAt, InSemaphore
  <2>3. CASE \A s \in Subtasks : sub'[j][s] = IF sub[j][s] \in {"queued", "running"} THEN "cancelled" ELSE sub[j][s]
    <3>1. \A s \in Subtasks : sub'[j][s] \notin {"queued", "running"}
      BY <2>3
    <3>2. InSemaphore(j)' = {}
      BY <3>1 DEF InSemaphore
    <3>3. Cardinality(InSemaphore(j)') <= HubQuota
      BY <3>2, FS_EmptySet, HubConstants
    <3> QED BY <3>1, <3>3 DEF OrderAt
  <2> QED BY <1>2, <2>2, <2>3
<1>6. WavesFollow' /\ WavesInOrder'
  BY <1>1, <1>2, <1>4, <1>5, OthersKeep
<1> QED BY <1>1, <1>3, <1>6 DEF HubInv

LEMMA PlanStep == ASSUME HubInv, NEW j \in HubJobs, Plan(j) PROVE HubInv'
<1>1. job[j].pc = "planning" /\ job[j].pc \in HubActive
  BY DEF Plan, HubActive
<1>2. CASE (\E plan \in Plans : BeginWave(j, plan, 1)) /\ UNCHANGED quota
  <2>1. PICK plan \in Plans : BeginWave(j, plan, 1)
    BY <1>2
  <2>2. plan \in Seq(1..WaveWidth) /\ Len(plan) <= Waves
    <3>1. PICK n \in 0..Waves : plan \in [1..n -> 1..WaveWidth]
      BY DEF Plans
    <3>2. n \in Nat /\ n <= Waves
      BY <3>1, HubConstants
    <3>3. plan \in Seq(1..WaveWidth)
      BY <3>1, <3>2, SeqDef
    <3>4. Len(plan) \in Nat /\ 1..Len(plan) = 1..n
      BY <3>1, <3>3, LenProperties
    <3>5. Len(plan) = n
      BY <3>2, <3>4
    <3> QED BY <3>2, <3>3, <3>5
  <2>3. \A s \in Subtasks : sub[j][s] = "none"
    BY <1>1 DEF HubInv, WavesFollow
  <2>4. 1 \in Nat \ {0}
    OBVIOUS
  <2> QED BY <1>1, <1>2, <2>1, <2>2, <2>3, <2>4, WaveBegins
<1>3. CASE LeavesAs(j, "failed") /\ UNCHANGED <<sub, signals>>
  <2>1. "failed" \in HubOver
    BY DEF HubOver
  <2> QED BY <1>1, <1>3, <2>1, LeavesWith
<1> QED BY <1>2, <1>3 DEF Plan

LEMMA NextWaveStep == ASSUME HubInv, NEW j \in HubJobs, NextWave(j) PROVE HubInv'
<1> DEFINE plan == job[j].plan
           w == job[j].wave
<1>1. /\ job[j].pc = "waves" /\ job[j].pc \in HubActive /\ Gathered(j)
      /\ BeginWave(j, plan, w + 1) /\ UNCHANGED quota
  BY DEF NextWave, HubActive
<1>2. plan \in Seq(1..WaveWidth) /\ Len(plan) <= Waves /\ Len(plan) \in Nat /\ w \in 1..Len(plan)
  BY <1>1, JobsAre DEF HubInv, WavesFollow
<1>3. ASSUME NEW s \in Subtasks
      PROVE  sub[j][s] \notin {"queued", "running"} /\ (s[1] >= w + 1 => sub[j][s] = "none")
  <2>1. s[1] \in Nat /\ s[2] \in 1..WaveWidth /\ s = <<s[1], s[2]>> /\ w \in Nat
    BY <1>2, SubtasksAre
  <2>2. /\ s[1] < w => sub[j][s] \notin {"queued", "running"}
        /\ s[1] > w => sub[j][s] = "none"
        /\ s[1] = w /\ s[2] > plan[w] => sub[j][s] = "none"
    BY <1>1 DEF HubInv, WavesFollow
  <2>3. plan[w] \in 1..WaveWidth
    BY <1>2, ElementOfSeq
  <2>4. s[1] = w /\ s[2] <= plan[w] => sub[j][s] \notin {"queued", "running"}
    <3> SUFFICES ASSUME s[1] = w, s[2] <= plan[w] PROVE sub[j][s] \notin {"queued", "running"}
      OBVIOUS
    <3>1. s[2] \in 1..plan[w] /\ s = <<w, s[2]>>
      BY <2>1, <2>3
    <3> QED BY <1>1, <3>1 DEF Gathered
  <2> HIDE DEF plan, w
  <2> QED BY <2>1, <2>2, <2>3, <2>4
<1>4. w + 1 \in Nat \ {0}
  BY <1>2
<1> HIDE DEF plan, w
<1> QED BY <1>1, <1>2, <1>3, <1>4, WaveBegins

\* A subtask enters, when there is room, or raises, before it runs or while it does.
LEMMA SubtaskMoves ==
    ASSUME HubInv, NEW j \in HubJobs, NEW s \in Subtasks, NEW v \in {"running", "raised"},
           sub[j][s] \in {"queued", "running"}, UNCHANGED <<job, signals, quota>>,
           sub' = [sub EXCEPT ![j][s] = v], v = "running" => Cardinality(InSemaphore(j)) < HubQuota
    PROVE  HubInv'
<1>1. sub[j][s] \in {"queued", "running"} /\ job' = job /\ signals' = signals /\ quota' = quota
  OBVIOUS
<1>2. sub' = [sub EXCEPT ![j][s] = v] /\ (v = "running" => Cardinality(InSemaphore(j)) < HubQuota)
  OBVIOUS
<1>3. /\ sub' \in [HubJobs -> [Subtasks -> {"none", "queued", "running", "ended", "raised", "cancelled"}]]
      /\ \A k \in HubJobs : k # j => sub'[k] = sub[k]
      /\ \A r \in Subtasks : sub'[j][r] = IF r = s THEN v ELSE sub[j][r]
  BY <1>2 DEF HubInv, HubTables
<1>4. HubTables' /\ QuotaIsExact'
  BY <1>1, <1>3 DEF HubInv, HubTables, QuotaIsExact
<1>5. FollowsAt(j) /\ OrderAt(j)
  BY TaskByTask DEF HubInv
<1>6. OrderAt(j)'
  <2>1. ASSUME NEW x \in Subtasks, sub'[j][x] # "none", NEW r \in Subtasks, r[1] < x[1]
        PROVE  sub'[j][r] \notin {"queued", "running"}
    <3>1. sub[j][r] \notin {"queued", "running"}
      BY <1>1, <1>3, <1>5, <2>1 DEF OrderAt
    <3>2. r # s
      BY <1>1, <3>1
    <3> QED BY <1>3, <3>1, <3>2
  <2>2. Cardinality(InSemaphore(j)') <= HubQuota
    <3>1. /\ InSemaphore(j) \in SUBSET Subtasks /\ InSemaphore(j)' \in SUBSET Subtasks
          /\ InSemaphore(j) \ {s} = InSemaphore(j)' \ {s}
          /\ s \in InSemaphore(j)' <=> v = "running"
      BY <1>1, <1>3 DEF InSemaphore
    <3>2. /\ Cardinality(InSemaphore(j)) \in Nat
          /\ Cardinality(InSemaphore(j)') = Cardinality(InSemaphore(j)) - Bit(s \in InSemaphore(j)) + Bit(s \in InSemaphore(j)')
      BY <3>1, SubtaskCounts
    <3>3. Bit(s \in InSemaphore(j)) \in {0, 1} /\ Bit(s \in InSemaphore(j)') = IF v = "running" THEN 1 ELSE 0
      BY <3>1 DEF Bit
    <3>4. Cardinality(InSemaphore(j)) <= HubQuota
      BY <1>5 DEF OrderAt
    <3> QED BY <1>2, <3>2, <3>3, <3>4, HubConstants
  <2> QED BY <2>1, <2>2 DEF OrderAt
<1>7. FollowsAt(j)'
  <2>1. job[j].pc \notin {"new", "planning"}
    BY <1>1, <1>5 DEF FollowsAt
  <2>2. EndedIn(j)' = EndedIn(j)
    BY <1>1, <1>3 DEF EndedIn
  <2>3. ASSUME job[j].pc = "waves", NEW r \in Subtasks
        PROVE  /\ r[1] < job[j].wave => sub'[j][r] \notin {"queued", "running"}
               /\ r[1] > job[j].wave => sub'[j][r] = "none"
               /\ r[1] = job[j].wave /\ r[2] > job[j].plan[job[j].wave] => sub'[j][r] = "none"
    BY <1>1, <1>3, <1>5, <2>3 DEF FollowsAt
  <2> QED BY <1>1, <1>5, <2>1, <2>2, <2>3 DEF FollowsAt
<1>8. WavesFollow' /\ WavesInOrder'
  BY <1>1, <1>3, <1>6, <1>7, OthersKeep
<1> QED BY <1>4, <1>8 DEF HubInv

LEMMA EnterStep == ASSUME HubInv, NEW j \in HubJobs, NEW s \in Subtasks, EnterSubtask(j, s) PROVE HubInv'
<1>1. PICK v \in {"running", "raised"} :
        sub' = [sub EXCEPT ![j][s] = v] /\ (v = "running" => Cardinality(InSemaphore(j)) < HubQuota)
  BY DEF EnterSubtask
<1> QED BY <1>1, SubtaskMoves DEF EnterSubtask

LEMMA RaiseStep == ASSUME HubInv, NEW j \in HubJobs, NEW s \in Subtasks, RaiseSubtask(j, s) PROVE HubInv'
BY SubtaskMoves DEF RaiseSubtask

LEMMA EndStep == ASSUME HubInv, NEW j \in HubJobs, NEW s \in Subtasks, EndSubtask(j, s) PROVE HubInv'
<1>1. sub[j][s] = "running" /\ job' = job /\ quota' = quota /\ sub' = [sub EXCEPT ![j][s] = "ended"]
  BY DEF EndSubtask
<1>2. signals' = [signals EXCEPT ![j] = IF job[j].pc = "waves" THEN signals[j] + 1 ELSE signals[j]]
  BY DEF EndSubtask, HubInv, HubTables
<1>3. /\ sub' \in [HubJobs -> [Subtasks -> {"none", "queued", "running", "ended", "raised", "cancelled"}]]
      /\ \A k \in HubJobs : k # j => sub'[k] = sub[k]
      /\ \A r \in Subtasks : sub'[j][r] = IF r = s THEN "ended" ELSE sub[j][r]
  BY <1>1 DEF HubInv, HubTables
<1>4. FollowsAt(j) /\ OrderAt(j)
  BY TaskByTask DEF HubInv
<1>5. ASSUME job[j].pc = "waves"
      PROVE  s[1] = job[j].wave /\ Cardinality(EndedIn(j)') = Cardinality(EndedIn(j)) + 1 /\ Cardinality(EndedIn(j)) \in Nat
  <2>1. job[j].wave \in Nat /\ s[1] \in Nat
    BY JobsAre, SubtasksAre
  <2>2. s[1] = job[j].wave
    BY <1>1, <1>4, <1>5, <2>1 DEF FollowsAt
  <2>3. /\ EndedIn(j) \in SUBSET Subtasks /\ EndedIn(j)' \in SUBSET Subtasks
        /\ EndedIn(j) \ {s} = EndedIn(j)' \ {s} /\ s \notin EndedIn(j) /\ s \in EndedIn(j)'
    BY <1>1, <1>3, <2>2 DEF EndedIn
  <2>4. /\ Cardinality(EndedIn(j)) \in Nat
        /\ Cardinality(EndedIn(j)') = Cardinality(EndedIn(j)) - Bit(s \in EndedIn(j)) + Bit(s \in EndedIn(j)')
    BY <2>3, SubtaskCounts
  <2>5. Bit(s \in EndedIn(j)) = 0 /\ Bit(s \in EndedIn(j)') = 1
    BY <2>3 DEF Bit
  <2> QED BY <2>2, <2>4, <2>5
<1>6. ASSUME job[j].pc = "waves"
      PROVE  signals[j] + 1 \in 0..WaveWidth /\ job[j].counted + (signals[j] + 1) = Cardinality(EndedIn(j)')
  <2>1. job[j].counted \in 0..WaveWidth /\ signals[j] \in 0..WaveWidth /\ job[j].counted + signals[j] = Cardinality(EndedIn(j))
    BY <1>4, <1>6, JobsAre DEF FollowsAt
  <2>2. EndedIn(j)' \subseteq {r \in Subtasks : r[1] = job[j].wave}
    BY <1>1 DEF EndedIn
  <2>3. Cardinality(EndedIn(j)') \in 0..WaveWidth
    BY <2>2, EndedFit
  <2> QED BY <1>5, <1>6, <2>1, <2>3, HubConstants
<1>7. /\ signals' \in [HubJobs -> 0..WaveWidth]
      /\ \A k \in HubJobs : k # j => signals'[k] = signals[k]
      /\ job[j].pc = "waves" => signals'[j] = signals[j] + 1
  <2>1. (IF job[j].pc = "waves" THEN signals[j] + 1 ELSE signals[j]) \in 0..WaveWidth
    BY <1>6, JobsAre
  <2> QED BY <1>2, <2>1 DEF HubInv, HubTables
<1>8. HubTables' /\ QuotaIsExact'
  BY <1>1, <1>3, <1>7 DEF HubInv, HubTables, QuotaIsExact
<1>9. OrderAt(j)'
  <2>1. ASSUME NEW x \in Subtasks, sub'[j][x] # "none", NEW r \in Subtasks, r[1] < x[1]
        PROVE  sub'[j][r] \notin {"queued", "running"}
    <3>1. sub[j][x] # "none"
      BY <1>1, <1>3, <2>1
    <3> QED BY <1>3, <1>4, <2>1, <3>1 DEF OrderAt
  <2>2. Cardinality(InSemaphore(j)') <= HubQuota
    <3>1. /\ InSemaphore(j) \in SUBSET Subtasks /\ InSemaphore(j)' \in SUBSET Subtasks
          /\ InSemaphore(j) \ {s} = InSemaphore(j)' \ {s} /\ s \in InSemaphore(j) /\ s \notin InSemaphore(j)'
      BY <1>1, <1>3 DEF InSemaphore
    <3>2. /\ Cardinality(InSemaphore(j)) \in Nat
          /\ Cardinality(InSemaphore(j)') = Cardinality(InSemaphore(j)) - Bit(s \in InSemaphore(j)) + Bit(s \in InSemaphore(j)')
      BY <3>1, SubtaskCounts
    <3>3. Bit(s \in InSemaphore(j)) = 1 /\ Bit(s \in InSemaphore(j)') = 0
      BY <3>1 DEF Bit
    <3>4. Cardinality(InSemaphore(j)) <= HubQuota
      BY <1>4 DEF OrderAt
    <3> QED BY <3>2, <3>3, <3>4, HubConstants
  <2> QED BY <2>1, <2>2 DEF OrderAt
<1>10. FollowsAt(j)'
  <2>1. job[j].pc \notin {"new", "planning"}
    BY <1>1, <1>4 DEF FollowsAt
  <2>2. ASSUME job[j].pc = "waves"
        PROVE  /\ job[j].wave \in 1..Len(job[j].plan)
               /\ \A r \in Subtasks : /\ r[1] < job[j].wave => sub'[j][r] \notin {"queued", "running"}
                                      /\ r[1] > job[j].wave => sub'[j][r] = "none"
                                      /\ r[1] = job[j].wave /\ r[2] > job[j].plan[job[j].wave] => sub'[j][r] = "none"
    BY <1>1, <1>3, <1>4, <2>2 DEF FollowsAt
  <2>3. job[j].pc = "waves" => job'[j].counted + signals'[j] = Cardinality(EndedIn(j)')
    BY <1>1, <1>6, <1>7
  <2> QED BY <1>1, <2>1, <2>2, <2>3 DEF FollowsAt
<1>11. WavesFollow' /\ WavesInOrder'
  BY <1>1, <1>3, <1>7, <1>9, <1>10, OthersKeep
<1> QED BY <1>8, <1>11 DEF HubInv

LEMMA CountStep == ASSUME HubInv, NEW j \in HubJobs, CountSignal(j) PROVE HubInv'
<1>1. job[j].pc = "waves" /\ signals[j] > 0 /\ sub' = sub /\ quota' = quota
  BY DEF CountSignal
<1>2. /\ job' = [job EXCEPT ![j].counted = job[j].counted + 1]
      /\ signals' = [signals EXCEPT ![j] = signals[j] - 1]
  BY DEF CountSignal, HubInv, HubTables
<1>3. FollowsAt(j) /\ OrderAt(j)
  BY TaskByTask DEF HubInv
<1>4. job[j].counted + 1 \in 0..WaveWidth /\ signals[j] - 1 \in 0..WaveWidth
  <2>1. job[j].counted \in 0..WaveWidth /\ signals[j] \in 0..WaveWidth /\ job[j].counted + signals[j] = Cardinality(EndedIn(j))
    BY <1>1, <1>3, JobsAre DEF FollowsAt
  <2>2. EndedIn(j) \subseteq {r \in Subtasks : r[1] = job[j].wave}
    BY DEF EndedIn
  <2>3. Cardinality(EndedIn(j)) \in 0..WaveWidth
    BY <2>2, EndedFit
  <2> QED BY <1>1, <2>1, <2>3, HubConstants
<1>5. /\ job' \in [HubJobs -> [pc: {"new"} \union HubActive \union HubOver, tenant: HubTenants,
                               plan: Seq(1..WaveWidth), wave: 0..Waves, counted: 0..WaveWidth]]
      /\ \A k \in HubJobs : k # j => job'[k] = job[k]
      /\ job'[j].tenant = job[j].tenant /\ job'[j].pc = "waves" /\ job'[j].plan = job[j].plan
      /\ job'[j].wave = job[j].wave /\ job'[j].counted = job[j].counted + 1
  BY <1>1, <1>2, <1>4 DEF HubInv, HubTables
<1>6. /\ signals' \in [HubJobs -> 0..WaveWidth] /\ signals'[j] = signals[j] - 1
      /\ \A k \in HubJobs : k # j => signals'[k] = signals[k]
  BY <1>2, <1>4 DEF HubInv, HubTables
<1>7. HubTables'
  <2>1. \A k \in HubJobs : Len(job'[k].plan) <= Waves
    BY <1>5 DEF HubInv, HubTables
  <2> QED BY <1>1, <1>5, <1>6, <2>1 DEF HubInv, HubTables
<1>8. QuotaIsExact'
  BY <1>1, <1>5, PlaceKept DEF HubActive
<1>9. OrderAt(j)'
  BY <1>1, <1>3 DEF OrderAt, InSemaphore
<1>10. FollowsAt(j)'
  <2>1. EndedIn(j)' = EndedIn(j)
    BY <1>1, <1>5 DEF EndedIn
  <2>2. (job[j].counted + 1) + (signals[j] - 1) = job[j].counted + signals[j]
    <3>1. job[j].counted \in Int /\ signals[j] \in Int
      BY JobsAre
    <3> QED BY <3>1
  <2> QED BY <1>1, <1>3, <1>5, <1>6, <2>1, <2>2 DEF FollowsAt
<1>11. WavesFollow' /\ WavesInOrder'
  BY <1>1, <1>5, <1>6, <1>9, <1>10, OthersKeep
<1> QED BY <1>7, <1>8, <1>11 DEF HubInv

LEMMA LeaveSteps ==
    ASSUME HubInv, NEW j \in HubJobs, Aggregate(j) \/ CancelJob(j) \/ CloseJob(j)
    PROVE  HubInv'
<1>1. "done" \in HubOver /\ "failed" \in HubOver /\ "closed" \in HubOver /\ "waves" \in HubActive /\ "aggregating" \in HubActive
  BY DEF HubOver, HubActive
<1>2. CASE Aggregate(j)
  BY <1>1, <1>2, LeavesWith DEF Aggregate
<1>3. CASE CancelJob(j)
  <2>1. sub' = [sub EXCEPT ![j] = [s \in Subtasks |->
                    IF sub[j][s] \in {"queued", "running"} THEN "cancelled" ELSE sub[j][s]]]
    BY <1>3 DEF CancelJob, HubInv, HubTables
  <2> QED BY <1>1, <1>3, <2>1, LeavesWith DEF CancelJob
<1>4. CASE CloseJob(j)
  BY <1>1, <1>4, LeavesWith DEF CloseJob
<1> QED BY <1>2, <1>3, <1>4

LEMMA HubStep == ASSUME HubInv, HubNext PROVE HubInv'
BY StartStep, PlanStep, CountStep, NextWaveStep, LeaveSteps, EnterStep, RaiseStep, EndStep DEF HubNext

LEMMA HubStays == ASSUME HubInv, UNCHANGED hbVars PROVE HubInv'
<1>1. UNCHANGED <<job, sub, signals, quota>>
  BY DEF hbVars
<1>2. HubTables' /\ QuotaIsExact'
  BY <1>1 DEF HubInv, HubTables, QuotaIsExact
<1>3. WavesFollow' /\ WavesInOrder'
  BY <1>1 DEF HubInv, WavesFollow, WavesInOrder, EndedIn, InSemaphore
<1> QED BY <1>2, <1>3 DEF HubInv

----------------------------------------------------------------------------
LEMMA TeamsMean == InstanceInv /\ TracedInv /\ HubInv /\ DispatchInv => TeamsAreSound
<1> SUFFICES ASSUME InstanceInv, TracedInv, HubInv, DispatchInv PROVE TeamsAreSound
  OBVIOUS
<1>1. WfTypeOK
  <2>1. \A t \in WfTenants : traced[t].done \in 0..GraphSize /\ Len(traced[t].results) <= traced[t].done
    <3> TAKE t \in WfTenants
    <3>1. traced[t].done \in 0..GraphSize /\ Len(traced[t].results) = traced[t].done
      BY DEF TracedInv, TracedTables
    <3> QED BY <3>1, WorkflowConstants
  <2> QED BY <2>1, EditsAre DEF InstanceInv, WfTypeOK
<1>2. HubTypeOK
  BY JobsAre DEF HubInv, HubTables, HubTypeOK
<1>3. EditsStayInTheirRun
  BY DEF TracedInv, TracedTables, SessionsAreOne, EditsStayInTheirRun
<1> QED BY <1>1, <1>2, <1>3 DEF InstanceInv, HubInv, DispatchInv, TeamsAreSound

\* An outcome told is the instance's own, or the error in the row of a run of more than a
\* day, edits stay in their run, a tenant's quota is the
\* number of its tasks under way, waves run in order and under the semaphore, and a
\* sub-agent's caller is told its result or has an excuse, for any instances, graphs,
\* tenants, sessions, quotas, waves, tasks and turns (workflow_status, _check_edit_commands,
\* run_collaborative_task, get_result, cancel_all).
THEOREM TeamsStaySound == TeamsSpec => []TeamsAreSound
<1> DEFINE IInv == InstanceInv /\ TracedInv /\ HubInv /\ DispatchInv
<1>1. TeamsInit => IInv
  BY InstancesStart, TracedStarts, HubStarts, DispatchStarts DEF TeamsInit
<1>2. IInv /\ [TeamsNext]_teVars => IInv'
  <2> SUFFICES ASSUME IInv, [TeamsNext]_teVars PROVE IInv'
    OBVIOUS
  <2>1. CASE InstanceNext /\ UNCHANGED <<hbVars, dpVars>>
    BY <2>1, InstanceStep, TracedStays, HubStays, DispatchStays
  <2>2. CASE TracedNext /\ UNCHANGED <<hbVars, dpVars>>
    <3>1. TracedInv' /\ UNCHANGED <<wfTask, wfTable, wfRow, told, excused, wfCrashes>> /\ graphRow' \in BOOLEAN
      BY <2>2, TracedStep DEF runVars, InstanceInv
    <3> QED BY <2>2, <3>1, InstancesStay, HubStays, DispatchStays
  <2>3. CASE HubNext /\ UNCHANGED <<wfVars, dpVars>>
    <3>1. UNCHANGED <<wfTask, wfTable, wfRow, told, excused, wfCrashes, traced, edits>> /\ graphRow' \in BOOLEAN
      BY <2>3 DEF wfVars, InstanceInv
    <3> QED BY <2>3, <3>1, InstancesStay, TracedStays, HubStep, DispatchStays
  <2>4. CASE DispatchNext /\ UNCHANGED <<wfVars, hbVars>>
    <3>1. UNCHANGED <<wfTask, wfTable, wfRow, told, excused, wfCrashes, traced, edits>> /\ graphRow' \in BOOLEAN
      BY <2>4 DEF wfVars, InstanceInv
    <3> QED BY <2>4, <3>1, InstancesStay, TracedStays, HubStays, DispatchStep
  <2>5. CASE UNCHANGED teVars
    <3>1. UNCHANGED <<wfTask, wfTable, wfRow, told, excused, wfCrashes, traced, edits, hbVars, dpVars>> /\ graphRow' \in BOOLEAN
      BY <2>5 DEF teVars, wfVars, InstanceInv
    <3> QED BY <3>1, InstancesStay, TracedStays, HubStays, DispatchStays
  <2> QED BY <2>1, <2>2, <2>3, <2>4, <2>5 DEF TeamsNext
<1>3. IInv => TeamsAreSound
  BY TeamsMean
<1> QED BY <1>1, <1>2, <1>3, PTL DEF TeamsSpec

----------------------------------------------------------------------------
(* The functions of MessageHistory, step by step.                          *)

Msg(T) == [role: {"system", "user", "assistant", "tool"}, calls: SUBSET CallIds,
           id: CallIds \union {NoId}, tag: T]
Acc(T) == [out: Seq(Msg(T)), group: Seq(Msg(T))]
NoGroup == [out |-> <<>>, group |-> <<>>]
Unopened == [out |-> <<>>, open |-> FALSE]
Repairing(s) == Through(Repaired, NoGroup, s)
Cleaning(s) == Through(Cleaned, Unopened, s)

LEMMA FlushedIn ==
    ASSUME NEW T, NEW acc \in Acc(T)
    PROVE  Flushed(acc) \in Acc(T)
<1> DEFINE answered == {acc.group[k].id : k \in 2..Len(acc.group)}
           held == [acc.group[1] EXCEPT !.calls = @ \intersect answered]
<1>1. acc.out \in Seq(Msg(T)) /\ acc.group \in Seq(Msg(T))
  BY DEF Acc
<1>2. CASE acc.group = <<>>
  BY <1>2 DEF Flushed
<1>3. CASE acc.group # <<>>
  <2>1. 1 \in 1..Len(acc.group) /\ Tail(acc.group) \in Seq(Msg(T))
    BY <1>1, <1>3, HeadTailProperties, LenProperties
  <2>2. acc.group[1] \in Msg(T)
    BY <1>1, <2>1, ElementOfSeq
  <2>3. held \in Msg(T)
    <3> HIDE DEF answered
    <3> QED BY <2>2 DEF Msg
  <2>4. Flushed(acc) = [out |-> acc.out \o <<held>> \o Tail(acc.group), group |-> <<>>]
    BY <1>3 DEF Flushed
  <2> HIDE DEF held
  <2>5. <<held>> \in Seq(Msg(T)) /\ <<>> \in Seq(Msg(T))
    BY <2>3
  <2>6. acc.out \o <<held>> \o Tail(acc.group) \in Seq(Msg(T))
    BY <1>1, <2>1, <2>5, ConcatProperties
  <2> QED BY <2>4, <2>5, <2>6 DEF Acc
<1> QED BY <1>2, <1>3

LEMMA RepairedIn ==
    ASSUME NEW T, NEW acc \in Acc(T), NEW m \in Msg(T)
    PROVE  Repaired(acc, m) \in Acc(T)
<1>1. Flushed(acc) \in Acc(T)
  BY FlushedIn
<1>2. /\ acc.out \in Seq(Msg(T)) /\ acc.group \in Seq(Msg(T))
      /\ Flushed(acc).out \in Seq(Msg(T)) /\ Flushed(acc).group \in Seq(Msg(T))
  BY <1>1 DEF Acc
<1>3. /\ <<m>> \in Seq(Msg(T)) /\ Append(acc.group, m) \in Seq(Msg(T))
      /\ Append(Flushed(acc).out, m) \in Seq(Msg(T))
  BY <1>2, AppendProperties
<1>4. /\ [Flushed(acc) EXCEPT !.group = <<m>>] \in Acc(T)
      /\ [acc EXCEPT !.group = Append(@, m)] \in Acc(T)
      /\ [Flushed(acc) EXCEPT !.out = Append(@, m)] \in Acc(T)
  BY <1>1, <1>2, <1>3 DEF Acc
<1> QED BY <1>4 DEF Repaired

CleanAcc(T) == [out: Seq(Msg(T)), open: BOOLEAN]
LEMMA CleanedIn ==
    ASSUME NEW T, NEW acc \in CleanAcc(T), NEW m \in Msg(T)
    PROVE  Cleaned(acc, m) \in CleanAcc(T)
<1>1. acc.out \in Seq(Msg(T)) /\ acc.open \in BOOLEAN /\ Append(acc.out, m) \in Seq(Msg(T))
  BY AppendProperties DEF CleanAcc
<1> QED BY <1>1 DEF Cleaned, CleanAcc

Said(T) == {"system", "user", "assistant", "tool"} \X T

LEMMA SystemsSteps ==
    ASSUME NEW T
    PROVE  /\ Systems(<<>>) = <<>>
           /\ \A s \in Seq(Msg(T)) : Systems(s) \in Seq(Msg(T))
           /\ \A s \in Seq(Msg(T)), m \in Msg(T) : Systems(Append(s, m)) = SystemKept(Systems(s), m)
<1> DEFINE S == Msg(T)
           A == Seq(Msg(T))
           from == <<>>
           f == [x \in A \X S |-> SystemKept(x[1], x[2])]
           step(a, t) == [k \in 0..Len(t) |-> IF k = 0 THEN from ELSE SystemKept(a[k - 1], t[k])]
           loop(t) == CHOOSE a : a = step(a, t)
<1>1. from \in A
  BY EmptySeq
<1>2. \A a \in A, m \in S : SystemKept(a, m) \in A
  BY AppendProperties DEF SystemKept
<1>3. \A t : Systems(t) = loop(t)[Len(t)]
  BY DEF Systems, Through
<1> HIDE DEF from
<1>4. f \in [A \X S -> A] /\ \A a \in A, m \in S : f[<<a, m>>] = SystemKept(a, m)
  <2> HIDE DEF A, S
  <2>1. \A a \in A, m \in S : <<a, m>> \in A \X S /\ f[<<a, m>>] = SystemKept(a, m)
    OBVIOUS
  <2>2. \A x \in A \X S : SystemKept(x[1], x[2]) \in A
    BY <1>2
  <2> QED BY <2>1, <2>2
<1> HIDE DEF f, A, S
<1>5. \A t \in Seq(S) : Loops(loop(t), from, f, t, Len(t)) /\ loop(t)[Len(t)] \in A
  <2> TAKE t \in Seq(S)
  <2>1. Len(t) \in Nat /\ \A k \in 1..Len(t) : t[k] \in S
    BY LenProperties, ElementOfSeq
  <2>2. PICK g \in [0..Len(t) -> A] : Loops(g, from, f, t, Len(t))
    BY <1>1, <1>4, LoopsExist
  <2>3. g = step(g, t)
    <3>1. \A k \in 0..Len(t) : g[k] = IF k = 0 THEN from ELSE SystemKept(g[k - 1], t[k])
      <4> TAKE k \in 0..Len(t)
      <4>1. CASE k = 0
        BY <2>2, <4>1 DEF Loops
      <4>2. CASE k # 0
        <5>1. k \in 1..Len(t) /\ g[k - 1] \in A /\ t[k] \in S
          BY <2>1, <2>2, <4>2
        <5>2. g[k] = f[<<g[k - 1], t[k]>>]
          BY <2>2, <5>1 DEF Loops
        <5> QED BY <1>4, <4>2, <5>1, <5>2
      <4> QED BY <4>1, <4>2
    <3> QED BY <3>1
  <2> HIDE DEF step
  <2>4. loop(t) = step(loop(t), t)
    BY <2>3
  <2> HIDE DEF loop
  <2>5. /\ loop(t)[0] = from
        /\ \A k \in 1..Len(t) : loop(t)[k - 1] \in A => loop(t)[k] = f[<<loop(t)[k - 1], t[k]>>]
    <3>1. loop(t)[0] = from
      BY <2>1, <2>4 DEF step
    <3>2. \A k \in 1..Len(t) : loop(t)[k] = SystemKept(loop(t)[k - 1], t[k])
      BY <2>1, <2>4 DEF step
    <3> QED BY <1>4, <2>1, <3>1, <3>2
  <2>6. Loops(loop(t), from, f, t, Len(t)) /\ \A k \in 0..Len(t) : loop(t)[k] \in A
    <3>1. PICK x : x = loop(t)
      OBVIOUS
    <3>2. LoopsIn(x, from, f, t, A)
      BY <2>5, <3>1 DEF LoopsIn
    <3>3. f \in [A \X S -> A]
      BY <1>4
    <3>4. Loops(x, from, f, t, Len(t)) /\ StaysIn(x, t, A)
      BY <1>1, <3>2, <3>3, LoopsFrom
    <3> QED BY <3>1, <3>4 DEF StaysIn
  <2>7. Len(t) \in 0..Len(t)
    BY <2>1
  <2> QED BY <2>6, <2>7
<1> HIDE DEF step, loop
<1>6. Systems(<<>>) = from
  <2>1. <<>> \in Seq(S) /\ Len(<<>>) = 0
    BY EmptySeq
  <2> QED BY <1>3, <1>5, <2>1 DEF Loops
<1>7. \A s \in Seq(S), m \in S : Systems(Append(s, m)) = SystemKept(Systems(s), m)
  <2> TAKE s \in Seq(S), m \in S
  <2>1. Append(s, m) \in Seq(S) /\ Len(Append(s, m)) = Len(s) + 1
    BY Appended
  <2>2. Loops(loop(s), from, f, s, Len(s)) /\ Loops(loop(Append(s, m)), from, f, Append(s, m), Len(s) + 1)
    BY <1>5, <2>1
  <2>3. loop(Append(s, m))[Len(s) + 1] = f[<<loop(s)[Len(s)], m>>]
    <3>1. PICK x, y : x = loop(s) /\ y = loop(Append(s, m))
      OBVIOUS
    <3>2. Loops(x, from, f, s, Len(s)) /\ Loops(y, from, f, Append(s, m), Len(s) + 1)
      BY <2>2, <3>1
    <3>3. f \in [A \X S -> A]
      BY <1>4
    <3>4. StepsOn(y, x, f, s, m)
      BY <1>1, <3>2, <3>3, LoopsStep
    <3> QED BY <3>1, <3>4 DEF StepsOn
  <2>4. f[<<loop(s)[Len(s)], m>>] = SystemKept(loop(s)[Len(s)], m)
    BY <1>4, <1>5
  <2> QED BY <1>3, <2>1, <2>3, <2>4
<1>8. \A s \in Seq(S) : Systems(s) \in A
  BY <1>3, <1>5
<1> QED BY <1>6, <1>7, <1>8 DEF from, A, S

LEMMA OthersSteps ==
    ASSUME NEW T
    PROVE  /\ Others(<<>>) = <<>>
           /\ \A s \in Seq(Msg(T)) : Others(s) \in Seq(Msg(T))
           /\ \A s \in Seq(Msg(T)), m \in Msg(T) : Others(Append(s, m)) = OtherKept(Others(s), m)
<1> DEFINE S == Msg(T)
           A == Seq(Msg(T))
           from == <<>>
           f == [x \in A \X S |-> OtherKept(x[1], x[2])]
           step(a, t) == [k \in 0..Len(t) |-> IF k = 0 THEN from ELSE OtherKept(a[k - 1], t[k])]
           loop(t) == CHOOSE a : a = step(a, t)
<1>1. from \in A
  BY EmptySeq
<1>2. \A a \in A, m \in S : OtherKept(a, m) \in A
  BY AppendProperties DEF OtherKept
<1>3. \A t : Others(t) = loop(t)[Len(t)]
  BY DEF Others, Through
<1> HIDE DEF from
<1>4. f \in [A \X S -> A] /\ \A a \in A, m \in S : f[<<a, m>>] = OtherKept(a, m)
  <2> HIDE DEF A, S
  <2>1. \A a \in A, m \in S : <<a, m>> \in A \X S /\ f[<<a, m>>] = OtherKept(a, m)
    OBVIOUS
  <2>2. \A x \in A \X S : OtherKept(x[1], x[2]) \in A
    BY <1>2
  <2> QED BY <2>1, <2>2
<1> HIDE DEF f, A, S
<1>5. \A t \in Seq(S) : Loops(loop(t), from, f, t, Len(t)) /\ loop(t)[Len(t)] \in A
  <2> TAKE t \in Seq(S)
  <2>1. Len(t) \in Nat /\ \A k \in 1..Len(t) : t[k] \in S
    BY LenProperties, ElementOfSeq
  <2>2. PICK g \in [0..Len(t) -> A] : Loops(g, from, f, t, Len(t))
    BY <1>1, <1>4, LoopsExist
  <2>3. g = step(g, t)
    <3>1. \A k \in 0..Len(t) : g[k] = IF k = 0 THEN from ELSE OtherKept(g[k - 1], t[k])
      <4> TAKE k \in 0..Len(t)
      <4>1. CASE k = 0
        BY <2>2, <4>1 DEF Loops
      <4>2. CASE k # 0
        <5>1. k \in 1..Len(t) /\ g[k - 1] \in A /\ t[k] \in S
          BY <2>1, <2>2, <4>2
        <5>2. g[k] = f[<<g[k - 1], t[k]>>]
          BY <2>2, <5>1 DEF Loops
        <5> QED BY <1>4, <4>2, <5>1, <5>2
      <4> QED BY <4>1, <4>2
    <3> QED BY <3>1
  <2> HIDE DEF step
  <2>4. loop(t) = step(loop(t), t)
    BY <2>3
  <2> HIDE DEF loop
  <2>5. /\ loop(t)[0] = from
        /\ \A k \in 1..Len(t) : loop(t)[k - 1] \in A => loop(t)[k] = f[<<loop(t)[k - 1], t[k]>>]
    <3>1. loop(t)[0] = from
      BY <2>1, <2>4 DEF step
    <3>2. \A k \in 1..Len(t) : loop(t)[k] = OtherKept(loop(t)[k - 1], t[k])
      BY <2>1, <2>4 DEF step
    <3> QED BY <1>4, <2>1, <3>1, <3>2
  <2>6. Loops(loop(t), from, f, t, Len(t)) /\ \A k \in 0..Len(t) : loop(t)[k] \in A
    <3>1. PICK x : x = loop(t)
      OBVIOUS
    <3>2. LoopsIn(x, from, f, t, A)
      BY <2>5, <3>1 DEF LoopsIn
    <3>3. f \in [A \X S -> A]
      BY <1>4
    <3>4. Loops(x, from, f, t, Len(t)) /\ StaysIn(x, t, A)
      BY <1>1, <3>2, <3>3, LoopsFrom
    <3> QED BY <3>1, <3>4 DEF StaysIn
  <2>7. Len(t) \in 0..Len(t)
    BY <2>1
  <2> QED BY <2>6, <2>7
<1> HIDE DEF step, loop
<1>6. Others(<<>>) = from
  <2>1. <<>> \in Seq(S) /\ Len(<<>>) = 0
    BY EmptySeq
  <2> QED BY <1>3, <1>5, <2>1 DEF Loops
<1>7. \A s \in Seq(S), m \in S : Others(Append(s, m)) = OtherKept(Others(s), m)
  <2> TAKE s \in Seq(S), m \in S
  <2>1. Append(s, m) \in Seq(S) /\ Len(Append(s, m)) = Len(s) + 1
    BY Appended
  <2>2. Loops(loop(s), from, f, s, Len(s)) /\ Loops(loop(Append(s, m)), from, f, Append(s, m), Len(s) + 1)
    BY <1>5, <2>1
  <2>3. loop(Append(s, m))[Len(s) + 1] = f[<<loop(s)[Len(s)], m>>]
    <3>1. PICK x, y : x = loop(s) /\ y = loop(Append(s, m))
      OBVIOUS
    <3>2. Loops(x, from, f, s, Len(s)) /\ Loops(y, from, f, Append(s, m), Len(s) + 1)
      BY <2>2, <3>1
    <3>3. f \in [A \X S -> A]
      BY <1>4
    <3>4. StepsOn(y, x, f, s, m)
      BY <1>1, <3>2, <3>3, LoopsStep
    <3> QED BY <3>1, <3>4 DEF StepsOn
  <2>4. f[<<loop(s)[Len(s)], m>>] = OtherKept(loop(s)[Len(s)], m)
    BY <1>4, <1>5
  <2> QED BY <1>3, <2>1, <2>3, <2>4
<1>8. \A s \in Seq(S) : Others(s) \in A
  BY <1>3, <1>5
<1> QED BY <1>6, <1>7, <1>8 DEF from, A, S

LEMMA RolesSteps ==
    ASSUME NEW T
    PROVE  /\ RolesOf(<<>>) = <<>>
           /\ \A s \in Seq(Msg(T)) : RolesOf(s) \in Seq(Said(T))
           /\ \A s \in Seq(Msg(T)), m \in Msg(T) : RolesOf(Append(s, m)) = SaidKept(RolesOf(s), m)
<1> DEFINE S == Msg(T)
           A == Seq(Said(T))
           from == <<>>
           f == [x \in A \X S |-> SaidKept(x[1], x[2])]
           step(a, t) == [k \in 0..Len(t) |-> IF k = 0 THEN from ELSE SaidKept(a[k - 1], t[k])]
           loop(t) == CHOOSE a : a = step(a, t)
<1>1. from \in A
  BY EmptySeq
<1>2. \A a \in A, m \in S : SaidKept(a, m) \in A
  <2> TAKE a \in A, m \in S
  <2>1. <<m.role, m.tag>> \in Said(T)
    BY DEF Msg, Said
  <2> HIDE DEF S
  <2>2. Append(a, <<m.role, m.tag>>) \in A
    BY <2>1, AppendProperties
  <2> QED BY <2>2 DEF SaidKept
<1>3. \A t : RolesOf(t) = loop(t)[Len(t)]
  BY DEF RolesOf, Through
<1> HIDE DEF from
<1>4. f \in [A \X S -> A] /\ \A a \in A, m \in S : f[<<a, m>>] = SaidKept(a, m)
  <2> HIDE DEF A, S
  <2>1. \A a \in A, m \in S : <<a, m>> \in A \X S /\ f[<<a, m>>] = SaidKept(a, m)
    OBVIOUS
  <2>2. \A x \in A \X S : SaidKept(x[1], x[2]) \in A
    BY <1>2
  <2> QED BY <2>1, <2>2
<1> HIDE DEF f, A, S
<1>5. \A t \in Seq(S) : Loops(loop(t), from, f, t, Len(t)) /\ loop(t)[Len(t)] \in A
  <2> TAKE t \in Seq(S)
  <2>1. Len(t) \in Nat /\ \A k \in 1..Len(t) : t[k] \in S
    BY LenProperties, ElementOfSeq
  <2>2. PICK g \in [0..Len(t) -> A] : Loops(g, from, f, t, Len(t))
    BY <1>1, <1>4, LoopsExist
  <2>3. g = step(g, t)
    <3>1. \A k \in 0..Len(t) : g[k] = IF k = 0 THEN from ELSE SaidKept(g[k - 1], t[k])
      <4> TAKE k \in 0..Len(t)
      <4>1. CASE k = 0
        BY <2>2, <4>1 DEF Loops
      <4>2. CASE k # 0
        <5>1. k \in 1..Len(t) /\ g[k - 1] \in A /\ t[k] \in S
          BY <2>1, <2>2, <4>2
        <5>2. g[k] = f[<<g[k - 1], t[k]>>]
          BY <2>2, <5>1 DEF Loops
        <5> QED BY <1>4, <4>2, <5>1, <5>2
      <4> QED BY <4>1, <4>2
    <3> QED BY <3>1
  <2> HIDE DEF step
  <2>4. loop(t) = step(loop(t), t)
    BY <2>3
  <2> HIDE DEF loop
  <2>5. /\ loop(t)[0] = from
        /\ \A k \in 1..Len(t) : loop(t)[k - 1] \in A => loop(t)[k] = f[<<loop(t)[k - 1], t[k]>>]
    <3>1. loop(t)[0] = from
      BY <2>1, <2>4 DEF step
    <3>2. \A k \in 1..Len(t) : loop(t)[k] = SaidKept(loop(t)[k - 1], t[k])
      BY <2>1, <2>4 DEF step
    <3> QED BY <1>4, <2>1, <3>1, <3>2
  <2>6. Loops(loop(t), from, f, t, Len(t)) /\ \A k \in 0..Len(t) : loop(t)[k] \in A
    <3>1. PICK x : x = loop(t)
      OBVIOUS
    <3>2. LoopsIn(x, from, f, t, A)
      BY <2>5, <3>1 DEF LoopsIn
    <3>3. f \in [A \X S -> A]
      BY <1>4
    <3>4. Loops(x, from, f, t, Len(t)) /\ StaysIn(x, t, A)
      BY <1>1, <3>2, <3>3, LoopsFrom
    <3> QED BY <3>1, <3>4 DEF StaysIn
  <2>7. Len(t) \in 0..Len(t)
    BY <2>1
  <2> QED BY <2>6, <2>7
<1> HIDE DEF step, loop
<1>6. RolesOf(<<>>) = from
  <2>1. <<>> \in Seq(S) /\ Len(<<>>) = 0
    BY EmptySeq
  <2> QED BY <1>3, <1>5, <2>1 DEF Loops
<1>7. \A s \in Seq(S), m \in S : RolesOf(Append(s, m)) = SaidKept(RolesOf(s), m)
  <2> TAKE s \in Seq(S), m \in S
  <2>1. Append(s, m) \in Seq(S) /\ Len(Append(s, m)) = Len(s) + 1
    BY Appended
  <2>2. Loops(loop(s), from, f, s, Len(s)) /\ Loops(loop(Append(s, m)), from, f, Append(s, m), Len(s) + 1)
    BY <1>5, <2>1
  <2>3. loop(Append(s, m))[Len(s) + 1] = f[<<loop(s)[Len(s)], m>>]
    <3>1. PICK x, y : x = loop(s) /\ y = loop(Append(s, m))
      OBVIOUS
    <3>2. Loops(x, from, f, s, Len(s)) /\ Loops(y, from, f, Append(s, m), Len(s) + 1)
      BY <2>2, <3>1
    <3>3. f \in [A \X S -> A]
      BY <1>4
    <3>4. StepsOn(y, x, f, s, m)
      BY <1>1, <3>2, <3>3, LoopsStep
    <3> QED BY <3>1, <3>4 DEF StepsOn
  <2>4. f[<<loop(s)[Len(s)], m>>] = SaidKept(loop(s)[Len(s)], m)
    BY <1>4, <1>5
  <2> QED BY <1>3, <2>1, <2>3, <2>4
<1>8. \A s \in Seq(S) : RolesOf(s) \in A
  BY <1>3, <1>5
<1> QED BY <1>6, <1>7, <1>8 DEF from, A, S

LEMMA RepairingSteps ==
    ASSUME NEW T
    PROVE  /\ Repairing(<<>>) = NoGroup
           /\ \A s \in Seq(Msg(T)) : Repairing(s) \in Acc(T)
           /\ \A s \in Seq(Msg(T)), m \in Msg(T) : Repairing(Append(s, m)) = Repaired(Repairing(s), m)
<1> DEFINE S == Msg(T)
           A == Acc(T)
           from == NoGroup
           f == [x \in A \X S |-> Repaired(x[1], x[2])]
           step(a, t) == [k \in 0..Len(t) |-> IF k = 0 THEN from ELSE Repaired(a[k - 1], t[k])]
           loop(t) == CHOOSE a : a = step(a, t)
<1>1. from \in A
  BY EmptySeq DEF Repairing, NoGroup, Acc
<1>2. \A a \in A, m \in S : Repaired(a, m) \in A
  BY RepairedIn
<1>3. \A t : Repairing(t) = loop(t)[Len(t)]
  BY DEF Repairing, Through
<1> HIDE DEF from
<1>4. f \in [A \X S -> A] /\ \A a \in A, m \in S : f[<<a, m>>] = Repaired(a, m)
  <2> HIDE DEF A, S
  <2>1. \A a \in A, m \in S : <<a, m>> \in A \X S /\ f[<<a, m>>] = Repaired(a, m)
    OBVIOUS
  <2>2. \A x \in A \X S : Repaired(x[1], x[2]) \in A
    BY <1>2
  <2> QED BY <2>1, <2>2
<1> HIDE DEF f, A, S
<1>5. \A t \in Seq(S) : Loops(loop(t), from, f, t, Len(t)) /\ loop(t)[Len(t)] \in A
  <2> TAKE t \in Seq(S)
  <2>1. Len(t) \in Nat /\ \A k \in 1..Len(t) : t[k] \in S
    BY LenProperties, ElementOfSeq
  <2>2. PICK g \in [0..Len(t) -> A] : Loops(g, from, f, t, Len(t))
    BY <1>1, <1>4, LoopsExist
  <2>3. g = step(g, t)
    <3>1. \A k \in 0..Len(t) : g[k] = IF k = 0 THEN from ELSE Repaired(g[k - 1], t[k])
      <4> TAKE k \in 0..Len(t)
      <4>1. CASE k = 0
        BY <2>2, <4>1 DEF Loops
      <4>2. CASE k # 0
        <5>1. k \in 1..Len(t) /\ g[k - 1] \in A /\ t[k] \in S
          BY <2>1, <2>2, <4>2
        <5>2. g[k] = f[<<g[k - 1], t[k]>>]
          BY <2>2, <5>1 DEF Loops
        <5> QED BY <1>4, <4>2, <5>1, <5>2
      <4> QED BY <4>1, <4>2
    <3> QED BY <3>1
  <2> HIDE DEF step
  <2>4. loop(t) = step(loop(t), t)
    BY <2>3
  <2> HIDE DEF loop
  <2>5. /\ loop(t)[0] = from
        /\ \A k \in 1..Len(t) : loop(t)[k - 1] \in A => loop(t)[k] = f[<<loop(t)[k - 1], t[k]>>]
    <3>1. loop(t)[0] = from
      BY <2>1, <2>4 DEF step
    <3>2. \A k \in 1..Len(t) : loop(t)[k] = Repaired(loop(t)[k - 1], t[k])
      BY <2>1, <2>4 DEF step
    <3> QED BY <1>4, <2>1, <3>1, <3>2
  <2>6. Loops(loop(t), from, f, t, Len(t)) /\ \A k \in 0..Len(t) : loop(t)[k] \in A
    <3>1. PICK x : x = loop(t)
      OBVIOUS
    <3>2. LoopsIn(x, from, f, t, A)
      BY <2>5, <3>1 DEF LoopsIn
    <3>3. f \in [A \X S -> A]
      BY <1>4
    <3>4. Loops(x, from, f, t, Len(t)) /\ StaysIn(x, t, A)
      BY <1>1, <3>2, <3>3, LoopsFrom
    <3> QED BY <3>1, <3>4 DEF StaysIn
  <2>7. Len(t) \in 0..Len(t)
    BY <2>1
  <2> QED BY <2>6, <2>7
<1> HIDE DEF step, loop
<1>6. Repairing(<<>>) = from
  <2>1. <<>> \in Seq(S) /\ Len(<<>>) = 0
    BY EmptySeq
  <2> QED BY <1>3, <1>5, <2>1 DEF Loops
<1>7. \A s \in Seq(S), m \in S : Repairing(Append(s, m)) = Repaired(Repairing(s), m)
  <2> TAKE s \in Seq(S), m \in S
  <2>1. Append(s, m) \in Seq(S) /\ Len(Append(s, m)) = Len(s) + 1
    BY Appended
  <2>2. Loops(loop(s), from, f, s, Len(s)) /\ Loops(loop(Append(s, m)), from, f, Append(s, m), Len(s) + 1)
    BY <1>5, <2>1
  <2>3. loop(Append(s, m))[Len(s) + 1] = f[<<loop(s)[Len(s)], m>>]
    <3>1. PICK x, y : x = loop(s) /\ y = loop(Append(s, m))
      OBVIOUS
    <3>2. Loops(x, from, f, s, Len(s)) /\ Loops(y, from, f, Append(s, m), Len(s) + 1)
      BY <2>2, <3>1
    <3>3. f \in [A \X S -> A]
      BY <1>4
    <3>4. StepsOn(y, x, f, s, m)
      BY <1>1, <3>2, <3>3, LoopsStep
    <3> QED BY <3>1, <3>4 DEF StepsOn
  <2>4. f[<<loop(s)[Len(s)], m>>] = Repaired(loop(s)[Len(s)], m)
    BY <1>4, <1>5
  <2> QED BY <1>3, <2>1, <2>3, <2>4
<1>8. \A s \in Seq(S) : Repairing(s) \in A
  BY <1>3, <1>5
<1> QED BY <1>6, <1>7, <1>8 DEF from, A, S

LEMMA CleaningSteps ==
    ASSUME NEW T
    PROVE  /\ Cleaning(<<>>) = Unopened
           /\ \A s \in Seq(Msg(T)) : Cleaning(s) \in CleanAcc(T)
           /\ \A s \in Seq(Msg(T)), m \in Msg(T) : Cleaning(Append(s, m)) = Cleaned(Cleaning(s), m)
<1> DEFINE S == Msg(T)
           A == CleanAcc(T)
           from == Unopened
           f == [x \in A \X S |-> Cleaned(x[1], x[2])]
           step(a, t) == [k \in 0..Len(t) |-> IF k = 0 THEN from ELSE Cleaned(a[k - 1], t[k])]
           loop(t) == CHOOSE a : a = step(a, t)
<1>1. from \in A
  BY EmptySeq DEF Unopened, CleanAcc
<1>2. \A a \in A, m \in S : Cleaned(a, m) \in A
  BY CleanedIn
<1>3. \A t : Cleaning(t) = loop(t)[Len(t)]
  BY DEF Cleaning, Through
<1> HIDE DEF from
<1>4. f \in [A \X S -> A] /\ \A a \in A, m \in S : f[<<a, m>>] = Cleaned(a, m)
  <2> HIDE DEF A, S
  <2>1. \A a \in A, m \in S : <<a, m>> \in A \X S /\ f[<<a, m>>] = Cleaned(a, m)
    OBVIOUS
  <2>2. \A x \in A \X S : Cleaned(x[1], x[2]) \in A
    BY <1>2
  <2> QED BY <2>1, <2>2
<1> HIDE DEF f, A, S
<1>5. \A t \in Seq(S) : Loops(loop(t), from, f, t, Len(t)) /\ loop(t)[Len(t)] \in A
  <2> TAKE t \in Seq(S)
  <2>1. Len(t) \in Nat /\ \A k \in 1..Len(t) : t[k] \in S
    BY LenProperties, ElementOfSeq
  <2>2. PICK g \in [0..Len(t) -> A] : Loops(g, from, f, t, Len(t))
    BY <1>1, <1>4, LoopsExist
  <2>3. g = step(g, t)
    <3>1. \A k \in 0..Len(t) : g[k] = IF k = 0 THEN from ELSE Cleaned(g[k - 1], t[k])
      <4> TAKE k \in 0..Len(t)
      <4>1. CASE k = 0
        BY <2>2, <4>1 DEF Loops
      <4>2. CASE k # 0
        <5>1. k \in 1..Len(t) /\ g[k - 1] \in A /\ t[k] \in S
          BY <2>1, <2>2, <4>2
        <5>2. g[k] = f[<<g[k - 1], t[k]>>]
          BY <2>2, <5>1 DEF Loops
        <5> QED BY <1>4, <4>2, <5>1, <5>2
      <4> QED BY <4>1, <4>2
    <3> QED BY <3>1
  <2> HIDE DEF step
  <2>4. loop(t) = step(loop(t), t)
    BY <2>3
  <2> HIDE DEF loop
  <2>5. /\ loop(t)[0] = from
        /\ \A k \in 1..Len(t) : loop(t)[k - 1] \in A => loop(t)[k] = f[<<loop(t)[k - 1], t[k]>>]
    <3>1. loop(t)[0] = from
      BY <2>1, <2>4 DEF step
    <3>2. \A k \in 1..Len(t) : loop(t)[k] = Cleaned(loop(t)[k - 1], t[k])
      BY <2>1, <2>4 DEF step
    <3> QED BY <1>4, <2>1, <3>1, <3>2
  <2>6. Loops(loop(t), from, f, t, Len(t)) /\ \A k \in 0..Len(t) : loop(t)[k] \in A
    <3>1. PICK x : x = loop(t)
      OBVIOUS
    <3>2. LoopsIn(x, from, f, t, A)
      BY <2>5, <3>1 DEF LoopsIn
    <3>3. f \in [A \X S -> A]
      BY <1>4
    <3>4. Loops(x, from, f, t, Len(t)) /\ StaysIn(x, t, A)
      BY <1>1, <3>2, <3>3, LoopsFrom
    <3> QED BY <3>1, <3>4 DEF StaysIn
  <2>7. Len(t) \in 0..Len(t)
    BY <2>1
  <2> QED BY <2>6, <2>7
<1> HIDE DEF step, loop
<1>6. Cleaning(<<>>) = from
  <2>1. <<>> \in Seq(S) /\ Len(<<>>) = 0
    BY EmptySeq
  <2> QED BY <1>3, <1>5, <2>1 DEF Loops
<1>7. \A s \in Seq(S), m \in S : Cleaning(Append(s, m)) = Cleaned(Cleaning(s), m)
  <2> TAKE s \in Seq(S), m \in S
  <2>1. Append(s, m) \in Seq(S) /\ Len(Append(s, m)) = Len(s) + 1
    BY Appended
  <2>2. Loops(loop(s), from, f, s, Len(s)) /\ Loops(loop(Append(s, m)), from, f, Append(s, m), Len(s) + 1)
    BY <1>5, <2>1
  <2>3. loop(Append(s, m))[Len(s) + 1] = f[<<loop(s)[Len(s)], m>>]
    <3>1. PICK x, y : x = loop(s) /\ y = loop(Append(s, m))
      OBVIOUS
    <3>2. Loops(x, from, f, s, Len(s)) /\ Loops(y, from, f, Append(s, m), Len(s) + 1)
      BY <2>2, <3>1
    <3>3. f \in [A \X S -> A]
      BY <1>4
    <3>4. StepsOn(y, x, f, s, m)
      BY <1>1, <3>2, <3>3, LoopsStep
    <3> QED BY <3>1, <3>4 DEF StepsOn
  <2>4. f[<<loop(s)[Len(s)], m>>] = Cleaned(loop(s)[Len(s)], m)
    BY <1>4, <1>5
  <2> QED BY <1>3, <2>1, <2>3, <2>4
<1>8. \A s \in Seq(S) : Cleaning(s) \in A
  BY <1>3, <1>5
<1> QED BY <1>6, <1>7, <1>8 DEF from, A, S

----------------------------------------------------------------------------
(* Groups of calls and results.                                            *)

LEMMA GroupEndIs ==
    ASSUME NEW T, NEW s \in Seq(Msg(T)), NEW i \in 1..Len(s)
    PROVE  /\ GroupEnd(s, i) \in i..Len(s)
           /\ \A k \in (i + 1)..GroupEnd(s, i) : s[k].role = "tool"
           /\ GroupEnd(s, i) < Len(s) => s[GroupEnd(s, i) + 1].role # "tool"
<1> DEFINE S == {j \in i..Len(s) : \A k \in (i + 1)..j : s[k].role = "tool"}
           e == Max(S)
<1>1. Len(s) \in Nat
  BY LenProperties
<1>2. S \in SUBSET (0..Len(s)) /\ i \in S
  BY <1>1
<1>3. e = GroupEnd(s, i)
  BY DEF GroupEnd
<1> HIDE DEF S
<1>4. e \in S /\ \A x \in S : e >= x
  BY <1>1, <1>2, GreatestIs
<1> HIDE DEF e
<1>5. e \in i..Len(s) /\ \A k \in (i + 1)..e : s[k].role = "tool"
  BY <1>4 DEF S
<1>6. e < Len(s) => s[e + 1].role # "tool"
  <2> SUFFICES ASSUME e < Len(s), s[e + 1].role = "tool" PROVE FALSE
    OBVIOUS
  <2>1. e + 1 \in i..Len(s) /\ \A k \in (i + 1)..(e + 1) : k \in (i + 1)..e \/ k = e + 1
    BY <1>1, <1>5
  <2>2. e + 1 \in S
    BY <1>5, <2>1 DEF S
  <2>3. e >= e + 1 /\ e \in Int
    BY <1>1, <1>4, <1>5, <2>2
  <2> QED BY <2>3
<1> QED BY <1>3, <1>5, <1>6

LEMMA GroupEndIf ==
    ASSUME NEW T, NEW s \in Seq(Msg(T)), NEW i \in 1..Len(s), NEW e \in i..Len(s),
           \A k \in (i + 1)..e : s[k].role = "tool", e < Len(s) => s[e + 1].role # "tool"
    PROVE  GroupEnd(s, i) = e
<1> DEFINE g == GroupEnd(s, i)
<1>1. /\ g \in i..Len(s) /\ \A k \in (i + 1)..g : s[k].role = "tool"
      /\ g < Len(s) => s[g + 1].role # "tool"
  BY GroupEndIs
<1> HIDE DEF g
<1>2. Len(s) \in Nat /\ i \in Nat /\ e \in Nat /\ g \in Nat
  BY <1>1, LenProperties
<1>3. ~(g < e)
  <2> SUFFICES ASSUME g < e PROVE FALSE
    OBVIOUS
  <2>1. g + 1 \in (i + 1)..e /\ g < Len(s)
    BY <1>1, <1>2
  <2> QED BY <1>1, <2>1
<1>4. ~(e < g)
  <2> SUFFICES ASSUME e < g PROVE FALSE
    OBVIOUS
  <2>1. e + 1 \in (i + 1)..g /\ e < Len(s)
    BY <1>1, <1>2
  <2> QED BY <1>1, <2>1
<1> QED BY <1>2, <1>3, <1>4 DEF g

\* The condition that a provider puts on a history, at one place of it.
FitsAt(s, i) ==
    /\ Calls(s[i]) => s[i].calls = {s[k].id : k \in (i + 1)..GroupEnd(s, i)}
    /\ s[i].role = "tool" => i > 1 /\ (s[i - 1].role = "tool" \/ Calls(s[i - 1]))

LEMMA FitsIs == ASSUME NEW s PROVE WellFormed(s) <=> \A i \in 1..Len(s) : FitsAt(s, i)
BY DEF WellFormed, FitsAt

LEMMA JoinedFit ==
    ASSUME NEW T, NEW a \in Seq(Msg(T)), NEW b \in Seq(Msg(T)), WellFormed(a), WellFormed(b),
           b # <<>> => b[1].role # "tool"
    PROVE  a \o b \in Seq(Msg(T)) /\ WellFormed(a \o b)
<1> DEFINE s == a \o b
           n == Len(a)
           m == Len(b)
<1>1. n \in Nat /\ m \in Nat
  BY LenProperties
<1>2. s \in Seq(Msg(T)) /\ Len(s) = n + m
      /\ (\A k \in 1..n : s[k] = a[k]) /\ \A k \in 1..m : s[n + k] = b[k]
  <2>1. /\ s \in Seq(Msg(T)) /\ Len(s) = n + m
        /\ \A k \in 1..(n + m) : s[k] = IF k <= n THEN a[k] ELSE b[k - n]
    BY ConcatProperties
  <2>2. \A k \in 1..n : k \in 1..(n + m) /\ k <= n
    BY <1>1
  <2>3. \A k \in 1..m : n + k \in 1..(n + m) /\ ~(n + k <= n) /\ n + k - n = k
    BY <1>1
  <2> HIDE DEF s, n, m
  <2>4. \A k \in 1..m : s[n + k] = b[k]
    <3> TAKE k \in 1..m
    <3>1. PICK i \in 1..(n + m) : i = n + k
      BY <2>3
    <3>2. s[i] = b[i - n]
      BY <2>1, <2>3, <3>1
    <3>3. i - n = k
      BY <1>1, <3>1
    <3> QED BY <3>1, <3>2, <3>3
  <2> QED BY <2>1, <2>2, <2>4
<1>3. m > 0 => b[1].role # "tool"
  BY EmptySeq
<1> HIDE DEF s
<1>4. \A i \in 1..n : FitsAt(s, i)
  <2> TAKE i \in 1..n
  <2> DEFINE e == GroupEnd(a, i)
  <2>1. e \in i..n /\ (\A k \in (i + 1)..e : a[k].role = "tool") /\ (e < n => a[e + 1].role # "tool")
    BY GroupEndIs
  <2>2. FitsAt(a, i)
    BY FitsIs
  <2>3. Calls(a[i]) => a[i].calls = {a[k].id : k \in (i + 1)..e}
    BY <2>2 DEF FitsAt
  <2> HIDE DEF e, n, m
  <2>4. \A k \in (i + 1)..e : k \in 1..n /\ s[k] = a[k]
    BY <1>1, <1>2, <2>1
  <2>5. i \in 1..Len(s) /\ e \in i..Len(s) /\ s[i] = a[i]
    BY <1>1, <1>2, <2>1
  <2>6. e < Len(s) => s[e + 1].role # "tool"
    <3>1. CASE e < n
      BY <1>1, <1>2, <2>1, <3>1
    <3>2. CASE e = n
      <4>1. e < Len(s) => m > 0 /\ 1 \in 1..m
        BY <1>1, <1>2, <3>2
      <4> QED BY <1>2, <1>3, <3>2, <4>1
    <3> QED BY <1>1, <2>1, <3>1, <3>2
  <2>7. GroupEnd(s, i) = e
    BY <1>2, <2>1, <2>4, <2>5, <2>6, GroupEndIf
  <2>8. {a[k].id : k \in (i + 1)..e} = {s[k].id : k \in (i + 1)..e}
    BY <2>4
  <2>9. i > 1 => s[i - 1] = a[i - 1]
    BY <1>1, <1>2
  <2> QED BY <2>2, <2>3, <2>5, <2>7, <2>8, <2>9 DEF FitsAt
<1>5. \A j \in 1..m : FitsAt(s, n + j)
  <2> TAKE j \in 1..m
  <2> DEFINE e == GroupEnd(b, j)
  <2>1. e \in j..m /\ (\A k \in (j + 1)..e : b[k].role = "tool") /\ (e < m => b[e + 1].role # "tool")
    BY GroupEndIs
  <2>2. FitsAt(b, j)
    BY FitsIs
  <2>3. Calls(b[j]) => b[j].calls = {b[k].id : k \in (j + 1)..e}
    BY <2>2 DEF FitsAt
  <2> HIDE DEF e, n, m
  <2>4. \A k \in (n + j + 1)..(n + e) : k - n \in (j + 1)..e /\ s[k] = b[k - n]
    <3> TAKE k \in (n + j + 1)..(n + e)
    <3>1. k - n \in (j + 1)..e /\ k - n \in 1..m /\ n + (k - n) = k
      BY <1>1, <2>1
    <3> QED BY <1>2, <3>1
  <2>5. n + j \in 1..Len(s) /\ n + e \in (n + j)..Len(s) /\ s[n + j] = b[j]
    BY <1>1, <1>2, <2>1
  <2>6. n + e < Len(s) => s[n + e + 1].role # "tool"
    <3>1. n + e < Len(s) => e < m /\ e + 1 \in 1..m /\ n + (e + 1) = n + e + 1
      BY <1>1, <1>2, <2>1
    <3> QED BY <1>2, <2>1, <3>1
  <2>7. GroupEnd(s, n + j) = n + e
    <3>1. \A k \in (n + j + 1)..(n + e) : s[k].role = "tool"
      BY <2>1, <2>4
    <3> QED BY <1>2, <2>5, <2>6, <3>1, GroupEndIf
  <2>8. {b[k].id : k \in (j + 1)..e} = {s[k].id : k \in (n + j + 1)..(n + e)}
    <3>1. \A k \in (j + 1)..e : n + k \in (n + j + 1)..(n + e) /\ s[n + k] = b[k]
      BY <1>1, <1>2, <2>1
    <3> QED BY SMTT(40), <2>4, <3>1
  <2>9. j > 1 => s[n + j - 1] = b[j - 1] /\ n + j > 1
    <3>1. j > 1 => j - 1 \in 1..m /\ n + (j - 1) = n + j - 1 /\ n + j > 1
      BY <1>1
    <3> QED BY <1>2, <3>1
  <2>10. CASE b[j].role # "tool"
    BY <2>3, <2>5, <2>7, <2>8, <2>10 DEF FitsAt
  <2>11. CASE b[j].role = "tool"
    <3>1. j > 1 /\ (b[j - 1].role = "tool" \/ Calls(b[j - 1]))
      BY <2>2, <2>11 DEF FitsAt
    <3>2. ~Calls(s[n + j]) /\ n + j > 1 /\ s[n + j - 1] = b[j - 1]
      BY <2>5, <2>9, <2>11, <3>1 DEF Calls
    <3>3. PICK i : i = n + j
      OBVIOUS
    <3>4. ~Calls(s[i]) /\ i > 1 /\ (s[i - 1].role = "tool" \/ Calls(s[i - 1]))
      <4>1. ~Calls(s[i])
        BY <3>2, <3>3
      <4>2. i > 1
        BY <3>2, <3>3
      <4>3. s[i - 1] = b[j - 1]
        BY <1>1, <3>2, <3>3
      <4> QED BY <3>1, <4>1, <4>2, <4>3
    <3>5. FitsAt(s, i)
      BY <3>4 DEF FitsAt
    <3> QED BY <3>3, <3>5
  <2> QED BY <2>10, <2>11
<1>6. \A i \in 1..Len(s) : FitsAt(s, i)
  <2> HIDE DEF n, m
  <2>1. \A i \in 1..Len(s) : i \in 1..n \/ (i - n \in 1..m /\ n + (i - n) = i)
    BY <1>1, <1>2
  <2> QED BY <1>4, <1>5, <2>1
<1> QED BY <1>2, <1>6, FitsIs DEF s

LEMMA OneFits ==
    ASSUME NEW T, NEW m \in Msg(T), ~Calls(m), m.role # "tool"
    PROVE  <<m>> \in Seq(Msg(T)) /\ WellFormed(<<m>>)
<1> DEFINE s == <<m>>
<1>1. s \in Seq(Msg(T)) /\ Len(s) = 1 /\ s[1] = m
  OBVIOUS
<1> HIDE DEF s
<1>2. \A i \in 1..Len(s) : FitsAt(s, i)
  BY <1>1 DEF FitsAt
<1> QED BY <1>1, <1>2, FitsIs DEF s

LEMMA AppendFits ==
    ASSUME NEW T, NEW s \in Seq(Msg(T)), WellFormed(s), NEW m \in Msg(T), ~Calls(m), m.role # "tool"
    PROVE  Append(s, m) \in Seq(Msg(T)) /\ WellFormed(Append(s, m))
<1>1. <<m>> \in Seq(Msg(T)) /\ WellFormed(<<m>>) /\ <<m>>[1].role # "tool"
  BY OneFits
<1>2. s \o <<m>> \in Seq(Msg(T)) /\ WellFormed(s \o <<m>>)
  BY <1>1, JoinedFit
<1>3. Append(s, m) = s \o <<m>>
  BY AppendIsConcat
<1> QED BY <1>2, <1>3

\* A call and all its results.
LEMMA GroupFits ==
    ASSUME NEW T, NEW g \in Seq(Msg(T)), g # <<>>, g[1].role = "assistant",
           g[1].calls = {g[k].id : k \in 2..Len(g)}, \A k \in 2..Len(g) : g[k].role = "tool"
    PROVE  WellFormed(g)
<1>1. Len(g) \in Nat /\ 1 \in 1..Len(g)
  BY LenProperties, EmptySeq
<1>2. GroupEnd(g, 1) = Len(g)
  <2>1. Len(g) \in 1..Len(g) /\ ~(Len(g) < Len(g)) /\ \A k \in (1 + 1)..Len(g) : g[k].role = "tool"
    BY <1>1
  <2> QED BY <1>1, <2>1, GroupEndIf
<1>3. \A i \in 1..Len(g) : FitsAt(g, i)
  <2> TAKE i \in 1..Len(g)
  <2>1. CASE i = 1
    <3>1. (i + 1)..Len(g) = 2..Len(g)
      BY <2>1
    <3> QED BY <1>2, <2>1, <3>1 DEF FitsAt
  <2>2. CASE i # 1
    <3>1. i \in 2..Len(g) /\ i > 1 /\ (i - 1 = 1 \/ i - 1 \in 2..Len(g))
      BY <1>1, <2>2
    <3>2. g[i].role = "tool" /\ ~Calls(g[i])
      BY <3>1 DEF Calls
    <3>3. g[i - 1].role = "tool" \/ Calls(g[i - 1])
      <4>1. CASE i - 1 = 1
        <5>1. g[i].id \in g[1].calls
          BY <3>1
        <5> QED BY <4>1, <5>1 DEF Calls
      <4>2. CASE i - 1 # 1
        BY <3>1, <4>2
      <4> QED BY <4>1, <4>2
    <3> QED BY <3>1, <3>2, <3>3 DEF FitsAt
  <2> QED BY <2>1, <2>2
<1> QED BY <1>3, FitsIs

----------------------------------------------------------------------------
(* The repair.                                                             *)

\* The group that is held back: a call, and results of it.
Held(g) == g # <<>> => Calls(g[1]) /\ \A k \in 2..Len(g) : g[k].role = "tool" /\ g[k].id \in g[1].calls

LEMMA FlushedFits ==
    ASSUME NEW T, NEW acc \in Acc(T), WellFormed(acc.out), Held(acc.group)
    PROVE  Flushed(acc) \in Acc(T) /\ Flushed(acc).group = <<>> /\ WellFormed(Flushed(acc).out)
<1> DEFINE g == acc.group
           answered == {g[k].id : k \in 2..Len(g)}
           held == [g[1] EXCEPT !.calls = @ \intersect answered]
           rest == Tail(g)
           h == <<held>> \o rest
<1>1. Flushed(acc) \in Acc(T)
  BY FlushedIn
<1>2. CASE g = <<>>
  BY <1>1, <1>2 DEF Flushed
<1>3. CASE g # <<>>
  <2>1. acc.out \in Seq(Msg(T)) /\ g \in Seq(Msg(T)) /\ Len(g) \in Nat /\ 1 \in 1..Len(g) /\ g[1] \in Msg(T)
    BY <1>3, LenProperties, EmptySeq, ElementOfSeq DEF Acc
  <2>2. rest \in Seq(Msg(T)) /\ Len(rest) = Len(g) - 1 /\ \A k \in 1..Len(rest) : rest[k] = g[k + 1]
    BY <1>3, <2>1, HeadTailProperties
  <2>3. Flushed(acc).out = acc.out \o <<held>> \o rest /\ Flushed(acc).group = <<>>
    BY <1>3 DEF Flushed
  <2>4. Calls(g[1]) /\ \A k \in 2..Len(g) : g[k].role = "tool" /\ g[k].id \in g[1].calls
    BY <1>3 DEF Held
  <2>5. held \in Msg(T) /\ held.role = "assistant" /\ held.calls = answered
    <3>1. answered \subseteq g[1].calls
      BY <2>4
    <3>2. held.calls = g[1].calls \intersect answered /\ held \in Msg(T) /\ held.role = g[1].role
      <4> HIDE DEF g, answered
      <4> QED BY <2>1 DEF Msg
    <3> HIDE DEF answered, held, g
    <3> QED BY <2>4, <3>1, <3>2 DEF Calls
  <2> HIDE DEF held, g, rest
  <2>6. <<held>> \in Seq(Msg(T)) /\ Len(<<held>>) = 1 /\ <<held>>[1] = held
    BY <2>5
  <2>7. /\ h \in Seq(Msg(T)) /\ Len(h) = Len(g) /\ h[1] = held
        /\ \A k \in 2..Len(g) : h[k] = g[k]
    <3>1. /\ h \in Seq(Msg(T)) /\ Len(h) = 1 + Len(rest)
          /\ \A k \in 1..(1 + Len(rest)) : h[k] = IF k <= 1 THEN <<held>>[k] ELSE rest[k - 1]
      BY <2>2, <2>6, ConcatProperties
    <3> HIDE DEF h
    <3>2. Len(h) = Len(g) /\ 1 \in 1..(1 + Len(rest)) /\ h[1] = held
      BY <2>1, <2>2, <2>6, <3>1
    <3>3. \A k \in 2..Len(g) : h[k] = g[k]
      <4> TAKE k \in 2..Len(g)
      <4>1. k \in 1..(1 + Len(rest)) /\ ~(k <= 1) /\ k - 1 \in 1..Len(rest) /\ k - 1 + 1 = k
        BY <2>1, <2>2
      <4>2. h[k] = rest[k - 1] /\ rest[k - 1] = g[k - 1 + 1]
        BY <2>2, <3>1, <4>1
      <4> QED BY <4>1, <4>2
    <3> QED BY <3>1, <3>2, <3>3
  <2>8. acc.out \o <<held>> \o rest = acc.out \o h
    <3> DEFINE o == acc.out
               u == <<held>>
    <3>1. o \in Seq(Msg(T)) /\ u \in Seq(Msg(T)) /\ rest \in Seq(Msg(T))
      BY <2>1, <2>2, <2>6
    <3> HIDE DEF o, u
    <3>2. (o \o u) \o rest = o \o (u \o rest)
      BY <3>1, ConcatAssociative
    <3> QED BY <3>2 DEF o, u
  <2> HIDE DEF h
  <2>9. WellFormed(h) /\ h[1].role # "tool"
    <3>1. h # <<>>
      BY <2>1, <2>7, EmptySeq
    <3>2. {h[k].id : k \in 2..Len(h)} = answered
      BY <2>7
    <3>3. \A k \in 2..Len(h) : h[k].role = "tool"
      BY <2>4, <2>7
    <3>4. h[1].role = "assistant" /\ h[1].calls = {h[k].id : k \in 2..Len(h)}
      BY <2>5, <2>7, <3>2
    <3> HIDE DEF answered
    <3> QED BY <2>7, <3>1, <3>3, <3>4, GroupFits
  <2>10. WellFormed(acc.out \o h)
    BY <2>1, <2>7, <2>9, JoinedFit
  <2> QED BY <1>1, <2>3, <2>8, <2>10
<1> QED BY <1>2, <1>3

Repairable(acc) == WellFormed(acc.out) /\ Held(acc.group)

LEMMA RepairedFits ==
    ASSUME NEW T, NEW acc \in Acc(T), Repairable(acc), NEW m \in Msg(T)
    PROVE  Repairable(Repaired(acc, m))
<1>1. Flushed(acc) \in Acc(T) /\ Flushed(acc).group = <<>> /\ WellFormed(Flushed(acc).out)
  BY FlushedFits DEF Repairable
<1>2. acc.out \in Seq(Msg(T)) /\ acc.group \in Seq(Msg(T)) /\ Flushed(acc).out \in Seq(Msg(T))
  BY <1>1 DEF Acc
<1>3. CASE Calls(m)
  <2>1. Repaired(acc, m) = [Flushed(acc) EXCEPT !.group = <<m>>]
    BY <1>3 DEF Repaired
  <2>2. Repaired(acc, m).out = Flushed(acc).out /\ Repaired(acc, m).group = <<m>>
    BY <1>1, <2>1 DEF Acc
  <2>3. Held(<<m>>)
    BY <1>3 DEF Held
  <2> QED BY <1>1, <2>2, <2>3 DEF Repairable
<1>4. CASE ~Calls(m) /\ m.role = "tool" /\ acc.group # <<>> /\ m.id \in acc.group[1].calls
  <2> DEFINE g == Append(acc.group, m)
  <2>1. Repaired(acc, m) = [acc EXCEPT !.group = g]
    BY <1>4 DEF Repaired
  <2>2. Repaired(acc, m).out = acc.out /\ Repaired(acc, m).group = g
    BY <2>1 DEF Acc
  <2>3. /\ g \in Seq(Msg(T)) /\ Len(g) = Len(acc.group) + 1 /\ Len(acc.group) \in Nat
        /\ (\A i \in 1..Len(acc.group) : g[i] = acc.group[i]) /\ g[Len(acc.group) + 1] = m
        /\ 1 \in 1..Len(acc.group)
    BY <1>2, <1>4, Appended, EmptySeq
  <2> HIDE DEF g
  <2>4. \A k \in 2..Len(g) : k \in 2..Len(acc.group) \/ k = Len(acc.group) + 1
    BY <2>3
  <2>5. \A k \in 2..Len(acc.group) : k \in 1..Len(acc.group)
    OBVIOUS
  <2>6. Held(g)
    BY <1>4, <2>3, <2>4, <2>5 DEF Held, Repairable
  <2> QED BY <2>2, <2>6 DEF Repairable
<1>5. CASE ~Calls(m) /\ m.role = "tool" /\ ~(acc.group # <<>> /\ m.id \in acc.group[1].calls)
  BY <1>5 DEF Repaired
<1>6. CASE ~Calls(m) /\ m.role # "tool"
  <2>1. Repaired(acc, m) = [Flushed(acc) EXCEPT !.out = Append(@, m)]
    BY <1>6 DEF Repaired
  <2>2. Repaired(acc, m).out = Append(Flushed(acc).out, m) /\ Repaired(acc, m).group = <<>>
    BY <1>1, <2>1 DEF Acc
  <2>3. WellFormed(Append(Flushed(acc).out, m))
    BY <1>1, <1>2, <1>6, AppendFits
  <2> QED BY <2>2, <2>3 DEF Repairable, Held
<1> QED BY <1>3, <1>4, <1>5, <1>6

LEMMA EmptyFits == WellFormed(<<>>)
<1>1. Len(<<>>) = 0
  BY EmptySeq
<1> QED BY <1>1, FitsIs

LEMMA RepairFits ==
    ASSUME NEW T, NEW s \in Seq(Msg(T))
    PROVE  /\ Repairing(s) \in Acc(T) /\ Repairable(Repairing(s)) /\ EnsureValid(s) = Flushed(Repairing(s)).out
           /\ EnsureValid(s) \in Seq(Msg(T)) /\ WellFormed(EnsureValid(s))
<1> DEFINE p(k) == SubSeq(s, 1, k)
           R == {k \in 0..Len(s) : Repairable(Repairing(p(k)))}
<1>1. Len(s) \in Nat /\ p(0) = <<>> /\ p(Len(s)) = s
      /\ (\A k \in 0..Len(s) : p(k) \in Seq(Msg(T)))
      /\ \A k \in 1..Len(s) : s[k] \in Msg(T) /\ p(k) = Append(p(k - 1), s[k])
  BY PrefixesAre, LenProperties
<1> HIDE DEF p
<1>2. 0 \in R
  BY <1>1, RepairingSteps, EmptyFits DEF NoGroup, Repairable, Held
<1>3. \A k \in 1..Len(s) : k - 1 \in R => k \in R
  <2> TAKE k \in 1..Len(s)
  <2> HAVE k - 1 \in R
  <2>1. k \in 0..Len(s) /\ k - 1 \in 0..Len(s) /\ Repairable(Repairing(p(k - 1)))
    BY <1>1
  <2>2. Repairing(p(k - 1)) \in Acc(T) /\ Repairing(p(k)) = Repaired(Repairing(p(k - 1)), s[k])
    BY <1>1, <2>1, RepairingSteps
  <2> QED BY <1>1, <2>1, <2>2, RepairedFits
<1> HIDE DEF R
<1>4. \A k \in 0..Len(s) : k \in R
  BY <1>1, <1>2, <1>3, Up
<1>5. Len(s) \in 0..Len(s)
  BY <1>1
<1>6. Repairing(s) \in Acc(T) /\ Repairable(Repairing(s))
  BY <1>1, <1>4, <1>5, RepairingSteps DEF R
<1>7. EnsureValid(s) = Flushed(Repairing(s)).out
  BY DEF EnsureValid, Repairing, NoGroup
<1>8. Flushed(Repairing(s)) \in Acc(T) /\ WellFormed(Flushed(Repairing(s)).out)
  BY <1>6, FlushedFits DEF Repairable
<1> QED BY <1>6, <1>7, <1>8 DEF Acc

LEMMA ResultsSayNothing ==
    ASSUME NEW T, NEW a \in Seq(Msg(T)), NEW t \in Seq(Msg(T)), \A k \in 1..Len(t) : t[k].role = "tool"
    PROVE  RolesOf(a \o t) = RolesOf(a)
<1> DEFINE p(k) == SubSeq(t, 1, k)
           R == {k \in 0..Len(t) : RolesOf(a \o p(k)) = RolesOf(a)}
<1>1. Len(t) \in Nat /\ p(0) = <<>> /\ p(Len(t)) = t
      /\ (\A k \in 0..Len(t) : p(k) \in Seq(Msg(T)))
      /\ \A k \in 1..Len(t) : t[k] \in Msg(T) /\ p(k) = Append(p(k - 1), t[k])
  BY PrefixesAre, LenProperties
<1> HIDE DEF p
<1>2. 0 \in R
  <2>1. a \o <<>> = a
    BY ConcatEmptySeq
  <2>2. a \o p(0) = a
    BY <1>1, <2>1
  <2>3. 0 \in 0..Len(t)
    BY <1>1
  <2> QED BY <2>2, <2>3
<1>3. \A k \in 1..Len(t) : k - 1 \in R => k \in R
  <2> TAKE k \in 1..Len(t)
  <2> HAVE k - 1 \in R
  <2>1. k \in 0..Len(t) /\ k - 1 \in 0..Len(t) /\ RolesOf(a \o p(k - 1)) = RolesOf(a) /\ t[k] \in Msg(T)
    BY <1>1
  <2>2. a \o p(k) = Append(a \o p(k - 1), t[k]) /\ a \o p(k - 1) \in Seq(Msg(T))
    <3>1. PICK q \in Seq(Msg(T)) : q = p(k - 1) /\ p(k) = Append(q, t[k])
      BY <1>1, <2>1
    <3>2. a \o Append(q, t[k]) = Append(a \o q, t[k]) /\ a \o q \in Seq(Msg(T))
      BY <2>1, ConcatAppend
    <3> QED BY <3>1, <3>2
  <2>3. RolesOf(a \o p(k)) = SaidKept(RolesOf(a \o p(k - 1)), t[k])
    BY <2>1, <2>2, RolesSteps
  <2>4. RolesOf(a \o p(k)) = RolesOf(a)
    BY <2>1, <2>3 DEF SaidKept
  <2> QED BY <2>1, <2>4
<1> HIDE DEF R
<1>4. \A k \in 0..Len(t) : k \in R
  BY <1>1, <1>2, <1>3, Up
<1>5. Len(t) \in 0..Len(t)
  BY <1>1
<1> QED BY <1>1, <1>4, <1>5 DEF R

SaidBy(acc) == IF acc.group = <<>> THEN RolesOf(acc.out)
               ELSE Append(RolesOf(acc.out), <<acc.group[1].role, acc.group[1].tag>>)

LEMMA FlushedSays ==
    ASSUME NEW T, NEW acc \in Acc(T), Held(acc.group)
    PROVE  RolesOf(Flushed(acc).out) = SaidBy(acc)
<1> DEFINE g == acc.group
           answered == {g[k].id : k \in 2..Len(g)}
           held == [g[1] EXCEPT !.calls = @ \intersect answered]
           rest == Tail(g)
<1>2. CASE g = <<>>
  BY <1>2 DEF Flushed, SaidBy
<1>3. CASE g # <<>>
  <2>1. acc.out \in Seq(Msg(T)) /\ g \in Seq(Msg(T)) /\ Len(g) \in Nat /\ 1 \in 1..Len(g) /\ g[1] \in Msg(T)
    BY <1>3, LenProperties, EmptySeq, ElementOfSeq DEF Acc
  <2>2. rest \in Seq(Msg(T)) /\ Len(rest) = Len(g) - 1 /\ \A k \in 1..Len(rest) : rest[k] = g[k + 1]
    BY <1>3, <2>1, HeadTailProperties
  <2>3. Flushed(acc).out = (acc.out \o <<held>>) \o rest
    BY <1>3 DEF Flushed
  <2>4. held \in Msg(T) /\ held.role = g[1].role /\ held.tag = g[1].tag /\ g[1].role = "assistant"
    <3>1. g[1].role = "assistant"
      BY <1>3 DEF Held, Calls
    <3> HIDE DEF g, answered
    <3> QED BY <2>1, <3>1 DEF Msg
  <2>5. \A k \in 1..Len(rest) : rest[k].role = "tool"
    <3>1. \A k \in 1..Len(rest) : k + 1 \in 2..Len(g)
      BY <2>1, <2>2
    <3> QED BY <1>3, <2>2, <3>1 DEF Held
  <2> HIDE DEF held, g, rest
  <2>6. Append(acc.out, held) = acc.out \o <<held>> /\ Append(acc.out, held) \in Seq(Msg(T))
    BY <2>1, <2>4, AppendIsConcat, AppendProperties
  <2>7. RolesOf(Append(acc.out, held)) = SaidKept(RolesOf(acc.out), held)
    BY <2>1, <2>4, RolesSteps
  <2>8. RolesOf(Append(acc.out, held) \o rest) = RolesOf(Append(acc.out, held))
    BY <2>2, <2>5, <2>6, ResultsSayNothing
  <2> QED BY <1>3, <2>3, <2>4, <2>6, <2>7, <2>8 DEF SaidBy, SaidKept, g
<1> QED BY <1>2, <1>3

LEMMA RepairedSays ==
    ASSUME NEW T, NEW acc \in Acc(T), Held(acc.group), NEW m \in Msg(T)
    PROVE  SaidBy(Repaired(acc, m)) = SaidKept(SaidBy(acc), m)
<1>1. Flushed(acc) \in Acc(T) /\ RolesOf(Flushed(acc).out) = SaidBy(acc)
  BY FlushedIn, FlushedSays
<1>2. acc.out \in Seq(Msg(T)) /\ acc.group \in Seq(Msg(T)) /\ Flushed(acc).out \in Seq(Msg(T))
  BY <1>1 DEF Acc
<1>3. CASE Calls(m)
  <2>1. Repaired(acc, m) = [Flushed(acc) EXCEPT !.group = <<m>>]
    BY <1>3 DEF Repaired
  <2>2. Repaired(acc, m).out = Flushed(acc).out /\ Repaired(acc, m).group = <<m>>
    BY <1>1, <2>1 DEF Acc
  <2>3. <<m>> # <<>> /\ <<m>>[1] = m /\ m.role # "tool"
    BY <1>3 DEF Calls
  <2> QED BY <1>1, <2>2, <2>3 DEF SaidBy, SaidKept
<1>4. CASE ~Calls(m) /\ m.role = "tool" /\ acc.group # <<>> /\ m.id \in acc.group[1].calls
  <2> DEFINE g == Append(acc.group, m)
  <2>1. Repaired(acc, m) = [acc EXCEPT !.group = g]
    BY <1>4 DEF Repaired
  <2>2. Repaired(acc, m).out = acc.out /\ Repaired(acc, m).group = g
    BY <2>1 DEF Acc
  <2>3. g # <<>> /\ 1 \in 1..Len(acc.group) /\ \A i \in 1..Len(acc.group) : g[i] = acc.group[i]
    BY <1>2, <1>4, AppendProperties, EmptySeq, LenProperties
  <2>4. g[1] = acc.group[1]
    BY <2>3
  <2> HIDE DEF g
  <2> QED BY <1>4, <2>2, <2>3, <2>4 DEF SaidBy, SaidKept
<1>5. CASE ~Calls(m) /\ m.role = "tool" /\ ~(acc.group # <<>> /\ m.id \in acc.group[1].calls)
  BY <1>5 DEF Repaired, SaidKept
<1>6. CASE ~Calls(m) /\ m.role # "tool"
  <2>1. Repaired(acc, m) = [Flushed(acc) EXCEPT !.out = Append(@, m)]
    BY <1>6 DEF Repaired
  <2>2. Repaired(acc, m).out = Append(Flushed(acc).out, m) /\ Repaired(acc, m).group = Flushed(acc).group
    BY <1>1, <2>1 DEF Acc
  <2>3. Flushed(acc).group = <<>>
    BY DEF Flushed
  <2>4. RolesOf(Append(Flushed(acc).out, m)) = SaidKept(SaidBy(acc), m)
    BY <1>1, <1>2, RolesSteps
  <2> QED BY <2>2, <2>3, <2>4 DEF SaidBy
<1> QED BY <1>3, <1>4, <1>5, <1>6

LEMMA RepairSays ==
    ASSUME NEW T, NEW s \in Seq(Msg(T))
    PROVE  RolesOf(EnsureValid(s)) = RolesOf(s)
<1> DEFINE p(k) == SubSeq(s, 1, k)
           R == {k \in 0..Len(s) : SaidBy(Repairing(p(k))) = RolesOf(p(k))}
<1>1. Len(s) \in Nat /\ p(0) = <<>> /\ p(Len(s)) = s
      /\ (\A k \in 0..Len(s) : p(k) \in Seq(Msg(T)))
      /\ \A k \in 1..Len(s) : s[k] \in Msg(T) /\ p(k) = Append(p(k - 1), s[k])
  BY PrefixesAre, LenProperties
<1> HIDE DEF p
<1>2. 0 \in R
  BY <1>1, RepairingSteps DEF NoGroup, SaidBy
<1>3. \A k \in 1..Len(s) : k - 1 \in R => k \in R
  <2> TAKE k \in 1..Len(s)
  <2> HAVE k - 1 \in R
  <2>1. k \in 0..Len(s) /\ k - 1 \in 0..Len(s) /\ SaidBy(Repairing(p(k - 1))) = RolesOf(p(k - 1))
    BY <1>1
  <2>2. Repairing(p(k - 1)) \in Acc(T) /\ Repairing(p(k)) = Repaired(Repairing(p(k - 1)), s[k])
        /\ RolesOf(p(k)) = SaidKept(RolesOf(p(k - 1)), s[k])
    BY <1>1, <2>1, RepairingSteps, RolesSteps
  <2>3. Held(Repairing(p(k - 1)).group)
    BY <1>1, <2>1, RepairFits DEF Repairable
  <2>4. SaidBy(Repaired(Repairing(p(k - 1)), s[k])) = SaidKept(SaidBy(Repairing(p(k - 1))), s[k])
    BY <1>1, <2>2, <2>3, RepairedSays
  <2> QED BY <2>1, <2>2, <2>4
<1> HIDE DEF R
<1>4. \A k \in 0..Len(s) : k \in R
  BY <1>1, <1>2, <1>3, Up
<1>5. Len(s) \in 0..Len(s)
  BY <1>1
<1>6. SaidBy(Repairing(s)) = RolesOf(s)
  BY <1>1, <1>4, <1>5 DEF R
<1>7. Repairing(s) \in Acc(T) /\ Held(Repairing(s).group) /\ EnsureValid(s) = Flushed(Repairing(s)).out
  BY RepairFits DEF Repairable
<1> QED BY <1>6, <1>7, FlushedSays

\* A group with all its results goes out as it is.
LEMMA FlushKeeps ==
    ASSUME NEW T, NEW acc \in Acc(T), Held(acc.group),
           acc.group # <<>> => acc.group[1].calls \subseteq {acc.group[k].id : k \in 2..Len(acc.group)}
    PROVE  Flushed(acc).out = acc.out \o acc.group
<1> DEFINE g == acc.group
           answered == {g[k].id : k \in 2..Len(g)}
           held == [g[1] EXCEPT !.calls = @ \intersect answered]
           rest == Tail(g)
<1>1. acc.out \in Seq(Msg(T)) /\ g \in Seq(Msg(T)) /\ Len(g) \in Nat
  BY LenProperties DEF Acc
<1>2. CASE g = <<>>
  <2>1. acc.out \o <<>> = acc.out
    BY <1>1, ConcatEmptySeq
  <2> QED BY <1>2, <2>1 DEF Flushed
<1>3. CASE g # <<>>
  <2>1. 1 \in 1..Len(g) /\ g[1] \in Msg(T)
    BY <1>1, <1>3, LenProperties, EmptySeq, ElementOfSeq DEF Acc
  <2>2. Flushed(acc).out = (acc.out \o <<held>>) \o rest
    BY <1>3 DEF Flushed
  <2>3. held = g[1]
    <3>1. g[1].calls \intersect answered = g[1].calls
      BY <1>3
    <3> HIDE DEF g, answered
    <3> QED BY <2>1, <3>1 DEF Msg
  <2>4. g = <<g[1]>> \o rest /\ rest \in Seq(Msg(T)) /\ <<g[1]>> \in Seq(Msg(T))
    <3>1. rest = SubSeq(g, 2, Len(g)) /\ rest \in Seq(Msg(T))
      BY <1>1, <1>3, TailIsSubSeq, HeadTailProperties
    <3>2. 1 \in 1..Len(g) /\ Len(g) \in 1..Len(g)
      BY <1>1, <2>1
    <3> HIDE DEF g
    <3>3. SubSeq(g, 1, Len(g)) = <<g[1]>> \o SubSeq(g, 1 + 1, Len(g)) /\ SubSeq(g, 1, Len(g)) = g
      BY <1>1, <3>2, SubSeqRecursiveFirst, SubSeqFull
    <3> HIDE DEF rest
    <3> QED BY <2>1, <3>1, <3>3
  <2> HIDE DEF held, g, rest
  <2>5. (acc.out \o <<g[1]>>) \o rest = acc.out \o (<<g[1]>> \o rest)
    <3> DEFINE o == acc.out
               u == <<g[1]>>
    <3>1. o \in Seq(Msg(T)) /\ u \in Seq(Msg(T)) /\ rest \in Seq(Msg(T))
      BY <1>1, <2>4
    <3> HIDE DEF o, u
    <3>2. (o \o u) \o rest = o \o (u \o rest)
      BY <3>1, ConcatAssociative
    <3> QED BY <3>2 DEF o, u
  <2> QED BY <2>2, <2>3, <2>4, <2>5 DEF g
<1> QED BY <1>2, <1>3

\* What was read of a valid history is what went out and the group held back.
ReadOf(s, acc, k) ==
    /\ acc.out \o acc.group = SubSeq(s, 1, k)
    /\ acc.group = <<>> => k = 0 \/ (s[k].role # "tool" /\ ~Calls(s[k]))

LEMMA GroupComplete ==
    ASSUME NEW T, NEW s \in Seq(Msg(T)), WellFormed(s), NEW k \in 0..Len(s), NEW acc \in Acc(T), Held(acc.group),
           ReadOf(s, acc, k)
    PROVE  /\ k < Len(s) /\ s[k + 1].role = "tool" => acc.group # <<>> /\ s[k + 1].id \in acc.group[1].calls
           /\ (k < Len(s) => s[k + 1].role # "tool") =>
                  /\ Flushed(acc).out = SubSeq(s, 1, k)
                  /\ acc.group # <<>> => acc.group[1].calls \subseteq {acc.group[j].id : j \in 2..Len(acc.group)}
<1> DEFINE g == acc.group
           n == Len(acc.out)
<1>1. /\ acc.out \in Seq(Msg(T)) /\ g \in Seq(Msg(T)) /\ n \in Nat /\ Len(g) \in Nat /\ Len(s) \in Nat
      /\ \A i \in 1..Len(s) : FitsAt(s, i)
  BY LenProperties, FitsIs DEF Acc
<1>2. /\ n + Len(g) = k
      /\ \A j \in 1..Len(g) : s[n + j] = g[j]
  <2> DEFINE p == SubSeq(s, 1, k)
  <2>1. Len(p) = k /\ (\A i \in 1..k : p[i] = s[i]) /\ p = acc.out \o g
    BY PrefixesAre DEF ReadOf
  <2> HIDE DEF p, g
  <2>2. /\ Len(p) = n + Len(g)
        /\ \A i \in 1..(n + Len(g)) : p[i] = IF i <= n THEN acc.out[i] ELSE g[i - n]
    BY <1>1, <2>1, ConcatProperties
  <2>3. ASSUME NEW j \in 1..Len(g) PROVE s[n + j] = g[j]
    <3>1. PICK i : i = n + j
      OBVIOUS
    <3>2. i \in 1..(n + Len(g)) /\ ~(i <= n) /\ i - n = j /\ i \in 1..k
      BY <1>1, <2>1, <2>2, <3>1
    <3> QED BY <2>1, <2>2, <3>1, <3>2
  <2> QED BY <2>1, <2>2, <2>3
<1>3. CASE g = <<>>
  <2>1. Flushed(acc).out = SubSeq(s, 1, k)
    <3>1. Flushed(acc).out = acc.out \o g
      BY <1>3, FlushKeeps
    <3> QED BY <3>1 DEF ReadOf
  <2>2. k < Len(s) => s[k + 1].role # "tool"
    <3> SUFFICES ASSUME k < Len(s), s[k + 1].role = "tool" PROVE FALSE
      OBVIOUS
    <3>1. k + 1 \in 1..Len(s) /\ k + 1 - 1 = k
      BY <1>1
    <3>2. k + 1 > 1 /\ (s[k].role = "tool" \/ Calls(s[k]))
      <4>1. FitsAt(s, k + 1)
        BY <1>1, <3>1
      <4> QED BY <3>1, <4>1 DEF FitsAt
    <3>3. k # 0
      BY <3>2
    <3> QED BY <1>3, <3>2, <3>3 DEF ReadOf
  <2> QED BY <1>3, <2>1, <2>2
<1>4. CASE g # <<>>
  <2> DEFINE p == n + 1
  <2>1. /\ 1 \in 1..Len(g) /\ p \in 1..Len(s) /\ k \in p..Len(s) /\ s[p] = g[1] /\ Calls(g[1])
        /\ \A j \in 2..Len(g) : g[j].role = "tool" /\ g[j].id \in g[1].calls
    <3>1. 1 \in 1..Len(g)
      BY <1>1, <1>4, EmptySeq
    <3> HIDE DEF g, n
    <3>2. p \in 1..Len(s) /\ k \in p..Len(s) /\ s[p] = g[1]
      BY <1>1, <1>2, <3>1
    <3> QED BY <1>4, <3>1, <3>2 DEF Held, g
  <2> HIDE DEF g, n
  <2>2. \A i \in (p + 1)..k : i - n \in 2..Len(g) /\ s[i] = g[i - n]
    <3> TAKE i \in (p + 1)..k
    <3>1. PICK j : j = i - n
      OBVIOUS
    <3>2. j \in 2..Len(g) /\ j \in 1..Len(g) /\ n + j = i
      BY <1>1, <1>2, <3>1
    <3> QED BY <1>2, <3>1, <3>2
  <2>3. \A i \in (p + 1)..k : s[i].role = "tool"
    BY <2>1, <2>2
  <2>4. s[p].calls = {s[i].id : i \in (p + 1)..GroupEnd(s, p)}
    BY <1>1, <2>1 DEF FitsAt
  <2>5. ASSUME k < Len(s), s[k + 1].role = "tool" PROVE s[k + 1].id \in g[1].calls
    <3>1. GroupEnd(s, p) \in p..Len(s) /\ (GroupEnd(s, p) < Len(s) => s[GroupEnd(s, p) + 1].role # "tool")
      BY <2>1, GroupEndIs
    <3> DEFINE e == GroupEnd(s, p)
    <3> HIDE DEF e
    <3>2. ~(e < k + 1)
      <4> SUFFICES ASSUME e < k + 1 PROVE FALSE
        OBVIOUS
      <4>1. e = k \/ e + 1 \in (p + 1)..k
        BY <1>1, <2>1, <3>1 DEF e
      <4>2. e < Len(s)
        BY <1>1, <2>1, <2>5, <3>1 DEF e
      <4> QED BY <2>3, <2>5, <3>1, <4>1, <4>2 DEF e
    <3>3. k + 1 \in (p + 1)..e
      BY <1>1, <2>1, <3>1, <3>2 DEF e
    <3> HIDE DEF p
    <3> QED BY <2>1, <2>4, <3>3 DEF e
  <2>6. ASSUME k < Len(s) => s[k + 1].role # "tool"
        PROVE  Flushed(acc).out = SubSeq(s, 1, k) /\ g[1].calls \subseteq {g[j].id : j \in 2..Len(g)}
    <3>1. GroupEnd(s, p) = k
      <4> HIDE DEF p
      <4> QED BY <2>1, <2>3, <2>6, GroupEndIf
    <3>2. g[1].calls \subseteq {g[j].id : j \in 2..Len(g)}
      <4> HIDE DEF p
      <4> QED BY <2>1, <2>2, <2>4, <3>1
    <3>3. Flushed(acc).out = acc.out \o acc.group
      BY <3>2, FlushKeeps DEF g
    <3> QED BY <3>2, <3>3 DEF ReadOf
  <2> QED BY <1>4, <2>5, <2>6 DEF g
<1> QED BY <1>3, <1>4

LEMMA ReadStep ==
    ASSUME NEW T, NEW s \in Seq(Msg(T)), WellFormed(s), NEW k \in 1..Len(s),
           NEW acc \in Acc(T), Held(acc.group), ReadOf(s, acc, k - 1)
    PROVE  /\ ReadOf(s, Repaired(acc, s[k]), k)
           /\ s[k].role = "tool" => Repaired(acc, s[k]).out = acc.out
           /\ s[k].role # "tool" /\ Calls(s[k]) => Repaired(acc, s[k]).out = SubSeq(s, 1, k - 1)
           /\ s[k].role # "tool" /\ ~Calls(s[k]) => Repaired(acc, s[k]).out = SubSeq(s, 1, k)
<1> DEFINE p(i) == SubSeq(s, 1, i)
           m == s[k]
           new == Repaired(acc, m)
<1>1. /\ k \in 0..Len(s) /\ k - 1 \in 0..Len(s) /\ k - 1 + 1 = k /\ k - 1 < Len(s)
      /\ m \in Msg(T) /\ p(k) = Append(p(k - 1), m) /\ p(k - 1) \in Seq(Msg(T))
  <2>1. /\ Len(s) \in Nat /\ k \in 0..Len(s) /\ k - 1 \in 0..Len(s) /\ k - 1 + 1 = k /\ k - 1 < Len(s)
    BY LenProperties
  <2> QED BY <2>1, PrefixesAre
<1>2. /\ m.role = "tool" => acc.group # <<>> /\ m.id \in acc.group[1].calls
      /\ m.role # "tool" => Flushed(acc).out = p(k - 1)
  BY <1>1, GroupComplete
<1>3. p(k - 1) = acc.out \o acc.group
  BY DEF ReadOf
<1>4. acc.out \in Seq(Msg(T)) /\ acc.group \in Seq(Msg(T)) /\ Flushed(acc) \in Acc(T)
  BY FlushedIn DEF Acc
<1> HIDE DEF p, m
<1>5. CASE Calls(m)
  <2>1. new = [Flushed(acc) EXCEPT !.group = <<m>>] /\ m.role # "tool"
    BY <1>5 DEF Repaired, Calls
  <2>2. new.out = p(k - 1) /\ new.group = <<m>>
    BY <1>2, <1>4, <2>1 DEF Acc
  <2>3. p(k - 1) \o <<m>> = Append(p(k - 1), m)
    BY <1>1, AppendIsConcat
  <2>4. new.out \o new.group = p(k) /\ new.group # <<>>
    BY <1>1, <2>2, <2>3
  <2> HIDE DEF new
  <2>5. ReadOf(s, new, k)
    BY <2>4 DEF ReadOf, p
  <2> QED BY <1>5, <2>1, <2>2, <2>5 DEF new, m, p
<1>6. CASE m.role = "tool"
  <2>1. new = [acc EXCEPT !.group = Append(@, m)]
    BY <1>2, <1>6 DEF Repaired, Calls
  <2>2. new.out = acc.out /\ new.group = Append(acc.group, m)
    BY <2>1 DEF Acc
  <2>3. acc.out \o Append(acc.group, m) = Append(acc.out \o acc.group, m) /\ Append(acc.group, m) # <<>>
    <3> DEFINE o == acc.out
               g == acc.group
    <3>1. o \in Seq(Msg(T)) /\ g \in Seq(Msg(T)) /\ m \in Msg(T)
      BY <1>1, <1>4
    <3> HIDE DEF o, g
    <3>2. o \o Append(g, m) = Append(o \o g, m)
      BY <3>1, ConcatAppend
    <3>3. Append(g, m) # <<>>
      BY <3>1, AppendProperties
    <3> QED BY <3>2, <3>3 DEF o, g
  <2>4. new.out \o new.group = p(k) /\ new.group # <<>>
    BY <1>1, <1>3, <2>2, <2>3
  <2> HIDE DEF new
  <2>5. ReadOf(s, new, k)
    BY <2>4 DEF ReadOf, p
  <2> QED BY <1>6, <2>2, <2>5 DEF new, m, p
<1>7. CASE ~Calls(m) /\ m.role # "tool"
  <2>1. new = [Flushed(acc) EXCEPT !.out = Append(@, m)]
    BY <1>7 DEF Repaired
  <2>2. new.out = p(k) /\ new.group = Flushed(acc).group
    BY <1>1, <1>2, <1>4, <1>7, <2>1 DEF Acc
  <2>3. new.group = <<>>
    BY <2>2 DEF Flushed
  <2>4. p(k) \o <<>> = p(k)
    BY <1>1, PrefixesAre, ConcatEmptySeq DEF p
  <2>5. ReadOf(s, new, k)
    <3>1. new.out \o new.group = p(k) /\ s[k].role # "tool" /\ ~Calls(s[k])
      BY <1>7, <2>2, <2>3, <2>4 DEF m
    <3> HIDE DEF new
    <3> QED BY <3>1 DEF ReadOf, p
  <2> QED BY <1>7, <2>2, <2>5 DEF new, m, p
<1> QED BY <1>5, <1>6, <1>7 DEF new, m

LEMMA Reads ==
    ASSUME NEW T, NEW s \in Seq(Msg(T)), WellFormed(s)
    PROVE  \A k \in 0..Len(s) : /\ Repairing(SubSeq(s, 1, k)) \in Acc(T)
                                /\ Held(Repairing(SubSeq(s, 1, k)).group)
                                /\ ReadOf(s, Repairing(SubSeq(s, 1, k)), k)
<1> DEFINE p(k) == SubSeq(s, 1, k)
           R == {k \in 0..Len(s) : ReadOf(s, Repairing(p(k)), k)}
<1>1. Len(s) \in Nat /\ p(0) = <<>> /\ p(Len(s)) = s
      /\ (\A k \in 0..Len(s) : p(k) \in Seq(Msg(T)))
      /\ \A k \in 1..Len(s) : s[k] \in Msg(T) /\ p(k) = Append(p(k - 1), s[k])
  BY PrefixesAre, LenProperties
<1>2. \A k \in 0..Len(s) : Repairing(p(k)) \in Acc(T) /\ Held(Repairing(p(k)).group)
  <2> HIDE DEF p
  <2> QED BY <1>1, RepairFits DEF Repairable
<1>3. 0 \in R
  <2>1. Repairing(p(0)) = NoGroup
    BY <1>1, RepairingSteps
  <2>2. <<>> \o <<>> = <<>> /\ <<>> \in Seq(Msg(T))
    BY EmptySeq, ConcatEmptySeq
  <2>3. ReadOf(s, NoGroup, 0)
    <3>1. NoGroup.out \o NoGroup.group = <<>> /\ SubSeq(s, 1, 0) = <<>>
      BY <1>1, <2>2 DEF NoGroup
    <3> QED BY <3>1 DEF ReadOf
  <2>4. 0 \in 0..Len(s)
    BY <1>1
  <2> HIDE DEF p
  <2> QED BY <2>1, <2>3, <2>4
<1>4. \A k \in 1..Len(s) : k - 1 \in R => k \in R
  <2> TAKE k \in 1..Len(s)
  <2> HAVE k - 1 \in R
  <2>1. k \in 0..Len(s) /\ k - 1 \in 0..Len(s) /\ ReadOf(s, Repairing(p(k - 1)), k - 1)
    BY <1>1
  <2> HIDE DEF p
  <2>2. Repairing(p(k)) = Repaired(Repairing(p(k - 1)), s[k])
    BY <1>1, <2>1, RepairingSteps
  <2>3. ReadOf(s, Repaired(Repairing(p(k - 1)), s[k]), k)
    BY <1>2, <2>1, ReadStep
  <2> QED BY <2>1, <2>2, <2>3
<1> HIDE DEF R
<1>5. \A k \in 0..Len(s) : k \in R
  BY <1>1, <1>3, <1>4, Up
<1> QED BY <1>2, <1>5 DEF R

LEMMA RepairKeeps ==
    ASSUME NEW T, NEW s \in Seq(Msg(T)), WellFormed(s)
    PROVE  EnsureValid(s) = s
<1>1. Len(s) \in 0..Len(s) /\ ~(Len(s) < Len(s)) /\ SubSeq(s, 1, Len(s)) = s
  BY LenProperties, PrefixesAre
<1>2. ReadOf(s, Repairing(s), Len(s)) /\ Repairing(s) \in Acc(T) /\ Held(Repairing(s).group)
  BY <1>1, Reads
<1>3. Flushed(Repairing(s)).out = SubSeq(s, 1, Len(s))
  BY <1>1, <1>2, GroupComplete
<1>4. EnsureValid(s) = Flushed(Repairing(s)).out
  BY RepairFits
<1> QED BY <1>1, <1>3, <1>4

----------------------------------------------------------------------------
(* The last clean-up.                                                      *)

LEMMA CleanKeeps ==
    ASSUME NEW T, NEW s \in Seq(Msg(T)), WellFormed(s)
    PROVE  PreCallClean(s) = s
<1> DEFINE p(k) == SubSeq(s, 1, k)
           good(k) == /\ Cleaning(p(k)).out = p(k)
                      /\ k > 0 /\ (s[k].role = "tool" \/ Calls(s[k])) => Cleaning(p(k)).open
           R == {k \in 0..Len(s) : good(k)}
<1>1. Len(s) \in Nat /\ p(0) = <<>> /\ p(Len(s)) = s
      /\ (\A k \in 0..Len(s) : p(k) \in Seq(Msg(T)))
      /\ \A k \in 1..Len(s) : s[k] \in Msg(T) /\ p(k) = Append(p(k - 1), s[k])
  BY PrefixesAre, LenProperties
<1> HIDE DEF p
<1>2. 0 \in R
  <2>1. Cleaning(p(0)) = Unopened
    BY <1>1, CleaningSteps
  <2> QED BY <1>1, <2>1 DEF Unopened
<1>3. \A k \in 1..Len(s) : k - 1 \in R => k \in R
  <2> TAKE k \in 1..Len(s)
  <2> HAVE k - 1 \in R
  <2> DEFINE acc == Cleaning(p(k - 1))
             m == s[k]
  <2>1. k \in 0..Len(s) /\ k - 1 \in 0..Len(s) /\ acc.out = p(k - 1) /\ m \in Msg(T)
        /\ (k - 1 > 0 /\ (s[k - 1].role = "tool" \/ Calls(s[k - 1])) => acc.open)
    BY <1>1
  <2>2. acc \in CleanAcc(T) /\ Cleaning(p(k)) = Cleaned(acc, m)
    BY <1>1, <2>1, CleaningSteps
  <2>3. FitsAt(s, k)
    BY FitsIs
  <2>4. m.role = "tool" => acc.open
    <3>1. m.role = "tool" => k - 1 > 0 /\ (s[k - 1].role = "tool" \/ Calls(s[k - 1]))
      BY <1>1, <2>3 DEF FitsAt
    <3> QED BY <2>1, <3>1
  <2> HIDE DEF acc
  <2>5. Cleaned(acc, m) = [out |-> Append(acc.out, m),
                           open |-> IF m.role = "assistant" THEN m.calls # {} ELSE acc.open]
    BY <2>4 DEF Cleaned
  <2>6. Cleaning(p(k)).out = p(k)
    BY <1>1, <2>1, <2>2, <2>5
  <2>7. m.role = "tool" \/ Calls(m) => Cleaning(p(k)).open
    <3>1. Cleaning(p(k)).open = IF m.role = "assistant" THEN m.calls # {} ELSE acc.open
      BY <2>2, <2>5
    <3>2. CASE m.role = "tool"
      BY <2>4, <3>1, <3>2
    <3>3. CASE Calls(m)
      BY <3>1, <3>3 DEF Calls
    <3> QED BY <3>2, <3>3
  <2> QED BY <2>1, <2>6, <2>7
<1> HIDE DEF R
<1>4. \A k \in 0..Len(s) : k \in R
  BY <1>1, <1>2, <1>3, Up
<1>5. Len(s) \in 0..Len(s)
  BY <1>1
<1>6. Cleaning(s).out = s
  BY <1>1, <1>4, <1>5 DEF R
<1> QED BY <1>6 DEF PreCallClean, Cleaning, Unopened

----------------------------------------------------------------------------
(* System messages and the others.                                         *)

AllSystem(s) == \A k \in 1..Len(s) : s[k].role = "system"
NoSystem(s) == \A k \in 1..Len(s) : s[k].role # "system"

LEMMA SystemsAre ==
    ASSUME NEW T, NEW s \in Seq(Msg(T))
    PROVE  Systems(s) \in Seq(Msg(T)) /\ AllSystem(Systems(s)) /\ WellFormed(Systems(s))
<1> DEFINE p(k) == SubSeq(s, 1, k)
           R == {k \in 0..Len(s) : AllSystem(Systems(p(k))) /\ WellFormed(Systems(p(k)))}
<1>1. Len(s) \in Nat /\ p(0) = <<>> /\ p(Len(s)) = s
      /\ (\A k \in 0..Len(s) : p(k) \in Seq(Msg(T)))
      /\ \A k \in 1..Len(s) : s[k] \in Msg(T) /\ p(k) = Append(p(k - 1), s[k])
  BY PrefixesAre, LenProperties
<1> HIDE DEF p
<1>2. 0 \in R
  <2>1. Systems(p(0)) = <<>> /\ Len(<<>>) = 0
    BY <1>1, SystemsSteps, EmptySeq
  <2> QED BY <1>1, <2>1, EmptyFits DEF AllSystem
<1>3. \A k \in 1..Len(s) : k - 1 \in R => k \in R
  <2> TAKE k \in 1..Len(s)
  <2> HAVE k - 1 \in R
  <2> DEFINE a == Systems(p(k - 1))
             m == s[k]
  <2>1. k \in 0..Len(s) /\ k - 1 \in 0..Len(s) /\ AllSystem(a) /\ WellFormed(a) /\ m \in Msg(T)
    BY <1>1
  <2>2. a \in Seq(Msg(T)) /\ Systems(p(k)) = SystemKept(a, m)
    BY <1>1, <2>1, SystemsSteps
  <2> HIDE DEF a, m
  <2>3. CASE m.role = "system"
    <3>1. Systems(p(k)) = Append(a, m) /\ ~Calls(m) /\ m.role # "tool"
      BY <2>2, <2>3 DEF SystemKept, Calls
    <3>2. WellFormed(Append(a, m))
      BY <2>1, <2>2, <3>1, AppendFits
    <3>3. AllSystem(Append(a, m))
      BY <2>1, <2>2, <2>3, Appended DEF AllSystem
    <3> QED BY <2>1, <3>1, <3>2, <3>3
  <2>4. CASE m.role # "system"
    BY <2>1, <2>2, <2>4 DEF SystemKept
  <2> QED BY <2>3, <2>4
<1> HIDE DEF R
<1>4. \A k \in 0..Len(s) : k \in R
  BY <1>1, <1>2, <1>3, Up
<1>5. Len(s) \in 0..Len(s)
  BY <1>1
<1> QED BY <1>1, <1>4, <1>5, SystemsSteps DEF R

LEMMA OthersAre ==
    ASSUME NEW T, NEW s \in Seq(Msg(T))
    PROVE  Others(s) \in Seq(Msg(T)) /\ NoSystem(Others(s))
<1> DEFINE p(k) == SubSeq(s, 1, k)
           R == {k \in 0..Len(s) : NoSystem(Others(p(k)))}
<1>1. Len(s) \in Nat /\ p(0) = <<>> /\ p(Len(s)) = s
      /\ (\A k \in 0..Len(s) : p(k) \in Seq(Msg(T)))
      /\ \A k \in 1..Len(s) : s[k] \in Msg(T) /\ p(k) = Append(p(k - 1), s[k])
  BY PrefixesAre, LenProperties
<1> HIDE DEF p
<1>2. 0 \in R
  <2>1. Others(p(0)) = <<>> /\ Len(<<>>) = 0
    BY <1>1, OthersSteps, EmptySeq
  <2> QED BY <1>1, <2>1 DEF NoSystem
<1>3. \A k \in 1..Len(s) : k - 1 \in R => k \in R
  <2> TAKE k \in 1..Len(s)
  <2> HAVE k - 1 \in R
  <2> DEFINE a == Others(p(k - 1))
             m == s[k]
  <2>1. k \in 0..Len(s) /\ k - 1 \in 0..Len(s) /\ NoSystem(a) /\ m \in Msg(T)
    BY <1>1
  <2>2. a \in Seq(Msg(T)) /\ Others(p(k)) = OtherKept(a, m)
    BY <1>1, <2>1, OthersSteps
  <2> HIDE DEF a, m
  <2>3. CASE m.role # "system"
    <3>1. Others(p(k)) = Append(a, m)
      BY <2>2, <2>3 DEF OtherKept
    <3>2. /\ Len(Append(a, m)) = Len(a) + 1 /\ (\A i \in 1..Len(a) : Append(a, m)[i] = a[i]) /\ Append(a, m)[Len(a) + 1] = m
          /\ \A i \in 1..(Len(a) + 1) : i \in 1..Len(a) \/ i = Len(a) + 1
      BY <2>1, <2>2, Appended
    <3>3. NoSystem(Append(a, m))
      BY <2>1, <2>3, <3>2 DEF NoSystem
    <3> QED BY <2>1, <3>1, <3>3
  <2>4. CASE m.role = "system"
    BY <2>1, <2>2, <2>4 DEF OtherKept
  <2> QED BY <2>3, <2>4
<1> HIDE DEF R
<1>4. \A k \in 0..Len(s) : k \in R
  BY <1>1, <1>2, <1>3, Up
<1>5. Len(s) \in 0..Len(s)
  BY <1>1
<1> QED BY <1>1, <1>4, <1>5, OthersSteps DEF R

LEMMA SystemsOnly ==
    ASSUME NEW T, NEW s \in Seq(Msg(T)), AllSystem(s)
    PROVE  Systems(s) = s /\ Others(s) = <<>>
<1> DEFINE p(k) == SubSeq(s, 1, k)
           R == {k \in 0..Len(s) : Systems(p(k)) = p(k) /\ Others(p(k)) = <<>>}
<1>1. Len(s) \in Nat /\ p(0) = <<>> /\ p(Len(s)) = s
      /\ (\A k \in 0..Len(s) : p(k) \in Seq(Msg(T)))
      /\ \A k \in 1..Len(s) : s[k] \in Msg(T) /\ p(k) = Append(p(k - 1), s[k])
  BY PrefixesAre, LenProperties
<1> HIDE DEF p
<1>2. 0 \in R
  BY <1>1, SystemsSteps, OthersSteps
<1>3. \A k \in 1..Len(s) : k - 1 \in R => k \in R
  <2> TAKE k \in 1..Len(s)
  <2> HAVE k - 1 \in R
  <2>1. k \in 0..Len(s) /\ k - 1 \in 0..Len(s) /\ s[k].role = "system"
        /\ Systems(p(k - 1)) = p(k - 1) /\ Others(p(k - 1)) = <<>>
    BY <1>1 DEF AllSystem
  <2>2. Systems(p(k)) = SystemKept(p(k - 1), s[k]) /\ Others(p(k)) = OtherKept(<<>>, s[k])
    BY <1>1, <2>1, SystemsSteps, OthersSteps
  <2> QED BY <1>1, <2>1, <2>2 DEF SystemKept, OtherKept
<1> HIDE DEF R
<1>4. \A k \in 0..Len(s) : k \in R
  BY <1>1, <1>2, <1>3, Up
<1>5. Len(s) \in 0..Len(s)
  BY <1>1
<1> QED BY <1>1, <1>4, <1>5 DEF R

LEMMA OthersAfter ==
    ASSUME NEW T, NEW a \in Seq(Msg(T)), NEW s \in Seq(Msg(T)), NoSystem(s)
    PROVE  Systems(a \o s) = Systems(a) /\ Others(a \o s) = Others(a) \o s
<1> DEFINE p(k) == SubSeq(s, 1, k)
           R == {k \in 0..Len(s) : Systems(a \o p(k)) = Systems(a) /\ Others(a \o p(k)) = Others(a) \o p(k)}
<1>1. Len(s) \in Nat /\ p(0) = <<>> /\ p(Len(s)) = s
      /\ (\A k \in 0..Len(s) : p(k) \in Seq(Msg(T)))
      /\ \A k \in 1..Len(s) : s[k] \in Msg(T) /\ p(k) = Append(p(k - 1), s[k])
  BY PrefixesAre, LenProperties
<1> HIDE DEF p
<1>2. 0 \in R
  <2>1. a \o <<>> = a /\ Others(a) \o <<>> = Others(a)
    BY ConcatEmptySeq, OthersSteps
  <2>2. a \o p(0) = a
    BY <1>1, <2>1
  <2>3. Others(a) \o p(0) = Others(a)
    BY <1>1, <2>1
  <2>4. 0 \in 0..Len(s)
    BY <1>1
  <2> QED BY <2>2, <2>3, <2>4
<1>3. \A k \in 1..Len(s) : k - 1 \in R => k \in R
  <2> TAKE k \in 1..Len(s)
  <2> HAVE k - 1 \in R
  <2> DEFINE m == s[k]
  <2>1. k \in 0..Len(s) /\ k - 1 \in 0..Len(s) /\ m \in Msg(T) /\ m.role # "system"
        /\ Systems(a \o p(k - 1)) = Systems(a) /\ Others(a \o p(k - 1)) = Others(a) \o p(k - 1)
    BY SMTT(40), <1>1 DEF NoSystem
  <2>2. PICK q \in Seq(Msg(T)) : q = p(k - 1) /\ p(k) = Append(q, m)
    BY <1>1, <2>1
  <2>3. PICK o \in Seq(Msg(T)) : o = Others(a)
    BY OthersSteps
  <2> HIDE DEF m
  <2>4. /\ a \o Append(q, m) = Append(a \o q, m) /\ a \o q \in Seq(Msg(T))
        /\ o \o Append(q, m) = Append(o \o q, m)
    <3>1. a \o Append(q, m) = Append(a \o q, m) /\ a \o q \in Seq(Msg(T))
      BY <2>1, ConcatAppend
    <3>2. o \o Append(q, m) = Append(o \o q, m)
      BY <2>1, ConcatAppend
    <3> QED BY <3>1, <3>2
  <2>5. Systems(a \o p(k)) = SystemKept(Systems(a), m) /\ Others(a \o p(k)) = OtherKept(o \o q, m)
    <3>1. PICK w \in Seq(Msg(T)) : w = a \o q
      BY <2>4
    <3>2. Systems(Append(w, m)) = SystemKept(Systems(w), m) /\ Others(Append(w, m)) = OtherKept(Others(w), m)
      BY <2>1, SystemsSteps, OthersSteps
    <3>3. Systems(w) = Systems(a) /\ Others(w) = o \o q
      BY <2>1, <2>2, <2>3, <3>1
    <3>4. a \o p(k) = Append(w, m)
      BY <2>2, <2>4, <3>1
    <3> QED BY <3>2, <3>3, <3>4
  <2> QED BY <2>1, <2>2, <2>3, <2>4, <2>5 DEF SystemKept, OtherKept
<1> HIDE DEF R
<1>4. \A k \in 0..Len(s) : k \in R
  BY <1>1, <1>2, <1>3, Up
<1>5. Len(s) \in 0..Len(s)
  BY <1>1
<1>6. Systems(a \o p(Len(s))) = Systems(a) /\ Others(a \o p(Len(s))) = Others(a) \o p(Len(s))
  BY <1>4, <1>5 DEF R
<1>7. p(Len(s)) = s
  BY <1>1
<1> HIDE DEF p
<1> QED BY <1>6, <1>7

LEMMA OthersFit ==
    ASSUME NEW T, NEW s \in Seq(Msg(T)), WellFormed(s)
    PROVE  WellFormed(Others(s))
<1> DEFINE p(k) == SubSeq(s, 1, k)
           acc(k) == Repairing(p(k))
           R == {k \in 0..Len(s) : WellFormed(Others(acc(k).out))}
<1>1. Len(s) \in Nat /\ p(0) = <<>> /\ p(Len(s)) = s
      /\ (\A k \in 0..Len(s) : p(k) \in Seq(Msg(T)))
      /\ \A k \in 1..Len(s) : s[k] \in Msg(T) /\ p(k) = Append(p(k - 1), s[k])
  BY PrefixesAre, LenProperties
<1>2. \A k \in 0..Len(s) : acc(k) \in Acc(T) /\ Held(acc(k).group) /\ ReadOf(s, acc(k), k)
  BY Reads
<1>3. \A k \in 1..Len(s) : acc(k) = Repaired(acc(k - 1), s[k])
  <2> TAKE k \in 1..Len(s)
  <2>1. k - 1 \in 0..Len(s) /\ p(k) = Append(p(k - 1), s[k]) /\ p(k - 1) \in Seq(Msg(T)) /\ s[k] \in Msg(T)
    BY <1>1
  <2> HIDE DEF p
  <2> QED BY <2>1, RepairingSteps
\* Without its system messages a prefix that ends no group is valid.
<1>4. \A k \in 0..Len(s) : k \in R /\ (k < Len(s) => s[k + 1].role # "tool") => WellFormed(Others(p(k)))
  <2> TAKE k \in 0..Len(s)
  <2> HAVE k \in R /\ (k < Len(s) => s[k + 1].role # "tool")
  <2> DEFINE o == acc(k).out
             g == acc(k).group
  <2>1. o \in Seq(Msg(T)) /\ g \in Seq(Msg(T)) /\ Held(g) /\ Len(g) \in Nat /\ WellFormed(Others(o))
    BY <1>2, LenProperties DEF Acc
  <2>2. p(k) = o \o g
    BY <1>2 DEF ReadOf
  <2>3. g # <<>> => g[1].calls \subseteq {g[j].id : j \in 2..Len(g)}
    BY <1>2, GroupComplete
  <2> HIDE DEF o, g, p
  <2>4. WellFormed(g) /\ NoSystem(g) /\ (g # <<>> => g[1].role # "tool")
    <3>1. CASE g = <<>>
      BY <3>1, EmptyFits, EmptySeq DEF NoSystem
    <3>2. CASE g # <<>>
      <4>1. Calls(g[1]) /\ \A j \in 2..Len(g) : g[j].role = "tool" /\ g[j].id \in g[1].calls
        BY <2>1, <3>2 DEF Held
      <4>2. g[1].calls = {g[j].id : j \in 2..Len(g)}
        BY <2>3, <3>2, <4>1
      <4>3. g[1].role = "assistant"
        BY <4>1 DEF Calls
      <4>4. WellFormed(g)
        BY <2>1, <3>2, <4>1, <4>2, <4>3, GroupFits
      <4>5. NoSystem(g)
        <5>1. \A j \in 1..Len(g) : j = 1 \/ j \in 2..Len(g)
          BY <2>1
        <5> QED BY <4>1, <4>3, <5>1 DEF NoSystem
      <4> QED BY <4>3, <4>4, <4>5
    <3> QED BY <3>1, <3>2
  <2>5. Others(o \o g) = Others(o) \o g /\ Others(o) \in Seq(Msg(T))
    BY <2>1, <2>4, OthersAfter, OthersSteps
  <2>6. WellFormed(Others(o) \o g)
    BY <2>1, <2>4, <2>5, JoinedFit
  <2> QED BY <2>2, <2>5, <2>6
<1>5. 0 \in R
  <2>1. acc(0) = NoGroup
    BY <1>1, RepairingSteps
  <2>2. Others(acc(0).out) = <<>> /\ 0 \in 0..Len(s)
    BY <1>1, <2>1, OthersSteps DEF NoGroup
  <2> HIDE DEF acc
  <2> QED BY <2>2, EmptyFits
<1>6. \A k \in 1..Len(s) : k - 1 \in R => k \in R
  <2> TAKE k \in 1..Len(s)
  <2> HAVE k - 1 \in R
  <2> DEFINE m == s[k]
  <2>1. /\ k \in 0..Len(s) /\ k - 1 \in 0..Len(s) /\ k - 1 + 1 = k /\ m \in Msg(T)
        /\ p(k) = Append(p(k - 1), m) /\ p(k - 1) \in Seq(Msg(T)) /\ WellFormed(Others(acc(k - 1).out))
    BY <1>1
  <2>2. acc(k - 1) \in Acc(T) /\ Held(acc(k - 1).group) /\ ReadOf(s, acc(k - 1), k - 1) /\ acc(k) = Repaired(acc(k - 1), m)
    BY <1>2, <1>3, <2>1
  <2>3. m.role # "tool" => WellFormed(Others(p(k - 1)))
    BY <1>4, <2>1
  <2> HIDE DEF acc, R
  <2>4. /\ m.role = "tool" => acc(k).out = acc(k - 1).out
        /\ m.role # "tool" /\ Calls(m) => acc(k).out = p(k - 1)
        /\ m.role # "tool" /\ ~Calls(m) => acc(k).out = p(k)
    BY <2>2, ReadStep
  <2> HIDE DEF p, m
  <2>5. WellFormed(Others(acc(k).out))
    <3>1. CASE m.role = "tool" \/ Calls(m)
      BY <2>1, <2>3, <2>4, <3>1
    <3>2. CASE m.role # "tool" /\ ~Calls(m)
      <4>1. Others(p(k)) = OtherKept(Others(p(k - 1)), m) /\ Others(p(k - 1)) \in Seq(Msg(T))
        BY <2>1, OthersSteps
      <4>2. WellFormed(Append(Others(p(k - 1)), m))
        BY <2>1, <2>3, <3>2, <4>1, AppendFits
      <4> QED BY <2>3, <2>4, <3>2, <4>1, <4>2 DEF OtherKept
    <3> QED BY <3>1, <3>2
  <2> QED BY <2>1, <2>5 DEF R
<1>7. Len(s) \in 0..Len(s) /\ ~(Len(s) < Len(s))
  BY <1>1
<1> HIDE DEF R
<1>8. \A k \in 0..Len(s) : k \in R
  BY <1>1, <1>5, <1>6, Up
<1> QED BY <1>1, <1>4, <1>7, <1>8

----------------------------------------------------------------------------
(* Pruning: where the kept part starts.                                    *)

\* The kept part from b on does not start with a result.
Opens(s, b) == b < Len(s) => s[b + 1].role # "tool"
SuffixIs(r, s, b) ==
    Len(r) = Len(s) - b /\ \A i \in 1..(Len(s) - b) : r[i] = s[b + i]

LEMMA SuffixFits ==
    ASSUME NEW T, NEW s \in Seq(Msg(T)), WellFormed(s), NEW b \in 0..Len(s), Opens(s, b),
           NEW r \in Seq(Msg(T)), SuffixIs(r, s, b)
    PROVE  /\ WellFormed(r)
           /\ \A i \in 1..Len(r) : GroupEnd(r, i) = GroupEnd(s, b + i) - b
<1>1. Len(s) \in Nat /\ Len(r) = Len(s) - b /\ Len(r) \in Nat /\ \A i \in 1..Len(r) : r[i] = s[b + i] /\ b + i \in 1..Len(s)
  BY LenProperties DEF SuffixIs
<1>2. \A i \in 1..Len(r) :
        GroupEnd(s, b + i) - b \in i..Len(r) /\ GroupEnd(r, i) = GroupEnd(s, b + i) - b
  <2> TAKE i \in 1..Len(r)
  <2>1. PICK j \in 1..Len(s) : j = b + i
    BY <1>1
  <2>2. PICK e : e = GroupEnd(s, j)
    OBVIOUS
  <2>3. e \in j..Len(s) /\ (\A k \in (j + 1)..e : s[k].role = "tool") /\ (e < Len(s) => s[e + 1].role # "tool")
    BY <2>2, GroupEndIs
  <2>4. PICK f \in i..Len(r) : f = e - b
    BY <1>1, <2>1, <2>3
  <2>5. \A k \in (i + 1)..f : r[k].role = "tool"
    <3> TAKE k \in (i + 1)..f
    <3>1. k \in 1..Len(r) /\ b + k \in (j + 1)..e
      BY <1>1, <2>1, <2>3, <2>4
    <3> QED BY <1>1, <2>3, <3>1
  <2>6. f < Len(r) => r[f + 1].role # "tool"
    <3> HAVE f < Len(r)
    <3>1. f + 1 \in 1..Len(r) /\ b + (f + 1) = e + 1 /\ e < Len(s)
      BY <1>1, <2>1, <2>3, <2>4
    <3> QED BY <1>1, <2>3, <3>1
  <2>7. GroupEnd(r, i) = f
    BY <2>5, <2>6, GroupEndIf
  <2> QED BY <2>1, <2>2, <2>4, <2>7
<1>3. \A i \in 1..Len(r) : FitsAt(r, i)
  <2> TAKE i \in 1..Len(r)
  <2>1. PICK j \in 1..Len(s) : j = b + i /\ r[i] = s[j]
    BY <1>1
  <2>2. FitsAt(s, j)
    BY FitsIs
  <2>3. PICK e : e = GroupEnd(s, j)
    OBVIOUS
  <2>4. e \in j..Len(s) /\ e - b \in i..Len(r) /\ GroupEnd(r, i) = e - b
    BY <1>2, <2>1, <2>3, GroupEndIs
  <2>5. Calls(r[i]) => r[i].calls = {r[k].id : k \in (i + 1)..GroupEnd(r, i)}
    <3> HAVE Calls(r[i])
    <3>1. r[i].calls = {s[k].id : k \in (j + 1)..e}
      BY <2>1, <2>2, <2>3 DEF FitsAt
    <3>2. \A k \in (i + 1)..(e - b) : b + k \in (j + 1)..e /\ r[k] = s[b + k]
      BY <1>1, <2>1, <2>4
    <3>3. \A k \in (j + 1)..e : k - b \in (i + 1)..(e - b) /\ r[k - b] = s[k]
      <4> TAKE k \in (j + 1)..e
      <4>0. b \in Nat /\ i \in Nat /\ j = b + i /\ e \in Nat /\ k \in Nat /\ j + 1 <= k /\ k <= e
            /\ Len(r) \in Nat /\ e - b <= Len(r) /\ 1 <= i
        BY SMTT(30), <1>1, <2>1, <2>4
      <4>1. k - b \in (i + 1)..(e - b) /\ k - b \in 1..Len(r) /\ b + (k - b) = k
        BY <4>0
      <4>2. PICK l \in 1..Len(r) : l = k - b
        BY <4>1
      <4>3. r[l] = s[b + l] /\ b + l = k
        BY <1>1, <4>1, <4>2
      <4> QED BY <4>1, <4>2, <4>3
    <3>4. {s[k].id : k \in (j + 1)..e} = {r[k].id : k \in (i + 1)..(e - b)}
      <4>1. \A x \in {s[k].id : k \in (j + 1)..e} : x \in {r[k].id : k \in (i + 1)..(e - b)}
        <5> TAKE x \in {s[k].id : k \in (j + 1)..e}
        <5>1. PICK k \in (j + 1)..e : x = s[k].id
          OBVIOUS
        <5>2. PICK l \in (i + 1)..(e - b) : r[l] = s[k]
          BY <3>3
        <5> QED BY <5>1, <5>2
      <4>2. \A x \in {r[k].id : k \in (i + 1)..(e - b)} : x \in {s[k].id : k \in (j + 1)..e}
        <5> TAKE x \in {r[k].id : k \in (i + 1)..(e - b)}
        <5>1. PICK k \in (i + 1)..(e - b) : x = r[k].id
          OBVIOUS
        <5>2. PICK l \in (j + 1)..e : r[k] = s[l]
          BY <3>2
        <5> QED BY <5>1, <5>2
      <4> QED BY <4>1, <4>2
    <3> QED BY <2>4, <3>1, <3>4
  <2>6. r[i].role = "tool" => i > 1 /\ (r[i - 1].role = "tool" \/ Calls(r[i - 1]))
    <3> HAVE r[i].role = "tool"
    <3>1. j > 1 /\ (s[j - 1].role = "tool" \/ Calls(s[j - 1]))
      BY <2>1, <2>2 DEF FitsAt
    <3>2. i # 1
      <4> SUFFICES ASSUME i = 1 PROVE FALSE
        OBVIOUS
      <4>1. j = b + 1 /\ b < Len(s)
        BY <1>1, <2>1
      <4> QED BY <2>1, <4>1 DEF Opens
    <3>3. i > 1 /\ i - 1 \in 1..Len(r) /\ b + (i - 1) = j - 1
      BY <1>1, <2>1, <3>2
    <3>4. r[i - 1] = s[j - 1]
      BY <1>1, <3>3
    <3> QED BY <3>1, <3>3, <3>4
  <2> QED BY <2>5, <2>6 DEF FitsAt
<1> QED BY <1>2, <1>3, FitsIs

\* The call that a result belongs to.
CallOf(s, i, c) == c < i /\ Calls(s[c]) /\ \A k \in (c + 1)..i : s[k].role = "tool"

LEMMA ResultsHaveCalls ==
    ASSUME NEW T, NEW s \in Seq(Msg(T)), WellFormed(s), NEW i \in 1..Len(s), s[i].role = "tool"
    PROVE  \E c \in 1..Len(s) : CallOf(s, i, c)
<1> DEFINE R == {k \in 0..Len(s) : k = 0 \/ (s[k].role = "tool" => \E c \in 1..Len(s) : CallOf(s, k, c))}
<1>1. Len(s) \in Nat /\ 0 \in R
  BY LenProperties
<1>2. \A k \in 1..Len(s) : k - 1 \in R => k \in R
  <2> TAKE k \in 1..Len(s)
  <2> HAVE k - 1 \in R
  <2> SUFFICES ASSUME s[k].role = "tool" PROVE \E c \in 1..Len(s) : CallOf(s, k, c)
    OBVIOUS
  <2>1. k > 1 /\ (s[k - 1].role = "tool" \/ Calls(s[k - 1]))
    BY FitsIs DEF FitsAt
  <2>2. k - 1 \in 1..Len(s) /\ k - 1 # 0
    BY <2>1
  <2>3. CASE Calls(s[k - 1])
    <3>1. \A j \in (k - 1 + 1)..k : j = k
      OBVIOUS
    <3>2. CallOf(s, k, k - 1)
      BY <2>2, <2>3, <3>1 DEF CallOf
    <3> QED BY <2>2, <3>2
  <2>4. CASE s[k - 1].role = "tool"
    <3>1. PICK c \in 1..Len(s) : CallOf(s, k - 1, c)
      BY <2>2, <2>4
    <3>2. \A j \in (c + 1)..k : j = k \/ j \in (c + 1)..(k - 1)
      OBVIOUS
    <3>3. CallOf(s, k, c)
      BY <2>2, <3>1, <3>2 DEF CallOf
    <3> QED BY <3>3
  <2> QED BY <2>1, <2>3, <2>4
<1> HIDE DEF R
<1>3. \A k \in 0..Len(s) : k \in R
  BY <1>1, <1>2, Up
<1>4. i \in R /\ i # 0
  BY <1>3
<1> QED BY <1>4 DEF R

PairIn(s, i) == Max({0} \union {j \in 1..(i - 1) : Calls(s[j])})
UnpairedIn(s, b) == {i \in (b + 1)..Len(s) :
    s[i].role = "tool" /\ ~(i > b + 1 /\ Calls(s[i - 1])) /\ PairIn(s, i) > 0}
NeedIn(s, b) == Min({b} \union {PairIn(s, i) - 1 : i \in UnpairedIn(s, b)})

LEMMA PairIs ==
    ASSUME NEW T, NEW s \in Seq(Msg(T)), NEW i \in 1..Len(s), NEW c \in 1..Len(s), CallOf(s, i, c)
    PROVE  PairIn(s, i) = c
<1> DEFINE S == {0} \union {j \in 1..(i - 1) : Calls(s[j])}
<1>1. S \in SUBSET Int /\ c \in S
  BY DEF CallOf
<1>2. \A y \in S : y <= c
  <2> TAKE y \in S
  <2> SUFFICES ASSUME ~(y <= c) PROVE FALSE
    OBVIOUS
  <2>1. y \in 1..(i - 1) /\ Calls(s[y])
    BY <1>1
  <2>2. y \in (c + 1)..i
    BY <2>1
  <2> QED BY <2>1, <2>2 DEF CallOf, Calls
<1> HIDE DEF S
<1>3. Max(S) = c
  BY <1>1, <1>2, GreatestIf
<1> QED BY <1>3 DEF S, PairIn

NeedsNone(s, b) == NeedIn(s, b) = b
NeedsCall(s, b, c) == NeedIn(s, b) = c - 1 /\ Calls(s[c]) /\ \A k \in (c + 1)..(b + 1) : s[k].role = "tool"

LEMMA NeedOpen ==
    ASSUME NEW T, NEW s \in Seq(Msg(T)), WellFormed(s), NEW b \in 0..Len(s), Opens(s, b)
    PROVE  NeedsNone(s, b)
<1> DEFINE S == {b} \union {PairIn(s, i) - 1 : i \in UnpairedIn(s, b)}
<1>1. \A i \in UnpairedIn(s, b) : PairIn(s, i) - 1 \in Int /\ b <= PairIn(s, i) - 1
  <2> TAKE i \in UnpairedIn(s, b)
  <2>1. i \in 1..Len(s) /\ i >= b + 1 /\ s[i].role = "tool"
    BY DEF UnpairedIn
  <2>2. PICK c \in 1..Len(s) : CallOf(s, i, c)
    BY <2>1, ResultsHaveCalls
  <2>3. PairIn(s, i) = c
    BY <2>1, <2>2, PairIs
  <2>4. ~(c <= b)
    <3> SUFFICES ASSUME c <= b PROVE FALSE
      OBVIOUS
    <3>1. b + 1 \in (c + 1)..i /\ b < Len(s)
      BY <2>1
    <3> QED BY <2>2, <3>1 DEF CallOf, Opens
  <2> QED BY <2>3, <2>4
<1>2. S \in SUBSET Int /\ b \in S /\ \A y \in S : b <= y
  BY <1>1
<1> HIDE DEF S
<1>3. Min(S) = b
  BY <1>2, LeastIs
<1> QED BY <1>3 DEF S, NeedsNone, NeedIn

LEMMA NeedClosed ==
    ASSUME NEW T, NEW s \in Seq(Msg(T)), WellFormed(s), NEW b \in 0..Len(s), ~Opens(s, b)
    PROVE  \E c \in 1..b : NeedsCall(s, b, c)
<1> DEFINE S == {b} \union {PairIn(s, i) - 1 : i \in UnpairedIn(s, b)}
<1>1. b + 1 \in 1..Len(s) /\ s[b + 1].role = "tool"
  BY LenProperties DEF Opens
<1>2. PICK c \in 1..Len(s) : CallOf(s, b + 1, c)
  BY <1>1, ResultsHaveCalls
<1>3. PairIn(s, b + 1) = c /\ c \in 1..b
  BY <1>1, <1>2, PairIs DEF CallOf
<1>4. b + 1 \in UnpairedIn(s, b)
  BY <1>1, <1>3 DEF UnpairedIn
<1>5. \A i \in UnpairedIn(s, b) : PairIn(s, i) \in Int /\ PairIn(s, i) >= c
  <2> TAKE i \in UnpairedIn(s, b)
  <2>1. i \in 1..Len(s) /\ i >= b + 1 /\ s[i].role = "tool"
    BY DEF UnpairedIn
  <2>2. PICK d \in 1..Len(s) : CallOf(s, i, d)
    BY <2>1, ResultsHaveCalls
  <2>3. PairIn(s, i) = d
    BY <2>1, <2>2, PairIs
  <2>4. ~(d < c)
    <3> SUFFICES ASSUME d < c PROVE FALSE
      OBVIOUS
    <3>1. c \in (d + 1)..i
      BY <1>3, <2>1
    <3> QED BY <1>2, <2>2, <3>1 DEF CallOf, Calls
  <2> QED BY <2>3, <2>4
<1>6. S \in SUBSET Int /\ c - 1 \in S /\ \A y \in S : c - 1 <= y
  BY <1>3, <1>4, <1>5
<1> HIDE DEF S
<1>7. Min(S) = c - 1
  BY <1>6, LeastIs
<1>8. NeedsCall(s, b, c)
  BY <1>2, <1>7 DEF S, NeedsCall, NeedIn, CallOf
<1> QED BY <1>3, <1>8

FirstIn(s, budget) == Max({0, Len(s) - budget})
BeginIn(s, budget) ==
    IF FirstIn(s, budget) > 0 /\ FirstIn(s, budget) < Len(s) /\ s[FirstIn(s, budget) + 1].role = "tool"
    THEN FirstIn(s, budget) - 1 ELSE FirstIn(s, budget)

LEMMA NeedIs ==
    ASSUME NEW T, NEW s \in Seq(Msg(T)), WellFormed(s), NEW b \in 0..Len(s)
    PROVE  NeedIn(s, b) \in 0..Len(s) /\ Opens(s, NeedIn(s, b)) /\ NeedIn(s, NeedIn(s, b)) = NeedIn(s, b)
<1>1. CASE Opens(s, b)
  <2>1. NeedIn(s, b) = b
    BY <1>1, NeedOpen DEF NeedsNone
  <2> QED BY <1>1, <2>1
<1>2. CASE ~Opens(s, b)
  <2>1. PICK c \in 1..b : NeedsCall(s, b, c)
    BY <1>2, NeedClosed
  <2>2. PICK n \in 0..Len(s) : n = c - 1 /\ n + 1 = c
    OBVIOUS
  <2>3. NeedIn(s, b) = n /\ Calls(s[n + 1])
    BY <2>1, <2>2 DEF NeedsCall
  <2>4. Opens(s, n)
    BY <2>3 DEF Opens, Calls
  <2>5. NeedIn(s, n) = n
    BY <2>4, NeedOpen DEF NeedsNone
  <2> QED BY <2>3, <2>4, <2>5
<1> QED BY <1>1, <1>2

LEMMA FirstIs ==
    ASSUME NEW S, NEW s \in Seq(S), NEW budget \in Nat
    PROVE  /\ FirstIn(s, budget) \in 0..Len(s) /\ BeginIn(s, budget) \in 0..Len(s)
           /\ FirstIn(s, budget) = IF Len(s) > budget THEN Len(s) - budget ELSE 0
<1>1. Len(s) \in Nat
  BY LenProperties
<1>2. CASE Len(s) > budget
  <2>1. {0, Len(s) - budget} \in SUBSET Int /\ Len(s) - budget \in {0, Len(s) - budget}
        /\ \A y \in {0, Len(s) - budget} : y <= Len(s) - budget
    BY <1>1, <1>2
  <2>2. FirstIn(s, budget) = Len(s) - budget
    BY <2>1, GreatestIf DEF FirstIn
  <2> QED BY <1>1, <1>2, <2>2 DEF BeginIn
<1>3. CASE ~(Len(s) > budget)
  <2>1. {0, Len(s) - budget} \in SUBSET Int /\ 0 \in {0, Len(s) - budget}
        /\ \A y \in {0, Len(s) - budget} : y <= 0
    BY <1>1, <1>3
  <2>2. FirstIn(s, budget) = 0
    BY <2>1, GreatestIf DEF FirstIn
  <2> QED BY <1>1, <1>3, <2>2 DEF BeginIn
<1> QED BY <1>2, <1>3

LEMMA StartIs ==
    ASSUME NEW T, NEW s \in Seq(Msg(T)), WellFormed(s), NEW budget \in Nat
    PROVE  StartOf(s, budget) = NeedIn(s, BeginIn(s, budget))
<1> DEFINE need(b) == NeedIn(s, b)
           step(f) == [b \in 0..Len(s) |-> IF need(b) = b THEN b ELSE f[need(b)]]
           ext == CHOOSE f : f = step(f)
           begin == BeginIn(s, budget)
           h == [b \in 0..Len(s) |-> need(b)]
<1>1. StartOf(s, budget) = ext[begin]
  BY DEF StartOf, NeedIn, PairIn, UnpairedIn, BeginIn, FirstIn
<1>2. \A b \in 0..Len(s) : need(b) \in 0..Len(s) /\ need(need(b)) = need(b)
  BY NeedIs
<1>3. begin \in 0..Len(s)
  BY FirstIs
<1> HIDE DEF need, begin
<1>4. h = step(h)
  <2>1. \A b \in 0..Len(s) : need(b) = IF need(b) = b THEN b ELSE h[need(b)]
    BY <1>2
  <2> QED BY <2>1
<1> HIDE DEF h
<1>5. ext = step(ext)
  BY <1>4
<1> HIDE DEF ext
<1>6. \A b \in 0..Len(s) : ext[b] = IF need(b) = b THEN b ELSE ext[need(b)]
  BY <1>5
<1>7. ext[need(begin)] = need(begin)
  BY <1>2, <1>3, <1>6
<1>8. ext[begin] = need(begin)
  BY <1>3, <1>6, <1>7
<1> QED BY <1>1, <1>8 DEF need, begin

\* Over the budget by no more than what had to be reached back for.
NearBudget(s, b, budget) ==
    Len(s) - b <= budget \/ (b < Len(s) /\ Calls(s[b + 1]) /\ Len(s) - GroupEnd(s, b + 1) < budget)

LEMMA StartFits ==
    ASSUME NEW T, NEW s \in Seq(Msg(T)), WellFormed(s), NEW budget \in Nat \ {0}
    PROVE  StartOf(s, budget) \in 0..Len(s) /\ Opens(s, StartOf(s, budget)) /\ NearBudget(s, StartOf(s, budget), budget)
<1> DEFINE begin == BeginIn(s, budget)
           first == FirstIn(s, budget)
<1>1. /\ Len(s) \in Nat /\ first \in 0..Len(s) /\ begin \in 0..Len(s)
      /\ first = IF Len(s) > budget THEN Len(s) - budget ELSE 0
  BY FirstIs, LenProperties
<1>2. /\ StartOf(s, budget) = NeedIn(s, begin)
      /\ NeedIn(s, begin) \in 0..Len(s) /\ Opens(s, NeedIn(s, begin))
  BY <1>1, StartIs, NeedIs
<1>3. begin = IF first > 0 /\ first < Len(s) /\ s[first + 1].role = "tool" THEN first - 1 ELSE first
  BY DEF BeginIn
<1> HIDE DEF begin, first
<1>4. CASE Len(s) <= budget
  <2>1. first = 0 /\ begin = 0
    BY <1>1, <1>3, <1>4
  <2>2. Opens(s, 0)
    <3>1. 0 < Len(s) => FitsAt(s, 1)
      BY <1>1, FitsIs
    <3> QED BY <3>1 DEF Opens, FitsAt
  <2>3. NeedIn(s, 0) = 0
    BY <1>1, <2>2, NeedOpen DEF NeedsNone
  <2> QED BY <1>1, <1>2, <1>4, <2>1, <2>3 DEF NearBudget
<1>5. CASE Len(s) > budget /\ s[first + 1].role # "tool"
  <2>1. begin = first /\ Opens(s, first)
    BY <1>1, <1>3, <1>5 DEF Opens
  <2>2. NeedIn(s, first) = first
    BY <1>1, <2>1, NeedOpen DEF NeedsNone
  <2>3. Len(s) - first <= budget
    BY <1>1, <1>5
  <2> QED BY <1>2, <2>1, <2>2, <2>3 DEF NearBudget
<1>6. CASE Len(s) > budget /\ s[first + 1].role = "tool"
  <2>1. first > 0 /\ first < Len(s) /\ begin = first - 1 /\ Len(s) - first = budget
    BY <1>1, <1>3, <1>6
  <2>2. PICK c \in 1..Len(s) : NeedIn(s, begin) = c - 1 /\ Calls(s[c]) /\ c <= first
                               /\ \A k \in (c + 1)..first : s[k].role = "tool"
    <3>1. CASE Opens(s, begin)
      <4>1. NeedIn(s, begin) = begin
        BY <1>1, <3>1, NeedOpen DEF NeedsNone
      <4>2. s[first].role # "tool"
        <5>1. begin + 1 = first /\ begin < Len(s)
          BY <1>1, <2>1
        <5> QED BY <3>1, <5>1 DEF Opens
      <4>3. first + 1 \in 1..Len(s) /\ first + 1 - 1 = first
        BY <1>1, <2>1
      <4>4. Calls(s[first])
        <5>1. PICK j : j = first + 1
          OBVIOUS
        <5>2. j \in 1..Len(s) /\ j - 1 = first
          BY <1>1, <4>3, <5>1
        <5>3. FitsAt(s, j) /\ s[j].role = "tool"
          BY <1>6, <5>1, <5>2, FitsIs
        <5> QED BY <4>2, <5>2, <5>3 DEF FitsAt
      <4>5. first \in 1..Len(s) /\ \A k \in (first + 1)..first : FALSE
        BY <1>1, <2>1
      <4> QED BY <2>1, <4>1, <4>4, <4>5
    <3>2. CASE ~Opens(s, begin)
      <4>1. PICK c \in 1..begin : NeedsCall(s, begin, c)
        BY <1>1, <3>2, NeedClosed
      <4>2. begin + 1 = first /\ c \in 1..Len(s) /\ c <= first
        BY <1>1, <2>1
      <4> QED BY <4>1, <4>2 DEF NeedsCall
    <3> QED BY <3>1, <3>2
  <2>3. PICK e : e = GroupEnd(s, c)
    OBVIOUS
  <2>4. e \in c..Len(s) /\ (e < Len(s) => s[e + 1].role # "tool")
    BY <2>3, GroupEndIs
  <2>5. ~(e <= first)
    <3> SUFFICES ASSUME e <= first PROVE FALSE
      OBVIOUS
    <3>1. e + 1 \in (c + 1)..first \/ e = first
      BY <1>1, <2>4
    <3> QED BY SMTT(40), <1>1, <1>6, <2>1, <2>2, <2>4, <3>1
  <2>6. Len(s) - e < budget
    BY <1>1, <2>1, <2>4, <2>5
  <2>7. PICK b \in 0..Len(s) : b = c - 1 /\ b + 1 = c /\ b < Len(s)
    OBVIOUS
  <2>8. NearBudget(s, b, budget)
    BY <2>2, <2>3, <2>6, <2>7 DEF NearBudget
  <2> QED BY <1>2, <2>2, <2>7, <2>8
<1> QED BY <1>1, <1>4, <1>5, <1>6

LEMMA SuffixOf ==
    ASSUME NEW S, NEW s \in Seq(S), NEW b \in 0..Len(s), NEW r \in Seq(S), SuffixIs(r, s, b)
    PROVE  IsSuffix(r, s)
<1> DEFINE u == Reverse(r)
           v == Reverse(s)
<1>1. Len(s) \in Nat /\ Len(r) \in Nat /\ Len(r) = Len(s) - b
      /\ (\A i \in 1..Len(s) : s[i] \in S) /\ (\A i \in 1..Len(r) : r[i] = s[b + i] /\ r[i] \in S)
  BY LenProperties, ElementOfSeq DEF SuffixIs
<1>2. u \in Seq(S) /\ v \in Seq(S) /\ Len(u) = Len(r) /\ Len(v) = Len(s)
  <2>1. \A i \in 1..Len(s) : Len(s) - i + 1 \in 1..Len(s)
    BY <1>1
  <2>2. \A i \in 1..Len(r) : Len(r) - i + 1 \in 1..Len(r)
    BY <1>1
  <2>3. v \in [1..Len(s) -> S] /\ u \in [1..Len(r) -> S]
    BY <1>1, <2>1, <2>2 DEF Reverse
  <2> HIDE DEF u, v
  <2> QED BY <1>1, <2>3, MapIsSeq
<1>3. \A i \in 1..Len(r) : u[i] = v[i]
  <2> TAKE i \in 1..Len(r)
  <2>1. Len(r) - i + 1 \in 1..Len(r) /\ b + (Len(r) - i + 1) = Len(s) - i + 1 /\ i \in 1..Len(s)
    BY <1>1
  <2>2. u[i] = r[Len(r) - i + 1] /\ v[i] = s[Len(s) - i + 1]
    BY <2>1 DEF Reverse
  <2> QED BY <1>1, <2>1, <2>2
<1> HIDE DEF u, v
<1>4. Len(u) \in 0..Len(v)
  BY <1>1, <1>2
<1>5. SubSeq(u, 1, Len(u)) = u
  BY <1>2, SubSeqFull
<1>6. SubSeq(v, 1, Len(u)) \in Seq(S) /\ Len(SubSeq(v, 1, Len(u))) = Len(u)
      /\ \A i \in 1..Len(u) : SubSeq(v, 1, Len(u))[i] = v[i]
  BY <1>2, <1>4, PrefixesAre
<1>7. PICK w \in Seq(S) : w = SubSeq(v, 1, Len(u))
  BY <1>6
<1>8. w = u
  <2>1. Len(w) = Len(u) /\ \A i \in 1..Len(u) : w[i] = u[i]
    BY <1>2, <1>3, <1>6, <1>7
  <2> QED BY <1>2, <2>1, SeqEqual
<1>9. IsPrefix(u, v)
  BY <1>1, <1>2, <1>5, <1>7, <1>8, <1>4 DEF IsPrefix
<1> QED BY <1>9 DEF IsSuffix, u, v

PrunedTo(s, kept) ==
    /\ WellFormed(kept)
    /\ Systems(kept) = Systems(s) /\ IsSuffix(Others(kept), Others(s))
    /\ Others(kept) # <<>> =>
         \/ Len(Others(kept)) <= HistoryLimit - Len(Systems(s))
         \/ /\ Calls(Others(kept)[1]) /\ 0 < HistoryLimit - Len(Systems(s))
            /\ Len(Others(kept)) - GroupEnd(Others(kept), 1) < HistoryLimit - Len(Systems(s))

LEMMA PruneFits ==
    ASSUME NEW T, NEW s \in Seq(Msg(T)), WellFormed(s)
    PROVE  Prune(s) \in Seq(Msg(T)) /\ PrunedTo(s, Prune(s))
<1> DEFINE y == Systems(s)
           o == Others(s)
           budget == HistoryLimit - Len(y)
           b == StartOf(o, budget)
           r == SubSeq(o, b + 1, Len(o))
<1>1. /\ y \in Seq(Msg(T)) /\ AllSystem(y) /\ WellFormed(y) /\ Systems(y) = y /\ Others(y) = <<>>
      /\ o \in Seq(Msg(T)) /\ NoSystem(o) /\ WellFormed(o) /\ Len(y) \in Nat /\ Len(o) \in Nat
  BY SystemsAre, SystemsOnly, OthersAre, OthersFit, LenProperties
<1>2. budget \in Int
  BY <1>1, HistoryAssumption
<1>3. Prune(s) = IF budget <= 0 THEN y ELSE y \o r
  BY DEF Prune
<1> HIDE DEF y, o, r, b, budget
<1>4. CASE budget <= 0
  <2>1. Prune(s) = y
    BY <1>3, <1>4
  <2>2. IsSuffix(<<>>, o)
    <3>1. <<>> \in Seq(Msg(T)) /\ Len(o) \in 0..Len(o) /\ SuffixIs(<<>>, o, Len(o))
      BY <1>1, EmptySeq DEF SuffixIs
    <3> QED BY <1>1, <3>1, SuffixOf
  <2> QED BY <1>1, <2>1, <2>2 DEF PrunedTo, y, o
<1>5. CASE ~(budget <= 0)
  <2>1. budget \in Nat \ {0}
    BY <1>2, <1>5
  <2>2. b \in 0..Len(o) /\ Opens(o, b) /\ NearBudget(o, b, budget)
    BY <1>1, <2>1, StartFits DEF b
  <2>3. r \in Seq(Msg(T)) /\ SuffixIs(r, o, b) /\ Len(r) = Len(o) - b /\ \A i \in 1..(Len(o) - b) : r[i] = o[b + i]
    <3>1. r \in Seq(Msg(T)) /\ Len(r) = Len(o) - b /\ \A i \in 1..(Len(o) - b) : r[i] = o[b + i]
      BY <1>1, <2>2, PartIs DEF r
    <3> QED BY <3>1 DEF SuffixIs
  <2>4. WellFormed(r) /\ (r # <<>> => GroupEnd(r, 1) = GroupEnd(o, b + 1) - b)
    <3>1. r # <<>> => 1 \in 1..Len(r)
      BY <2>3, EmptySeq, LenProperties
    <3> QED BY <1>1, <2>2, <2>3, <3>1, SuffixFits
  <2>5. NoSystem(r)
    <3>1. \A i \in 1..Len(r) : r[i] = o[b + i] /\ b + i \in 1..Len(o)
      BY <1>1, <2>2, <2>3
    <3> QED BY <1>1, <3>1 DEF NoSystem
  <2>6. r # <<>> => 1 \in 1..(Len(o) - b) /\ r[1] = o[b + 1] /\ b < Len(o)
    BY <1>1, <2>2, <2>3, EmptySeq
  <2>7. r # <<>> => r[1].role # "tool"
    BY <2>2, <2>6 DEF Opens
  <2>8. y \o r \in Seq(Msg(T)) /\ WellFormed(y \o r)
    BY <1>1, <2>3, <2>4, <2>7, JoinedFit
  <2>9. Systems(y \o r) = y /\ Others(y \o r) = r
    <3>1. Systems(y \o r) = Systems(y) /\ Others(y \o r) = Others(y) \o r
      BY <1>1, <2>3, <2>5, OthersAfter
    <3>2. <<>> \o r = r
      BY <2>3, ConcatEmptySeq
    <3> QED BY <1>1, <3>1, <3>2
  <2>10. IsSuffix(r, o)
    BY <1>1, <2>2, <2>3, SuffixOf
  <2>11. PICK kept \in Seq(Msg(T)) : kept = Prune(s) /\ kept = y \o r
    BY <1>3, <1>5, <2>8
  <2>12. r # <<>> => \/ Len(r) <= budget
                     \/ Calls(r[1]) /\ 0 < budget /\ Len(r) - GroupEnd(r, 1) < budget
    <3> HAVE r # <<>>
    <3>1. CASE Len(o) - b <= budget
      BY <2>3, <3>1
    <3>2. CASE b < Len(o) /\ Calls(o[b + 1]) /\ Len(o) - GroupEnd(o, b + 1) < budget
      <4>1. b + 1 \in 1..Len(o)
        BY <1>1, <2>2, <3>2
      <4>2. PICK e : e = GroupEnd(o, b + 1)
        OBVIOUS
      <4>3. e \in Int
        BY <1>1, <4>1, <4>2, GroupEndIs
      <4>4. Len(r) - GroupEnd(r, 1) = Len(o) - e
        BY <1>1, <2>2, <2>3, <2>4, <4>2, <4>3
      <4> QED BY <2>1, <2>6, <3>2, <4>2, <4>4
    <3> QED BY <2>2, <3>1, <3>2 DEF NearBudget
  <2>13. WellFormed(kept) /\ Systems(kept) = y /\ Others(kept) = r
    BY <2>8, <2>9, <2>11
  <2>14. PrunedTo(s, kept)
    BY <2>10, <2>12, <2>13 DEF PrunedTo, y, o, budget
  <2> QED BY <2>11, <2>14
<1> QED BY <1>4, <1>5

----------------------------------------------------------------------------
(* Histories in other providers' formats.                                  *)

Plain == Seq(Msg({NoId}))

LEMMA IdsAre ==
    ASSUME NEW ids \in SUBSET HistoryIds, NEW x \in SetToSeqs(ids)
    PROVE  x \in Seq(HistoryIds)
<1>1. IsFiniteSet(ids)
  BY HistoryAssumption, FS_Subset
<1>2. Cardinality(ids) \in Nat
  BY <1>1, FS_CardinalityType
<1>3. x \in [1..Cardinality(ids) -> HistoryIds]
  BY DEF SetToSeqs
<1> QED BY <1>2, <1>3, MapIsSeq

LEMMA BlocksAre ==
    ASSUME NEW b \in Block
    PROVE  /\ b.role \in {"user", "assistant"} /\ b.text \in BOOLEAN /\ b.uses \subseteq HistoryIds
           /\ b.results \in Seq(HistoryIds) /\ Len(b.results) \in Nat
<1>1. PICK ids \in SUBSET HistoryIds : b.results \in SetToSeqs(ids)
  BY DEF Block
<1> QED BY <1>1, IdsAre, LenProperties DEF Block

LEMMA TextsAre ==
    /\ \A r \in {"system", "user", "assistant", "tool"} :
         Text(r, NoId) \in Msg({NoId}) /\ Text(r, NoId).role = r /\ ~Calls(Text(r, NoId))
    /\ \A ids \in SUBSET CallIds :
         CallMsg(ids, NoId) \in Msg({NoId}) /\ CallMsg(ids, NoId).role = "assistant" /\ CallMsg(ids, NoId).calls = ids
    /\ \A c \in CallIds : ToolMsg(c) \in Msg({NoId}) /\ ToolMsg(c).role = "tool" /\ ToolMsg(c).id = c
BY DEF Text, CallMsg, ToolMsg, Msg, Calls

LEMMA ResultsAre ==
    ASSUME NEW b \in Block
    PROVE  /\ ResultsOf(b) \in Plain /\ Len(ResultsOf(b)) = Len(b.results)
           /\ \A k \in 1..Len(ResultsOf(b)) : ResultsOf(b)[k].role = "tool" /\ ResultsOf(b)[k].id = b.results[k]
<1>1. b.results \in Seq(HistoryIds) /\ Len(b.results) \in Nat /\ \A k \in 1..Len(b.results) : b.results[k] \in HistoryIds
  BY BlocksAre, ElementOfSeq
<1>2. \A k \in 1..Len(b.results) : b.results[k] \in CallIds
  BY <1>1, HistoryAssumption
<1>3. ResultsOf(b) \in [1..Len(b.results) -> Msg({NoId})]
  BY <1>2, TextsAre DEF ResultsOf
<1>4. ResultsOf(b) \in Plain /\ Len(ResultsOf(b)) = Len(b.results)
  BY <1>1, <1>3, MapIsSeq DEF Plain
<1>5. \A k \in 1..Len(b.results) : ResultsOf(b)[k] = ToolMsg(b.results[k])
  BY DEF ResultsOf
<1> QED BY <1>2, <1>4, <1>5, TextsAre

LEMMA SpokenAre ==
    ASSUME NEW b \in Block
    PROVE  /\ Spoken(b) \in Plain
           /\ Spoken(b) = <<>> \/ (\E m \in Msg({NoId}) : Spoken(b) = <<m>> /\ m.role # "tool" /\ m.calls = b.uses
                                                         /\ (Calls(m) <=> b.uses # {}))
           /\ b.uses # {} => Spoken(b) # <<>>
           /\ b.uses = {} /\ ~b.text => Spoken(b) = <<>>
<1>1. b.uses \in SUBSET CallIds /\ b.role \in {"user", "assistant"}
  BY BlocksAre, HistoryAssumption
<1>2. CASE b.uses # {}
  <2>1. PICK m \in Msg({NoId}) : m = CallMsg(b.uses, NoId) /\ m.role = "assistant" /\ m.calls = b.uses
    BY <1>1, TextsAre
  <2>2. Spoken(b) = <<m>> /\ <<m>> \in Seq(Msg({NoId})) /\ <<m>> # <<>>
    BY <1>2, <2>1 DEF Spoken
  <2> QED BY <1>2, <2>1, <2>2 DEF Plain, Calls
<1>3. CASE b.uses = {} /\ b.text
  <2>1. PICK m \in Msg({NoId}) : m = Text(b.role, NoId) /\ m.role = b.role /\ m.calls = {}
    BY <1>1, TextsAre DEF Text
  <2>2. Spoken(b) = <<m>> /\ <<m>> \in Seq(Msg({NoId}))
    BY <1>3, <2>1 DEF Spoken
  <2> QED BY <1>1, <1>3, <2>1, <2>2 DEF Plain, Calls
<1>4. CASE b.uses = {} /\ ~b.text
  <2>1. Spoken(b) = <<>> /\ <<>> \in Plain
    BY <1>4, EmptySeq DEF Spoken, Plain
  <2> QED BY <1>4, <2>1
<1> QED BY <1>2, <1>3, <1>4

LEMMA StepsIn ==
    ASSUME NEW out \in Plain, NEW b \in Block
    PROVE  AnthropicStep(out, b) \in Plain /\ GeminiStep(out, b) \in Plain
<1>1. PICK u \in Seq(Msg({NoId})), v \in Seq(Msg({NoId})), o \in Seq(Msg({NoId})) :
        u = Spoken(b) /\ v = ResultsOf(b) /\ o = out
  BY SpokenAre, ResultsAre DEF Plain
<1>2. (o \o u) \o v \in Seq(Msg({NoId})) /\ (o \o v) \o u \in Seq(Msg({NoId}))
  BY ConcatProperties
<1> QED BY <1>1, <1>2 DEF AnthropicStep, GeminiStep, Plain

LEMMA AnthropicSteps ==
    /\ FromAnthropic(<<>>) = <<>>
    /\ \A s \in Seq(Block) : FromAnthropic(s) \in Plain
    /\ \A s \in Seq(Block), m \in Block : FromAnthropic(Append(s, m)) = AnthropicStep(FromAnthropic(s), m)
<1> DEFINE S == Block
           A == Plain
           from == <<>>
           f == [x \in A \X S |-> AnthropicStep(x[1], x[2])]
           step(a, t) == [k \in 0..Len(t) |-> IF k = 0 THEN from ELSE AnthropicStep(a[k - 1], t[k])]
           loop(t) == CHOOSE a : a = step(a, t)
<1>1. from \in A
  BY EmptySeq DEF Plain
<1>2. \A a \in A, m \in S : AnthropicStep(a, m) \in A
  BY StepsIn
<1>3. \A t : FromAnthropic(t) = loop(t)[Len(t)]
  BY DEF FromAnthropic, Through
<1> HIDE DEF from
<1>4. f \in [A \X S -> A] /\ \A a \in A, m \in S : f[<<a, m>>] = AnthropicStep(a, m)
  <2> HIDE DEF A, S
  <2>1. \A a \in A, m \in S : <<a, m>> \in A \X S /\ f[<<a, m>>] = AnthropicStep(a, m)
    OBVIOUS
  <2>2. \A x \in A \X S : AnthropicStep(x[1], x[2]) \in A
    BY <1>2
  <2> QED BY <2>1, <2>2
<1> HIDE DEF f, A, S
<1>5. \A t \in Seq(S) : Loops(loop(t), from, f, t, Len(t)) /\ loop(t)[Len(t)] \in A
  <2> TAKE t \in Seq(S)
  <2>1. Len(t) \in Nat /\ \A k \in 1..Len(t) : t[k] \in S
    BY LenProperties, ElementOfSeq
  <2>2. PICK g \in [0..Len(t) -> A] : Loops(g, from, f, t, Len(t))
    BY <1>1, <1>4, LoopsExist
  <2>3. g = step(g, t)
    <3>1. \A k \in 0..Len(t) : g[k] = IF k = 0 THEN from ELSE AnthropicStep(g[k - 1], t[k])
      <4> TAKE k \in 0..Len(t)
      <4>1. CASE k = 0
        BY <2>2, <4>1 DEF Loops
      <4>2. CASE k # 0
        <5>1. k \in 1..Len(t) /\ g[k - 1] \in A /\ t[k] \in S
          BY <2>1, <2>2, <4>2
        <5>2. g[k] = f[<<g[k - 1], t[k]>>]
          BY <2>2, <5>1 DEF Loops
        <5> QED BY <1>4, <4>2, <5>1, <5>2
      <4> QED BY <4>1, <4>2
    <3> QED BY <3>1
  <2> HIDE DEF step
  <2>4. loop(t) = step(loop(t), t)
    BY <2>3
  <2> HIDE DEF loop
  <2>5. /\ loop(t)[0] = from
        /\ \A k \in 1..Len(t) : loop(t)[k - 1] \in A => loop(t)[k] = f[<<loop(t)[k - 1], t[k]>>]
    <3>1. loop(t)[0] = from
      BY <2>1, <2>4 DEF step
    <3>2. \A k \in 1..Len(t) : loop(t)[k] = AnthropicStep(loop(t)[k - 1], t[k])
      BY <2>1, <2>4 DEF step
    <3> QED BY <1>4, <2>1, <3>1, <3>2
  <2>6. Loops(loop(t), from, f, t, Len(t)) /\ \A k \in 0..Len(t) : loop(t)[k] \in A
    <3>1. PICK x : x = loop(t)
      OBVIOUS
    <3>2. LoopsIn(x, from, f, t, A)
      BY <2>5, <3>1 DEF LoopsIn
    <3>3. f \in [A \X S -> A]
      BY <1>4
    <3>4. Loops(x, from, f, t, Len(t)) /\ StaysIn(x, t, A)
      BY <1>1, <3>2, <3>3, LoopsFrom
    <3> QED BY <3>1, <3>4 DEF StaysIn
  <2>7. Len(t) \in 0..Len(t)
    BY <2>1
  <2> QED BY <2>6, <2>7
<1> HIDE DEF step, loop
<1>6. FromAnthropic(<<>>) = from
  <2>1. <<>> \in Seq(S) /\ Len(<<>>) = 0
    BY EmptySeq
  <2> QED BY <1>3, <1>5, <2>1 DEF Loops
<1>7. \A s \in Seq(S), m \in S : FromAnthropic(Append(s, m)) = AnthropicStep(FromAnthropic(s), m)
  <2> TAKE s \in Seq(S), m \in S
  <2>1. Append(s, m) \in Seq(S) /\ Len(Append(s, m)) = Len(s) + 1
    BY Appended
  <2>2. Loops(loop(s), from, f, s, Len(s)) /\ Loops(loop(Append(s, m)), from, f, Append(s, m), Len(s) + 1)
    BY <1>5, <2>1
  <2>3. loop(Append(s, m))[Len(s) + 1] = f[<<loop(s)[Len(s)], m>>]
    <3>1. PICK x, y : x = loop(s) /\ y = loop(Append(s, m))
      OBVIOUS
    <3>2. Loops(x, from, f, s, Len(s)) /\ Loops(y, from, f, Append(s, m), Len(s) + 1)
      BY <2>2, <3>1
    <3>3. f \in [A \X S -> A]
      BY <1>4
    <3>4. StepsOn(y, x, f, s, m)
      BY <1>1, <3>2, <3>3, LoopsStep
    <3> QED BY <3>1, <3>4 DEF StepsOn
  <2>4. f[<<loop(s)[Len(s)], m>>] = AnthropicStep(loop(s)[Len(s)], m)
    BY <1>4, <1>5
  <2> QED BY <1>3, <2>1, <2>3, <2>4
<1>8. \A s \in Seq(S) : FromAnthropic(s) \in A
  BY <1>3, <1>5
<1> QED BY <1>6, <1>7, <1>8 DEF from, A, S
LEMMA GeminiSteps ==
    /\ FromGemini(<<>>) = <<>>
    /\ \A s \in Seq(Block) : FromGemini(s) \in Plain
    /\ \A s \in Seq(Block), m \in Block : FromGemini(Append(s, m)) = GeminiStep(FromGemini(s), m)
<1> DEFINE S == Block
           A == Plain
           from == <<>>
           f == [x \in A \X S |-> GeminiStep(x[1], x[2])]
           step(a, t) == [k \in 0..Len(t) |-> IF k = 0 THEN from ELSE GeminiStep(a[k - 1], t[k])]
           loop(t) == CHOOSE a : a = step(a, t)
<1>1. from \in A
  BY EmptySeq DEF Plain
<1>2. \A a \in A, m \in S : GeminiStep(a, m) \in A
  BY StepsIn
<1>3. \A t : FromGemini(t) = loop(t)[Len(t)]
  BY DEF FromGemini, Through
<1> HIDE DEF from
<1>4. f \in [A \X S -> A] /\ \A a \in A, m \in S : f[<<a, m>>] = GeminiStep(a, m)
  <2> HIDE DEF A, S
  <2>1. \A a \in A, m \in S : <<a, m>> \in A \X S /\ f[<<a, m>>] = GeminiStep(a, m)
    OBVIOUS
  <2>2. \A x \in A \X S : GeminiStep(x[1], x[2]) \in A
    BY <1>2
  <2> QED BY <2>1, <2>2
<1> HIDE DEF f, A, S
<1>5. \A t \in Seq(S) : Loops(loop(t), from, f, t, Len(t)) /\ loop(t)[Len(t)] \in A
  <2> TAKE t \in Seq(S)
  <2>1. Len(t) \in Nat /\ \A k \in 1..Len(t) : t[k] \in S
    BY LenProperties, ElementOfSeq
  <2>2. PICK g \in [0..Len(t) -> A] : Loops(g, from, f, t, Len(t))
    BY <1>1, <1>4, LoopsExist
  <2>3. g = step(g, t)
    <3>1. \A k \in 0..Len(t) : g[k] = IF k = 0 THEN from ELSE GeminiStep(g[k - 1], t[k])
      <4> TAKE k \in 0..Len(t)
      <4>1. CASE k = 0
        BY <2>2, <4>1 DEF Loops
      <4>2. CASE k # 0
        <5>1. k \in 1..Len(t) /\ g[k - 1] \in A /\ t[k] \in S
          BY <2>1, <2>2, <4>2
        <5>2. g[k] = f[<<g[k - 1], t[k]>>]
          BY <2>2, <5>1 DEF Loops
        <5> QED BY <1>4, <4>2, <5>1, <5>2
      <4> QED BY <4>1, <4>2
    <3> QED BY <3>1
  <2> HIDE DEF step
  <2>4. loop(t) = step(loop(t), t)
    BY <2>3
  <2> HIDE DEF loop
  <2>5. /\ loop(t)[0] = from
        /\ \A k \in 1..Len(t) : loop(t)[k - 1] \in A => loop(t)[k] = f[<<loop(t)[k - 1], t[k]>>]
    <3>1. loop(t)[0] = from
      BY <2>1, <2>4 DEF step
    <3>2. \A k \in 1..Len(t) : loop(t)[k] = GeminiStep(loop(t)[k - 1], t[k])
      BY <2>1, <2>4 DEF step
    <3> QED BY <1>4, <2>1, <3>1, <3>2
  <2>6. Loops(loop(t), from, f, t, Len(t)) /\ \A k \in 0..Len(t) : loop(t)[k] \in A
    <3>1. PICK x : x = loop(t)
      OBVIOUS
    <3>2. LoopsIn(x, from, f, t, A)
      BY <2>5, <3>1 DEF LoopsIn
    <3>3. f \in [A \X S -> A]
      BY <1>4
    <3>4. Loops(x, from, f, t, Len(t)) /\ StaysIn(x, t, A)
      BY <1>1, <3>2, <3>3, LoopsFrom
    <3> QED BY <3>1, <3>4 DEF StaysIn
  <2>7. Len(t) \in 0..Len(t)
    BY <2>1
  <2> QED BY <2>6, <2>7
<1> HIDE DEF step, loop
<1>6. FromGemini(<<>>) = from
  <2>1. <<>> \in Seq(S) /\ Len(<<>>) = 0
    BY EmptySeq
  <2> QED BY <1>3, <1>5, <2>1 DEF Loops
<1>7. \A s \in Seq(S), m \in S : FromGemini(Append(s, m)) = GeminiStep(FromGemini(s), m)
  <2> TAKE s \in Seq(S), m \in S
  <2>1. Append(s, m) \in Seq(S) /\ Len(Append(s, m)) = Len(s) + 1
    BY Appended
  <2>2. Loops(loop(s), from, f, s, Len(s)) /\ Loops(loop(Append(s, m)), from, f, Append(s, m), Len(s) + 1)
    BY <1>5, <2>1
  <2>3. loop(Append(s, m))[Len(s) + 1] = f[<<loop(s)[Len(s)], m>>]
    <3>1. PICK x, y : x = loop(s) /\ y = loop(Append(s, m))
      OBVIOUS
    <3>2. Loops(x, from, f, s, Len(s)) /\ Loops(y, from, f, Append(s, m), Len(s) + 1)
      BY <2>2, <3>1
    <3>3. f \in [A \X S -> A]
      BY <1>4
    <3>4. StepsOn(y, x, f, s, m)
      BY <1>1, <3>2, <3>3, LoopsStep
    <3> QED BY <3>1, <3>4 DEF StepsOn
  <2>4. f[<<loop(s)[Len(s)], m>>] = GeminiStep(loop(s)[Len(s)], m)
    BY <1>4, <1>5
  <2> QED BY <1>3, <2>1, <2>3, <2>4
<1>8. \A s \in Seq(S) : FromGemini(s) \in A
  BY <1>3, <1>5
<1> QED BY <1>6, <1>7, <1>8 DEF from, A, S

\* A conversation in blocks alternates, and the user answers the calls.
BlockFollows(bs, k) ==
    /\ bs[k].role = "user" => bs[k].uses = {} /\ Range(bs[k].results) = IF k = 1 THEN {} ELSE bs[k - 1].uses
    /\ bs[k].role = "assistant" => bs[k].results = <<>> /\ k > 1 /\ bs[k - 1].role = "user"
BlocksFollow(bs) == bs \in Seq(Block) /\ \A k \in 1..Len(bs) : BlockFollows(bs, k)

\* A history that is valid once the calls at its end are answered.
Unanswered(T, out, uses) ==
    IF uses = {} THEN WellFormed(out)
    ELSE \E a \in Seq(Msg(T)), m \in Msg(T) :
           /\ out = a \o <<m>> /\ WellFormed(a) /\ m.role = "assistant" /\ m.calls = uses

LEMMA AnswersFit ==
    ASSUME NEW T, NEW out \in Seq(Msg(T)), NEW uses, Unanswered(T, out, uses), NEW t \in Seq(Msg(T)),
           \A k \in 1..Len(t) : t[k].role = "tool", {t[k].id : k \in 1..Len(t)} = uses
    PROVE  WellFormed(out \o t)
<1>1. Len(t) \in Nat /\ t \in Seq(Msg(T)) /\ out \in Seq(Msg(T))
  BY LenProperties
<1>2. CASE uses = {}
  <2>1. t = <<>>
    <3> SUFFICES ASSUME t # <<>> PROVE FALSE
      OBVIOUS
    <3>1. 1 \in 1..Len(t)
      BY <1>1, EmptySeq
    <3> QED BY <1>2, <3>1
  <2>2. out \o <<>> = out
    BY <1>1, ConcatEmptySeq
  <2> QED BY <1>2, <2>1, <2>2 DEF Unanswered
<1>3. CASE uses # {}
  <2>1. PICK a \in Seq(Msg(T)), m \in Msg(T) :
          out = a \o <<m>> /\ WellFormed(a) /\ m.role = "assistant" /\ m.calls = uses
    BY <1>3 DEF Unanswered
  <2>2. PICK u \in Seq(Msg(T)) : u = <<m>> /\ Len(u) = 1 /\ u[1] = m
    <3>1. <<m>> \in Seq(Msg(T)) /\ Len(<<m>>) = 1 /\ <<m>>[1] = m
      OBVIOUS
    <3> QED BY <3>1
  <2>3. PICK g \in Seq(Msg(T)) : g = u \o t
    BY <1>1, ConcatProperties
  <2>4. Len(g) = 1 + Len(t) /\ \A k \in 1..(1 + Len(t)) : g[k] = IF k <= 1 THEN u[k] ELSE t[k - 1]
    BY <1>1, <2>2, <2>3, ConcatProperties
  <2>5. g[1] = m /\ g # <<>>
    <3>1. 1 \in 1..(1 + Len(t)) /\ Len(g) # 0
      BY <1>1, <2>4
    <3> QED BY <2>2, <2>4, <3>1, EmptySeq
  <2>6. \A k \in 2..Len(g) : k - 1 \in 1..Len(t) /\ g[k] = t[k - 1]
    <3> TAKE k \in 2..Len(g)
    <3>1. k - 1 \in 1..Len(t) /\ k \in 1..(1 + Len(t)) /\ ~(k <= 1)
      BY <1>1, <2>4
    <3> QED BY <2>4, <3>1
  <2>7. \A k \in 1..Len(t) : k + 1 \in 2..Len(g) /\ g[k + 1] = t[k]
    <3> TAKE k \in 1..Len(t)
    <3>1. k + 1 \in 2..Len(g) /\ k + 1 - 1 = k
      BY <1>1, <2>4
    <3>2. PICK j \in 2..Len(g) : j = k + 1 /\ j - 1 = k
      BY <3>1
    <3>3. g[j] = t[k]
      BY <2>6, <3>2
    <3> QED BY <3>1, <3>2, <3>3
  <2>8. {g[k].id : k \in 2..Len(g)} = uses
    <3>1. \A x \in {g[k].id : k \in 2..Len(g)} : x \in {t[k].id : k \in 1..Len(t)}
      BY <2>6
    <3>2. \A x \in {t[k].id : k \in 1..Len(t)} : x \in {g[k].id : k \in 2..Len(g)}
      BY <2>7
    <3> QED BY <3>1, <3>2
  <2>9. \A k \in 2..Len(g) : g[k].role = "tool"
    BY <2>6
  <2>10. WellFormed(g)
    BY <2>1, <2>5, <2>8, <2>9, GroupFits
  <2>11. PICK b \in Seq(Msg(T)) : b = a /\ WellFormed(b)
    BY <2>1
  <2>12. WellFormed(b \o g)
    BY <2>1, <2>5, <2>10, <2>11, JoinedFit
  <2>13. (b \o u) \o t = b \o (u \o t)
    BY <1>1, <2>2, <2>11, ConcatAssociative
  <2> QED BY <2>1, <2>2, <2>3, <2>11, <2>12, <2>13
<1> QED BY <1>2, <1>3

Pending(out, uses) == Unanswered({NoId}, out, uses)

LEMMA SpokenFits ==
    ASSUME NEW out \in Plain, WellFormed(out), NEW b \in Block
    PROVE  Pending(out \o Spoken(b), b.uses)
<1>1. out \in Seq(Msg({NoId})) /\ out \o <<>> = out
  BY ConcatEmptySeq DEF Plain
<1>2. CASE Spoken(b) = <<>>
  <2>1. b.uses = {}
    BY <1>2, SpokenAre
  <2>2. out \o Spoken(b) = out
    BY <1>1, <1>2
  <2> QED BY <2>1, <2>2 DEF Pending, Unanswered
<1>3. CASE Spoken(b) # <<>>
  <2>1. PICK m \in Msg({NoId}) : Spoken(b) = <<m>> /\ m.role # "tool" /\ m.calls = b.uses /\ (Calls(m) <=> b.uses # {})
    BY <1>3, SpokenAre
  <2>2. CASE b.uses = {}
    <3>1. WellFormed(Append(out, m)) /\ Append(out, m) = out \o <<m>>
      BY <1>1, <2>1, <2>2, AppendFits, AppendIsConcat
    <3>2. WellFormed(out \o Spoken(b))
      BY <2>1, <3>1
    <3> QED BY <2>2, <3>2 DEF Pending, Unanswered
  <2>3. CASE b.uses # {}
    <3>1. m.role = "assistant"
      BY <2>1, <2>3 DEF Calls
    <3> QED BY <2>1, <2>3, <3>1 DEF Pending, Unanswered, Plain
  <2> QED BY <2>2, <2>3
<1> QED BY <1>2, <1>3

\* One more block of a conversation: "before" is what its predecessor left open.
LEMMA BlockFits ==
    ASSUME NEW out \in Plain, NEW before, NEW b \in Block, Pending(out, before),
           b.role = "user" => b.uses = {} /\ Range(b.results) = before,
           b.role = "assistant" => b.results = <<>> /\ before = {}
    PROVE  /\ Pending(GeminiStep(out, b), b.uses)
           /\ b.results = <<>> \/ ~b.text => Pending(AnthropicStep(out, b), b.uses)
<1> DEFINE t == ResultsOf(b)
           u == Spoken(b)
<1>1. /\ out \in Seq(Msg({NoId})) /\ t \in Plain /\ t \in Seq(Msg({NoId})) /\ u \in Seq(Msg({NoId}))
      /\ Len(t) = Len(b.results) /\ b.results \in Seq(HistoryIds) /\ Len(b.results) \in Nat
      /\ \A k \in 1..Len(t) : t[k].role = "tool" /\ t[k].id = b.results[k]
  BY ResultsAre, SpokenAre, BlocksAre DEF Plain
<1>2. b.role \in {"user", "assistant"} /\ b.text \in BOOLEAN
  BY BlocksAre
<1>3. Range(b.results) = before
  <2>1. CASE b.role = "user"
    BY <2>1
  <2>2. CASE b.role = "assistant"
    <3>1. DOMAIN <<>> = {} /\ b.results = <<>> /\ before = {}
      BY <2>2
    <3> QED BY <3>1 DEF Range
  <2> QED BY <1>2, <2>1, <2>2
<1>4. {t[k].id : k \in 1..Len(t)} = before
  <2>1. DOMAIN b.results = 1..Len(b.results)
    BY <1>1, LenProperties
  <2>2. Range(b.results) = {b.results[k] : k \in 1..Len(b.results)}
    BY <2>1 DEF Range
  <2>3. {t[k].id : k \in 1..Len(t)} = {b.results[k] : k \in 1..Len(b.results)}
    BY SMTT(30), <1>1
  <2> QED BY <1>3, <2>2, <2>3
<1> HIDE DEF t, u
<1>5. WellFormed(out \o t) /\ out \o t \in Plain
  <2>1. WellFormed(out \o t)
    BY <1>1, <1>4, AnswersFit DEF Pending
  <2> QED BY <1>1, <2>1, ConcatProperties DEF Plain
<1>6. Pending((out \o t) \o u, b.uses)
  BY <1>5, SpokenFits DEF u
<1>7. CASE b.results = <<>>
  <2>1. t = <<>>
    <3>1. Len(t) = 0
      BY <1>1, <1>7, EmptySeq
    <3> QED BY <1>1, <3>1, EmptySeq
  <2>2. out \o <<>> = out /\ (out \o u) \o <<>> = out \o u
    <3>1. out \o u \in Seq(Msg({NoId}))
      BY <1>1, ConcatProperties
    <3> QED BY <1>1, <3>1, ConcatEmptySeq
  <2>3. (out \o t) \o u = (out \o u) \o t
    BY <2>1, <2>2
  <2> QED BY <1>6, <2>3 DEF AnthropicStep, GeminiStep, t, u
<1>8. CASE b.results # <<>> /\ ~b.text
  <2>1. b.uses = {}
    BY <1>2, <1>8
  <2>2. u = <<>>
    BY <1>8, <2>1, SpokenAre DEF u
  <2>3. out \o <<>> = out /\ (out \o t) \o <<>> = out \o t
    <3>1. out \o t \in Seq(Msg({NoId}))
      BY <1>5 DEF Plain
    <3> QED BY <1>1, <3>1, ConcatEmptySeq
  <2>4. (out \o t) \o u = (out \o u) \o t
    BY <2>2, <2>3
  <2> QED BY <1>6, <2>4 DEF AnthropicStep, GeminiStep, t, u
<1>9. CASE b.results # <<>> /\ b.text
  BY <1>6, <1>9 DEF GeminiStep, t, u
<1> QED BY <1>2, <1>7, <1>8, <1>9

Quiet(bs, n) == \A k \in 1..n : bs[k].results = <<>> \/ ~bs[k].text

LEMMA ConversionFits ==
    ASSUME NEW bs, BlocksFollow(bs), NEW n \in 0..Len(bs)
    PROVE  LET uses == IF n = 0 THEN {} ELSE bs[n].uses IN
           /\ FromGemini(SubSeq(bs, 1, n)) \in Plain /\ FromAnthropic(SubSeq(bs, 1, n)) \in Plain
           /\ Pending(FromGemini(SubSeq(bs, 1, n)), uses)
           /\ Quiet(bs, n) => Pending(FromAnthropic(SubSeq(bs, 1, n)), uses)
<1> DEFINE p(k) == SubSeq(bs, 1, k)
           uses(k) == IF k = 0 THEN {} ELSE bs[k].uses
           R == {k \in 0..Len(bs) : /\ Pending(FromGemini(p(k)), uses(k))
                                    /\ Quiet(bs, k) => Pending(FromAnthropic(p(k)), uses(k))}
<1>1. bs \in Seq(Block) /\ Len(bs) \in Nat /\ p(0) = <<>>
      /\ (\A k \in 0..Len(bs) : p(k) \in Seq(Block))
      /\ \A k \in 1..Len(bs) : bs[k] \in Block /\ p(k) = Append(p(k - 1), bs[k])
  BY PrefixesAre, LenProperties DEF BlocksFollow
<1> HIDE DEF p
<1>2. \A k \in 0..Len(bs) : FromGemini(p(k)) \in Plain /\ FromAnthropic(p(k)) \in Plain
  BY <1>1, AnthropicSteps, GeminiSteps
<1>3. 0 \in R
  <2>1. FromGemini(p(0)) = <<>> /\ FromAnthropic(p(0)) = <<>> /\ 0 \in 0..Len(bs)
    BY <1>1, AnthropicSteps, GeminiSteps
  <2> QED BY <2>1, EmptyFits DEF Pending, Unanswered
<1>4. \A k \in 1..Len(bs) : k - 1 \in R => k \in R
  <2> TAKE k \in 1..Len(bs)
  <2> HAVE k - 1 \in R
  <2> DEFINE b == bs[k]
             before == uses(k - 1)
  <2>1. /\ k \in 0..Len(bs) /\ k - 1 \in 0..Len(bs) /\ b \in Block /\ p(k) = Append(p(k - 1), b) /\ p(k - 1) \in Seq(Block)
        /\ uses(k) = b.uses /\ (k = 1 <=> k - 1 = 0)
        /\ Pending(FromGemini(p(k - 1)), before)
        /\ Quiet(bs, k - 1) => Pending(FromAnthropic(p(k - 1)), before)
    <3>1. k \in 0..Len(bs) /\ k - 1 \in 0..Len(bs) /\ k # 0 /\ (k = 1 => k - 1 = 0) /\ (k - 1 = 0 => k = 1)
      <4> HIDE DEF R
      <4> QED BY <1>1
    <3>2. b \in Block /\ p(k) = Append(p(k - 1), b) /\ p(k - 1) \in Seq(Block) /\ uses(k) = b.uses
      BY <1>1, <3>1
    <3>3. /\ Pending(FromGemini(p(k - 1)), before)
          /\ Quiet(bs, k - 1) => Pending(FromAnthropic(p(k - 1)), before)
      OBVIOUS
    <3> QED BY <3>1, <3>2, <3>3
  <2>2. FromGemini(p(k)) = GeminiStep(FromGemini(p(k - 1)), b) /\ FromAnthropic(p(k)) = AnthropicStep(FromAnthropic(p(k - 1)), b)
    BY <2>1, AnthropicSteps, GeminiSteps
  <2>3. /\ b.role = "user" => b.uses = {} /\ Range(b.results) = before
        /\ b.role = "assistant" => b.results = <<>> /\ before = {}
    <3>1. BlockFollows(bs, k)
      BY DEF BlocksFollow
    <3>2. b.role = "user" => b.uses = {} /\ Range(b.results) = before
      BY <2>1, <3>1 DEF BlockFollows
    <3>3. ASSUME b.role = "assistant" PROVE b.results = <<>> /\ before = {}
      <4>1. b.results = <<>> /\ k > 1 /\ bs[k - 1].role = "user"
        BY <3>1, <3>3 DEF BlockFollows
      <4>2. k - 1 \in 1..Len(bs) /\ k - 1 # 0
        BY <4>1
      <4>3. BlockFollows(bs, k - 1)
        BY <4>2 DEF BlocksFollow
      <4> QED BY <4>1, <4>2, <4>3 DEF BlockFollows
    <3> QED BY <3>2, <3>3
  <2>4. Quiet(bs, k) => Quiet(bs, k - 1) /\ (b.results = <<>> \/ ~b.text)
    BY <2>1 DEF Quiet
  <2> HIDE DEF b, before
  <2>5. Pending(GeminiStep(FromGemini(p(k - 1)), b), b.uses)
    BY <1>2, <2>1, <2>3, BlockFits
  <2>6. Quiet(bs, k) => Pending(AnthropicStep(FromAnthropic(p(k - 1)), b), b.uses)
    BY <1>2, <2>1, <2>3, <2>4, BlockFits
  <2> QED BY <2>1, <2>2, <2>5, <2>6
<1> HIDE DEF R
<1>5. \A k \in 0..Len(bs) : k \in R
  BY <1>1, <1>3, <1>4, Up
<1> QED BY <1>2, <1>5 DEF R, p

LEMMA ConversionsSound ==
    ASSUME NEW bs, BlocksFollow(bs), bs # <<>>, Last(bs).uses = {}
    PROVE  /\ EnsureValid(FromGemini(bs)) = FromGemini(bs)
           /\ Quiet(bs, Len(bs)) => EnsureValid(FromAnthropic(bs)) = FromAnthropic(bs)
<1>1. bs \in Seq(Block) /\ Len(bs) \in 0..Len(bs) /\ Len(bs) # 0 /\ SubSeq(bs, 1, Len(bs)) = bs
      /\ bs[Len(bs)].uses = {}
  BY LenProperties, EmptySeq, SubSeqFull DEF BlocksFollow, Last
<1>2. /\ FromGemini(bs) \in Plain /\ FromAnthropic(bs) \in Plain /\ WellFormed(FromGemini(bs))
      /\ Quiet(bs, Len(bs)) => WellFormed(FromAnthropic(bs))
  BY <1>1, ConversionFits DEF Pending, Unanswered
<1> QED BY <1>2, RepairKeeps DEF Plain

----------------------------------------------------------------------------
(* The histories that are tried.                                           *)

Alternate(bs) == \A k \in 1..Len(bs) : bs[k].role = IF (k - 1) % 2 = 0 THEN "user" ELSE "assistant"
MhInv == history \in Plain /\ BlocksFollow(blocks) /\ Alternate(blocks)

LEMMA MhStart == ASSUME MhInit PROVE MhInv
<1>1. <<>> \in Plain /\ <<>> \in Seq(Block) /\ Len(<<>>) = 0
  BY EmptySeq DEF Plain
<1> QED BY <1>1 DEF MhInit, MhInv, BlocksFollow, Alternate

LEMMA MhStep == ASSUME MhInv, MhNext PROVE MhInv'
<1>1. history \in Plain /\ blocks \in Seq(Block) /\ Len(blocks) \in Nat
      /\ (\A k \in 1..Len(blocks) : BlockFollows(blocks, k) /\ blocks[k] \in Block) /\ Alternate(blocks)
  BY LenProperties, ElementOfSeq DEF MhInv, BlocksFollow
<1>2. CASE \E m \in Letters : history' = Append(history, m) /\ UNCHANGED blocks
  <2>1. PICK m \in Letters : history' = Append(history, m) /\ blocks' = blocks
    BY <1>2
  <2>2. m \in Msg({NoId})
    <3>1. \A S \in SUBSET HistoryIds : S \in SUBSET CallIds
      BY HistoryAssumption
    <3>2. \A c \in HistoryIds : c \in CallIds
      BY HistoryAssumption
    <3>3. CASE m \in {Text(r, NoId) : r \in {"system", "user", "assistant"}}
      <4>1. PICK r \in {"system", "user", "assistant"} : m = Text(r, NoId)
        BY <3>3
      <4>2. Text(r, NoId) \in Msg({NoId})
        BY TextsAre
      <4> QED BY <4>1, <4>2
    <3>4. CASE m \in {CallMsg(S, NoId) : S \in (SUBSET HistoryIds) \ {{}}}
      <4>1. PICK S \in SUBSET HistoryIds : m = CallMsg(S, NoId)
        BY <3>4
      <4>2. CallMsg(S, NoId) \in Msg({NoId})
        BY <3>1, TextsAre
      <4> QED BY <4>1, <4>2
    <3>5. CASE m \in {ToolMsg(c) : c \in HistoryIds}
      <4>1. PICK c \in HistoryIds : m = ToolMsg(c)
        BY <3>5
      <4>2. ToolMsg(c) \in Msg({NoId})
        BY <3>2, TextsAre
      <4> QED BY <4>1, <4>2
    <3> QED BY <3>3, <3>4, <3>5 DEF Letters
  <2>3. history' \in Plain
    BY <1>1, <2>1, <2>2, AppendProperties DEF Plain
  <2> QED BY <2>1, <2>3 DEF MhInv
<1>3. CASE \E b \in Block : Follows(b) /\ blocks' = Append(blocks, b) /\ UNCHANGED history
  <2>1. PICK b \in Block : Follows(b) /\ blocks' = Append(blocks, b) /\ history' = history
    BY <1>3
  <2> DEFINE n == Len(blocks)
             bs == blocks'
  <2>2. /\ bs \in Seq(Block) /\ Len(bs) = n + 1 /\ n \in Nat
        /\ (\A k \in 1..n : bs[k] = blocks[k]) /\ bs[n + 1] = b
        /\ \A k \in 1..(n + 1) : k \in 1..n \/ k = n + 1
    BY <1>1, <2>1, Appended
  <2>3. /\ b.role = IF n % 2 = 0 THEN "user" ELSE "assistant"
        /\ b.role = "user" => b.uses = {} /\ Range(b.results) = (IF blocks = <<>> THEN {} ELSE Last(blocks).uses)
        /\ b.role = "assistant" => b.results = <<>>
    BY <2>1 DEF Follows
  <2>4. (blocks = <<>> <=> n = 0) /\ Last(blocks) = blocks[n]
    BY <1>1, EmptySeq DEF Last
  <2> HIDE DEF bs, n
  <2>5. Alternate(bs)
    <3> SUFFICES ASSUME NEW k \in 1..Len(bs) PROVE bs[k].role = IF (k - 1) % 2 = 0 THEN "user" ELSE "assistant"
      BY DEF Alternate
    <3>1. CASE k \in 1..n
      <4>1. blocks[k].role = IF (k - 1) % 2 = 0 THEN "user" ELSE "assistant"
        BY <1>1, <3>1 DEF Alternate, n
      <4> QED BY <2>2, <3>1, <4>1
    <3>2. CASE k = n + 1
      <4>1. k - 1 = n
        BY <2>2, <3>2
      <4> QED BY <2>2, <2>3, <3>2, <4>1
    <3> QED BY <2>2, <3>1, <3>2
  <2>6. \A k \in 1..Len(bs) : BlockFollows(bs, k)
    <3> TAKE k \in 1..Len(bs)
    <3>1. CASE k \in 1..n
      <4>1. BlockFollows(blocks, k) /\ bs[k] = blocks[k] /\ (k > 1 => k - 1 \in 1..n /\ bs[k - 1] = blocks[k - 1])
        BY <1>1, <2>2, <3>1 DEF n
      <4>2. k = 1 \/ k > 1
        BY <3>1, <2>2
      <4> QED BY <4>1, <4>2 DEF BlockFollows
    <3>2. CASE k = n + 1
      <4>1. bs[k] = b /\ k - 1 = n /\ (n = 0 <=> k = 1) /\ (n # 0 => bs[n] = blocks[n] /\ n \in 1..n /\ k > 1)
        BY <2>2, <3>2
      <4>2. b.role = "user" => b.uses = {} /\ Range(b.results) = IF k = 1 THEN {} ELSE bs[k - 1].uses
        BY <2>3, <2>4, <4>1
      <4>3. ASSUME b.role = "assistant" PROVE n # 0 /\ bs[n].role = "user"
        <5>1. n % 2 # 0
          BY <2>3, <4>3
        <5>2. n # 0 /\ (n - 1) % 2 = 0
          BY <2>2, <5>1, EvenBefore
        <5> QED BY <1>1, <4>1, <5>2 DEF Alternate, n
      <4> QED BY <2>3, <4>1, <4>2, <4>3 DEF BlockFollows
    <3> QED BY <2>2, <3>1, <3>2
  <2> QED BY <1>1, <2>1, <2>2, <2>5, <2>6 DEF MhInv, BlocksFollow, bs
<1> QED BY <1>2, <1>3 DEF MhNext

LEMMA RepairSound == ASSUME MhInv PROVE RepairIsSound
<1>1. history \in Seq(Msg({NoId}))
  BY DEF MhInv, Plain
<1> QED BY <1>1, RepairFits, RepairSays, RepairKeeps DEF RepairIsSound

LEMMA PruneSound == ASSUME MhInv PROVE PruneKeepsPairs
<1> SUFFICES ASSUME WellFormed(history) PROVE PruneKeepsPairs
  BY DEF PruneKeepsPairs
<1>1. history \in Seq(Msg({NoId}))
  BY DEF MhInv, Plain
<1>2. Prune(history) \in Seq(Msg({NoId})) /\ PrunedTo(history, Prune(history))
  BY <1>1, PruneFits
<1>3. PreCallClean(Prune(history)) = Prune(history)
  BY <1>2, CleanKeeps DEF PrunedTo
<1> QED BY <1>2, <1>3 DEF PruneKeepsPairs, PrunedTo

LEMMA ConversionSound == ASSUME MhInv PROVE ConversionsKeepPairs
BY ConversionsSound DEF ConversionsKeepPairs, MhInv, Quiet

----------------------------------------------------------------------------
(* The runs: messages, the cache, and what is kept of what users say.      *)

RunTags == AgentRuns \union {NoId}
Messages == Seq(Msg(RunTags))
RunIn == [pc: Pcs, sess: AgentSessions, msgs: Messages, turn: 0..MaxTurns, todo: Seq(CallIds),
          decision: {"none", "open", "yes", "no"}]

\* A history in the middle of its last calls: some have results, the others are to do.
Answering(msgs, todo) ==
    /\ todo # <<>>
    /\ \E out \in Messages, t \in Messages, uses \in SUBSET CallIds :
         /\ msgs = out \o t /\ Unanswered(RunTags, out, uses)
         /\ \A k \in 1..Len(t) : t[k].role = "tool"
         /\ uses = {t[k].id : k \in 1..Len(t)} \union {todo[k] : k \in 1..Len(todo)}
MsgsFit(x) ==
    /\ x.pc = "turn" => WellFormed(x.msgs)
    /\ x.pc \in {"tools", "approval"} => Answering(x.msgs, x.todo)
    /\ x.pc \in {"idle", "setup"} => x.msgs = <<>>

Entry == [s: AgentSessions, msgs: Messages]
CacheFits ==
    /\ cached \in Seq(Entry) /\ Len(cached) <= CacheSessions
    /\ \A i, j \in 1..Len(cached) : cached[i].s = cached[j].s => i = j

\* Every cached session keeps its messages, except one and those that are evicted.
CacheKeeps(except) ==
    \A i \in 1..Len(cached) :
        \/ cached[i].s \in evicted' \union except
        \/ \E j \in 1..Len(cached') : cached'[j] = cached[i]
CacheHolds(s, msgs) == \E j \in 1..Len(cached') : cached'[j] = [s |-> s, msgs |-> msgs]

Active(x) == x.pc \notin {"idle"} \union RunOver
Running == {"turn", "tools", "approval", "save", "exit", "collected"}
Saved(x) == x.pc \in {"closing", "ended"} /\ x.msgs # <<>>
Tags(msgs) == {RolesOf(msgs)[k][2] : k \in 1..Len(RolesOf(msgs))}

\* One run of a session at a time, which its decisions reach.
Lone == \A r, q \in AgentRuns :
    arun[r].sess = arun[q].sess /\ arun[r].sess \notin shared /\ Active(arun[r]) /\ Active(arun[q]) => r = q
Reached == \A r \in AgentRuns :
    Active(arun[r]) /\ arun[r].pc # "collected" /\ arun[r].sess \notin shared => activeRun[arun[r].sess] = r
MissedLate == \A r \in missed : arun[r].pc # "idle" /\ arun[r].sess \in shared

\* What was said in runs whose messages are saved is cached, and known to those that
\* still go on.
Whole(s) == s \notin pruned \union evicted \union shared
SaidKnown ==
    /\ \A r \in AgentRuns : Saved(arun[r]) /\ Whole(arun[r].sess) =>
         \E i \in 1..Len(cached) : cached[i].s = arun[r].sess /\ r \in Tags(cached[i].msgs)
    /\ \A q \in AgentRuns : arun[q].pc \in Running /\ Whole(arun[q].sess) =>
         /\ q \in Tags(arun[q].msgs)
         /\ \A r \in AgentRuns : Saved(arun[r]) /\ arun[r].sess = arun[q].sess => r \in Tags(arun[q].msgs)

ArFits ==
    /\ arun \in [AgentRuns -> RunIn] /\ (\A r \in AgentRuns : MsgsFit(arun[r]))
    /\ CacheFits /\ activeRun \in [AgentSessions -> AgentRuns \union {NoRun}]
    /\ missed \subseteq AgentRuns /\ shared \subseteq AgentSessions
    /\ pruned \subseteq AgentSessions /\ evicted \subseteq AgentSessions
    /\ disconnects \in 0..MaxDisconnects
ArInv == ArFits /\ Lone /\ Reached /\ MissedLate /\ SaidKnown

LEMMA CacheSetFits ==
    ASSUME CacheFits, evicted \subseteq AgentSessions, NEW s \in AgentSessions, NEW msgs \in Messages, CacheSet(s, msgs)
    PROVE  /\ CacheFits' /\ evicted' \subseteq AgentSessions /\ evicted \subseteq evicted'
           /\ CacheKeeps({s}) /\ CacheHolds(s, msgs)
<1> DEFINE new == [s |-> s, msgs |-> msgs]
           at == CHOOSE i \in InCache(s) : TRUE
           rest == IF InCache(s) = {} THEN cached ELSE RemoveAt(cached, at)
           all == Append(rest, new)
<1>1. /\ cached \in Seq(Entry) /\ Len(cached) \in Nat /\ Len(cached) <= CacheSessions /\ CacheSessions \in Nat \ {0}
      /\ \A i, j \in 1..Len(cached) : cached[i].s = cached[j].s => i = j
      /\ \A i \in 1..Len(cached) : cached[i] \in Entry
  BY LenProperties, ElementOfSeq, AgentRunAssumption DEF CacheFits
<1>2. new \in Entry
  BY DEF Entry
<1>3. /\ rest \in Seq(Entry) /\ Len(rest) \in Nat /\ Len(rest) <= Len(cached)
      /\ \A i \in 1..Len(rest) : rest[i].s # s
      /\ \A i, j \in 1..Len(rest) : rest[i].s = rest[j].s => i = j
      /\ \A i \in 1..Len(cached) : cached[i].s = s \/ \E j \in 1..Len(rest) : rest[j] = cached[i]
  <2>1. CASE InCache(s) = {}
    <3>1. rest = cached
      BY <2>1
    <3>2. \A i \in 1..Len(cached) : cached[i].s # s
      BY <2>1 DEF InCache
    <3> HIDE DEF rest
    <3> QED BY <1>1, <3>1, <3>2
  <2>2. CASE InCache(s) # {}
    <3>1. at \in 1..Len(cached) /\ cached[at].s = s
      BY <2>2 DEF InCache
    <3>2. rest = RemoveAt(cached, at)
      BY <2>2
    <3> HIDE DEF at, rest
    <3>3. /\ rest \in Seq(Entry) /\ Len(rest) = Len(cached) - 1
          /\ \A j \in 1..Len(rest) : rest[j] = IF j < at THEN cached[j] ELSE cached[j + 1]
      BY <1>1, <3>1, <3>2, RemoveAtSeq
    <3>4. \A j \in 1..Len(rest) : IF j < at THEN rest[j] = cached[j] /\ j \in 1..Len(cached)
                                  ELSE rest[j] = cached[j + 1] /\ j + 1 \in 1..Len(cached) /\ j + 1 > at
      BY <1>1, <3>1, <3>3
    <3>5. \A j \in 1..Len(rest) : rest[j].s # s
      <4> TAKE j \in 1..Len(rest)
      <4>1. CASE j < at
        <5>1. rest[j] = cached[j] /\ j \in 1..Len(cached) /\ j # at
          BY <3>1, <3>4, <4>1
        <5> QED BY <1>1, <3>1, <5>1
      <4>2. CASE ~(j < at)
        <5>1. PICK k \in 1..Len(cached) : k = j + 1 /\ rest[j] = cached[k] /\ k # at
          BY <3>1, <3>4, <4>2
        <5> QED BY <1>1, <3>1, <5>1
      <4> QED BY <4>1, <4>2
    <3>6. \A i, j \in 1..Len(rest) : rest[i].s = rest[j].s => i = j
      <4> TAKE i \in 1..Len(rest), j \in 1..Len(rest)
      <4> HAVE rest[i].s = rest[j].s
      <4>1. PICK k \in 1..Len(cached) : k = (IF i < at THEN i ELSE i + 1) /\ rest[i] = cached[k]
        BY <3>4
      <4>2. PICK l \in 1..Len(cached) : l = (IF j < at THEN j ELSE j + 1) /\ rest[j] = cached[l]
        BY <3>4
      <4>3. k = l
        BY <1>1, <4>1, <4>2
      <4> QED BY <3>1, <4>1, <4>2, <4>3
    <3>7. \A i \in 1..Len(cached) : cached[i].s = s \/ \E j \in 1..Len(rest) : rest[j] = cached[i]
      <4> TAKE i \in 1..Len(cached)
      <4>1. CASE i < at
        <5>1. i \in 1..Len(rest) /\ rest[i] = cached[i]
          BY <1>1, <3>1, <3>3, <4>1
        <5> QED BY <5>1
      <4>2. CASE i = at
        BY <3>1, <4>2
      <4>3. CASE i > at
        <5>1. i - 1 \in 1..Len(rest) /\ ~(i - 1 < at) /\ i - 1 + 1 = i
          BY <1>1, <3>1, <3>3, <4>3
        <5>2. rest[i - 1] = cached[i - 1 + 1]
          BY <3>3, <5>1
        <5> QED BY <5>1, <5>2
      <4> QED BY <3>1, <4>1, <4>2, <4>3
    <3> QED BY <1>1, <3>3, <3>5, <3>6, <3>7
  <2> QED BY <2>1, <2>2
<1>4. \/ Len(all) > CacheSessions /\ cached' = Tail(all) /\ evicted' = evicted \union {Head(all).s}
      \/ ~(Len(all) > CacheSessions) /\ cached' = all /\ evicted' = evicted
  BY DEF CacheSet
<1> HIDE DEF rest, at, new
<1>5. /\ all \in Seq(Entry) /\ Len(all) = Len(rest) + 1
      /\ (\A i \in 1..Len(rest) : all[i] = rest[i]) /\ all[Len(rest) + 1] = new
      /\ \A i \in 1..(Len(rest) + 1) : i \in 1..Len(rest) \/ i = Len(rest) + 1
  BY <1>2, <1>3, Appended
<1> HIDE DEF all
<1>6. new.s = s
  BY DEF new
<1>7. \A i, j \in 1..Len(all) : all[i].s = all[j].s => i = j
  <2> TAKE i \in 1..Len(all), j \in 1..Len(all)
  <2> HAVE all[i].s = all[j].s
  <2>1. i = Len(rest) + 1 => all[i].s = s
    BY <1>5, <1>6
  <2>2. j = Len(rest) + 1 => all[j].s = s
    BY <1>5, <1>6
  <2>3. i \in 1..Len(rest) => all[i].s = rest[i].s /\ all[i].s # s
    BY <1>3, <1>5
  <2>4. j \in 1..Len(rest) => all[j].s = rest[j].s /\ all[j].s # s
    BY <1>3, <1>5
  <2>5. (i \in 1..Len(rest) \/ i = Len(rest) + 1) /\ (j \in 1..Len(rest) \/ j = Len(rest) + 1)
    BY <1>5
  <2>6. CASE i \in 1..Len(rest) /\ j \in 1..Len(rest)
    BY <1>3, <2>3, <2>4, <2>6
  <2> QED BY <2>1, <2>2, <2>3, <2>4, <2>5, <2>6
<1>8. CASE Len(all) > CacheSessions /\ cached' = Tail(all) /\ evicted' = evicted \union {Head(all).s}
  <2>1. all # <<>> /\ Head(all) = all[1] /\ 1 \in 1..Len(all) /\ all[1] \in Entry
    BY <1>1, <1>3, <1>5, <1>8, EmptySeq, ElementOfSeq, HeadTailProperties
  <2>2. cached' \in Seq(Entry) /\ Len(cached') = Len(all) - 1 /\ \A i \in 1..Len(cached') : cached'[i] = all[i + 1]
    BY <1>5, <1>8, <2>1, HeadTailProperties
  <2>3. \A i \in 1..Len(cached') : i + 1 \in 1..Len(all)
    BY <1>3, <1>5, <2>2
  <2>4. \A i, j \in 1..Len(cached') : cached'[i].s = cached'[j].s => i = j
    <3> TAKE i \in 1..Len(cached'), j \in 1..Len(cached')
    <3> HAVE cached'[i].s = cached'[j].s
    <3>1. i + 1 = j + 1
      BY <1>7, <2>2, <2>3
    <3> QED BY <3>1
  <2>5. CacheFits'
    BY <1>1, <1>3, <1>5, <2>2, <2>4 DEF CacheFits
  <2>6. evicted' \subseteq AgentSessions /\ evicted \subseteq evicted' /\ all[1].s \in evicted'
    BY <1>8, <2>1 DEF Entry
  <2>7. CacheHolds(s, msgs)
    <3>1. Len(rest) \in 1..Len(cached')
      BY <1>1, <1>3, <1>5, <1>8, <2>2
    <3>2. cached'[Len(rest)] = new
      BY <1>5, <2>2, <3>1
    <3> QED BY <3>1, <3>2 DEF CacheHolds, new
  <2>8. CacheKeeps({s})
    <3> SUFFICES ASSUME NEW i \in 1..Len(cached), cached[i].s \notin evicted' \union {s}
                 PROVE  \E j \in 1..Len(cached') : cached'[j] = cached[i]
      BY DEF CacheKeeps
    <3>1. PICK j \in 1..Len(rest) : rest[j] = cached[i]
      BY <1>3
    <3>2. all[j] = cached[i] /\ j # 1
      BY <1>5, <2>6, <3>1
    <3>3. j - 1 \in 1..Len(cached') /\ j - 1 + 1 = j
      BY <1>3, <1>5, <2>2, <3>2
    <3>4. cached'[j - 1] = all[j - 1 + 1]
      BY <2>2, <3>3
    <3> QED BY <3>2, <3>3, <3>4
  <2> QED BY <2>5, <2>6, <2>7, <2>8
<1>9. CASE ~(Len(all) > CacheSessions) /\ cached' = all /\ evicted' = evicted
  <2>1. CacheFits'
    BY <1>1, <1>3, <1>5, <1>7, <1>9 DEF CacheFits
  <2>2. CacheHolds(s, msgs)
    <3>1. Len(rest) + 1 \in 1..Len(cached')
      BY <1>3, <1>5, <1>9
    <3> QED BY <1>5, <1>9, <3>1 DEF CacheHolds, new
  <2>3. CacheKeeps({s})
    <3> SUFFICES ASSUME NEW i \in 1..Len(cached), cached[i].s \notin evicted' \union {s}
                 PROVE  \E j \in 1..Len(cached') : cached'[j] = cached[i]
      BY DEF CacheKeeps
    <3>1. PICK j \in 1..Len(rest) : rest[j] = cached[i]
      BY <1>3
    <3>2. j \in 1..Len(cached')
      BY <1>3, <1>5, <1>9
    <3> QED BY <1>5, <1>9, <3>1, <3>2
  <2> QED BY <1>9, <2>1, <2>2, <2>3
<1> QED BY <1>4, <1>8, <1>9

LEMMA CachedAre ==
    ASSUME CacheFits, NEW s
    PROVE  /\ InCache(s) # {} => /\ MessagesOf(s) \in Messages
                                 /\ \E i \in 1..Len(cached) : cached[i] = [s |-> s, msgs |-> MessagesOf(s)]
           /\ \A i \in 1..Len(cached) : cached[i].s = s => InCache(s) # {} /\ MessagesOf(s) = cached[i].msgs
<1> DEFINE at == CHOOSE i \in InCache(s) : TRUE
<1>1. \A i \in 1..Len(cached) : cached[i] \in Entry
  BY ElementOfSeq DEF CacheFits
<1>2. InCache(s) # {} => at \in 1..Len(cached) /\ cached[at].s = s /\ MessagesOf(s) = cached[at].msgs
  BY DEF InCache, MessagesOf
<1> HIDE DEF at
<1>3. InCache(s) # {} => MessagesOf(s) \in Messages /\ cached[at] = [s |-> s, msgs |-> MessagesOf(s)]
  BY <1>1, <1>2 DEF Entry
<1>4. \A i \in 1..Len(cached) : cached[i].s = s => InCache(s) # {} /\ MessagesOf(s) = cached[i].msgs
  <2> TAKE i \in 1..Len(cached)
  <2> HAVE cached[i].s = s
  <2>1. InCache(s) # {}
    BY DEF InCache
  <2>2. at = i
    BY <1>2, <2>1 DEF CacheFits
  <2> QED BY <1>2, <2>1, <2>2
<1> QED BY <1>2, <1>3, <1>4

LEMMA CompactionsFit ==
    ASSUME NEW T, NEW s \in Seq(Msg(T)), NEW x \in Compactions(s)
    PROVE  /\ WellFormed(s) => x \in Seq(Msg(T)) /\ WellFormed(x) /\ PreCallClean(x) = x
           /\ x = s \/ x = Prune(s)
<1>1. x = s \/ x = Prune(s)
  BY DEF Compactions
<1> SUFFICES ASSUME WellFormed(s) PROVE x \in Seq(Msg(T)) /\ WellFormed(x) /\ PreCallClean(x) = x
  BY <1>1
<1>2. x \in Seq(Msg(T)) /\ WellFormed(x)
  BY <1>1, PruneFits DEF PrunedTo
<1> QED BY <1>2, CleanKeeps

LEMMA TagsAre ==
    ASSUME NEW T, NEW s \in Seq(Msg(T))
    PROVE  /\ \A x \in Tags(s) : \E k \in 1..Len(s) : s[k].tag = x
           /\ \A m \in Msg(T) : /\ m.role # "tool" => Tags(Append(s, m)) = Tags(s) \union {m.tag}
                                /\ m.role = "tool" => Tags(Append(s, m)) = Tags(s)
           /\ Tags(EnsureValid(s)) = Tags(s)
<1>1. \A a \in Seq(Msg(T)), m \in Msg(T) :
        /\ m.role # "tool" => Tags(Append(a, m)) = Tags(a) \union {m.tag}
        /\ m.role = "tool" => Tags(Append(a, m)) = Tags(a)
  <2> TAKE a \in Seq(Msg(T)), m \in Msg(T)
  <2>1. RolesOf(a) \in Seq(Said(T)) /\ RolesOf(Append(a, m)) = SaidKept(RolesOf(a), m)
    BY RolesSteps
  <2> DEFINE o == RolesOf(a)
             w == <<m.role, m.tag>>
  <2>2. w \in Said(T) /\ w[2] = m.tag
    BY DEF Msg, Said
  <2> HIDE DEF w, o
  <2>3. CASE m.role # "tool"
    <3>1. RolesOf(Append(a, m)) = Append(o, w)
      BY <2>1, <2>3 DEF SaidKept, o, w
    <3>2. /\ Len(o) \in Nat /\ Len(Append(o, w)) = Len(o) + 1 /\ (\A i \in 1..Len(o) : Append(o, w)[i] = o[i])
          /\ Append(o, w)[Len(o) + 1] = w /\ \A i \in 1..(Len(o) + 1) : i \in 1..Len(o) \/ i = Len(o) + 1
      BY <2>1, <2>2, Appended DEF o
    <3>3. PICK v : v = Append(o, w)
      OBVIOUS
    <3>4. {v[k][2] : k \in 1..Len(v)} = {o[k][2] : k \in 1..Len(o)} \union {w[2]}
      <4>1. \A k \in 1..Len(o) : k \in 1..Len(v) /\ v[k] = o[k]
        BY <3>2, <3>3
      <4>2. Len(o) + 1 \in 1..Len(v) /\ v[Len(o) + 1] = w
        BY <3>2, <3>3
      <4>3. \A k \in 1..Len(v) : (k \in 1..Len(o) /\ v[k] = o[k]) \/ v[k] = w
        BY <3>2, <3>3
      <4> QED BY <4>1, <4>2, <4>3
    <3>5. Tags(Append(a, m)) = {v[k][2] : k \in 1..Len(v)}
      BY <3>1, <3>3 DEF Tags
    <3>6. Tags(a) = {o[k][2] : k \in 1..Len(o)}
      BY DEF Tags, o
    <3>7. Tags(Append(a, m)) = Tags(a) \union {m.tag}
      BY <2>2, <3>4, <3>5, <3>6
    <3> QED BY <2>3, <3>7
  <2>4. CASE m.role = "tool"
    BY <2>1, <2>4 DEF SaidKept, Tags
  <2> QED BY <2>3, <2>4
<1>2. Tags(EnsureValid(s)) = Tags(s)
  BY RepairSays DEF Tags
<1>3. \A x \in Tags(s) : \E k \in 1..Len(s) : s[k].tag = x
  <2> DEFINE p(k) == SubSeq(s, 1, k)
             R == {k \in 0..Len(s) : \A x \in Tags(p(k)) : \E i \in 1..k : s[i].tag = x}
  <2>1. Len(s) \in Nat /\ p(0) = <<>> /\ p(Len(s)) = s
        /\ (\A k \in 0..Len(s) : p(k) \in Seq(Msg(T)))
        /\ \A k \in 1..Len(s) : s[k] \in Msg(T) /\ p(k) = Append(p(k - 1), s[k])
    BY PrefixesAre, LenProperties
  <2> HIDE DEF p
  <2>2. 0 \in R
    <3>1. RolesOf(p(0)) = <<>> /\ Len(<<>>) = 0 /\ 0 \in 0..Len(s)
      BY <2>1, RolesSteps, EmptySeq
    <3>2. Tags(p(0)) = {}
      BY <3>1 DEF Tags
    <3> QED BY <3>1, <3>2
  <2>3. \A k \in 1..Len(s) : k - 1 \in R => k \in R
    <3> TAKE k \in 1..Len(s)
    <3> HAVE k - 1 \in R
    <3>1. k \in 0..Len(s) /\ k - 1 \in 0..Len(s) /\ k \in 1..k /\ \A i \in 1..(k - 1) : i \in 1..k
      BY <2>1
    <3>2. Tags(p(k)) \subseteq Tags(p(k - 1)) \union {s[k].tag}
      <4>1. p(k) = Append(p(k - 1), s[k]) /\ p(k - 1) \in Seq(Msg(T)) /\ s[k] \in Msg(T)
        BY <2>1, <3>1
      <4>2. \/ Tags(Append(p(k - 1), s[k])) = Tags(p(k - 1)) \union {s[k].tag}
            \/ Tags(Append(p(k - 1), s[k])) = Tags(p(k - 1))
        BY <1>1, <4>1
      <4> QED BY <4>1, <4>2
    <3> QED BY <3>1, <3>2
  <2> HIDE DEF R
  <2>4. \A k \in 0..Len(s) : k \in R
    BY <2>1, <2>2, <2>3, Up
  <2>5. Len(s) \in 0..Len(s)
    BY <2>1
  <2> QED BY <2>1, <2>4, <2>5 DEF R
<1> QED BY <1>1, <1>2, <1>3

\* What a step of a run leaves alone.
Moved(r) == arun' \in [AgentRuns -> RunIn] /\ \A q \in AgentRuns \ {r} : arun'[q] = arun[q]
Grown == pruned \subseteq pruned' /\ evicted \subseteq evicted' /\ shared \subseteq shared'
WholeNow(s) == s \notin pruned' \union evicted' \union shared'

\* Three kinds of steps: nothing more is said than before, a run is set up with what
\* is cached, or a run saves its messages.
StaysTold(r) ==
    /\ CacheKeeps({})
    /\ Saved(arun'[r]) => Saved(arun[r]) /\ arun'[r].sess = arun[r].sess
    /\ arun'[r].pc \in Running /\ WholeNow(arun'[r].sess) =>
         /\ arun[r].pc \in Running /\ arun'[r].sess = arun[r].sess
         /\ Tags(arun[r].msgs) \subseteq Tags(arun'[r].msgs)
BeginsTold(r) ==
    /\ CacheKeeps({}) /\ ~Saved(arun'[r]) /\ arun'[r].sess = arun[r].sess
    /\ WholeNow(arun[r].sess) =>
         /\ r \in Tags(arun'[r].msgs)
         /\ \A i \in 1..Len(cached) : cached[i].s = arun[r].sess => Tags(cached[i].msgs) \subseteq Tags(arun'[r].msgs)
SavesTold(r) ==
    /\ CacheKeeps({arun[r].sess}) /\ CacheHolds(arun[r].sess, arun[r].msgs)
    /\ arun[r].pc \in Running /\ arun'[r].pc \notin Running
    /\ arun'[r].msgs = arun[r].msgs /\ arun'[r].sess = arun[r].sess

LEMMA ToldStep ==
    ASSUME SaidKnown, Lone, NEW r \in AgentRuns, Moved(r), Grown, StaysTold(r) \/ BeginsTold(r) \/ SavesTold(r)
    PROVE  SaidKnown'
<1>1. /\ \A q \in AgentRuns : Saved(arun[q]) /\ Whole(arun[q].sess) =>
           \E i \in 1..Len(cached) : cached[i].s = arun[q].sess /\ q \in Tags(cached[i].msgs)
      /\ \A q \in AgentRuns : arun[q].pc \in Running /\ Whole(arun[q].sess) =>
           /\ q \in Tags(arun[q].msgs)
           /\ \A p \in AgentRuns : Saved(arun[p]) /\ arun[p].sess = arun[q].sess => p \in Tags(arun[q].msgs)
  BY DEF SaidKnown
<1>2. \A q \in AgentRuns : q # r => arun'[q] = arun[q]
  BY DEF Moved
<1>3. \A s : WholeNow(s) => Whole(s) /\ s \notin evicted' /\ s \notin shared
  BY DEF Grown, Whole, WholeNow
<1>4. ASSUME \A q \in AgentRuns : Saved(arun'[q]) /\ WholeNow(arun'[q].sess) =>
               \E i \in 1..Len(cached') : cached'[i].s = arun'[q].sess /\ q \in Tags(cached'[i].msgs),
             \A q \in AgentRuns : arun'[q].pc \in Running /\ WholeNow(arun'[q].sess) =>
               /\ q \in Tags(arun'[q].msgs)
               /\ \A p \in AgentRuns : Saved(arun'[p]) /\ arun'[p].sess = arun'[q].sess => p \in Tags(arun'[q].msgs)
      PROVE  SaidKnown'
  BY <1>4 DEF SaidKnown, Whole, WholeNow, Saved, Tags
<1>5. CASE StaysTold(r)
  <2>1. \A q \in AgentRuns : Saved(arun'[q]) => Saved(arun[q]) /\ arun'[q].sess = arun[q].sess
    BY <1>2, <1>5 DEF StaysTold
  <2>2. ASSUME NEW q \in AgentRuns, Saved(arun'[q]), WholeNow(arun'[q].sess)
        PROVE  \E i \in 1..Len(cached') : cached'[i].s = arun'[q].sess /\ q \in Tags(cached'[i].msgs)
    <3>1. PICK i \in 1..Len(cached) : cached[i].s = arun[q].sess /\ q \in Tags(cached[i].msgs)
      BY <1>1, <1>3, <2>1, <2>2
    <3>2. cached[i].s \notin evicted' \union {}
      BY <1>3, <2>1, <2>2, <3>1
    <3>3. PICK j \in 1..Len(cached') : cached'[j] = cached[i]
      BY <1>5, <3>2 DEF StaysTold, CacheKeeps
    <3> QED BY <2>1, <2>2, <3>1, <3>3
  <2>3. ASSUME NEW q \in AgentRuns, arun'[q].pc \in Running, WholeNow(arun'[q].sess)
        PROVE  /\ q \in Tags(arun'[q].msgs)
               /\ \A p \in AgentRuns : Saved(arun'[p]) /\ arun'[p].sess = arun'[q].sess => p \in Tags(arun'[q].msgs)
    <3>1. arun[q].pc \in Running /\ arun'[q].sess = arun[q].sess /\ Tags(arun[q].msgs) \subseteq Tags(arun'[q].msgs)
      BY <1>2, <1>5, <2>3 DEF StaysTold
    <3>2. Whole(arun[q].sess)
      BY <1>3, <2>3, <3>1
    <3> QED BY <1>1, <2>1, <3>1, <3>2
  <2> QED BY <1>4, <2>2, <2>3
<1>6. CASE BeginsTold(r)
  <2>1. \A q \in AgentRuns : Saved(arun'[q]) => q # r /\ Saved(arun[q]) /\ arun'[q].sess = arun[q].sess
    BY <1>2, <1>6 DEF BeginsTold
  <2>2. ASSUME NEW q \in AgentRuns, Saved(arun'[q]), WholeNow(arun'[q].sess)
        PROVE  \E i \in 1..Len(cached') : cached'[i].s = arun'[q].sess /\ q \in Tags(cached'[i].msgs)
    <3>1. PICK i \in 1..Len(cached) : cached[i].s = arun[q].sess /\ q \in Tags(cached[i].msgs)
      BY <1>1, <1>3, <2>1, <2>2
    <3>2. cached[i].s \notin evicted' \union {}
      BY <1>3, <2>1, <2>2, <3>1
    <3>3. PICK j \in 1..Len(cached') : cached'[j] = cached[i]
      BY <1>6, <3>2 DEF BeginsTold, CacheKeeps
    <3> QED BY <2>1, <2>2, <3>1, <3>3
  <2>3. ASSUME NEW q \in AgentRuns, arun'[q].pc \in Running, WholeNow(arun'[q].sess)
        PROVE  /\ q \in Tags(arun'[q].msgs)
               /\ \A p \in AgentRuns : Saved(arun'[p]) /\ arun'[p].sess = arun'[q].sess => p \in Tags(arun'[q].msgs)
    <3>1. CASE q = r
      <4>1. /\ arun'[r].sess = arun[r].sess /\ r \in Tags(arun'[r].msgs)
            /\ \A i \in 1..Len(cached) : cached[i].s = arun[r].sess => Tags(cached[i].msgs) \subseteq Tags(arun'[r].msgs)
        BY <1>6, <2>3, <3>1 DEF BeginsTold
      <4>2. ASSUME NEW p \in AgentRuns, Saved(arun'[p]), arun'[p].sess = arun'[r].sess PROVE p \in Tags(arun'[r].msgs)
        <5>1. PICK i \in 1..Len(cached) : cached[i].s = arun[p].sess /\ p \in Tags(cached[i].msgs)
          BY <1>1, <1>3, <2>1, <2>3, <3>1, <4>2
        <5>2. cached[i].s = arun[r].sess
          BY <2>1, <4>1, <4>2, <5>1
        <5> QED BY <4>1, <5>1, <5>2
      <4> QED BY <3>1, <4>1, <4>2
    <3>2. CASE q # r
      BY <1>1, <1>2, <1>3, <2>1, <2>3, <3>2
    <3> QED BY <3>1, <3>2
  <2> QED BY <1>4, <2>2, <2>3
<1>7. CASE SavesTold(r)
  <2>1. /\ CacheKeeps({arun[r].sess}) /\ CacheHolds(arun[r].sess, arun[r].msgs)
        /\ arun[r].pc \in Running /\ arun'[r].pc \notin Running
        /\ arun'[r].msgs = arun[r].msgs /\ arun'[r].sess = arun[r].sess
    BY <1>7 DEF SavesTold
  <2>2. ASSUME NEW q \in AgentRuns, Saved(arun'[q]), WholeNow(arun'[q].sess)
        PROVE  \E i \in 1..Len(cached') : cached'[i].s = arun'[q].sess /\ q \in Tags(cached'[i].msgs)
    <3>1. CASE arun'[q].sess = arun[r].sess
      <4>1. Whole(arun[r].sess)
        BY <1>3, <2>2, <3>1
      <4>2. q \in Tags(arun[r].msgs)
        BY <1>1, <1>2, <2>1, <2>2, <3>1, <4>1
      <4>3. PICK j \in 1..Len(cached') : cached'[j] = [s |-> arun[r].sess, msgs |-> arun[r].msgs]
        BY <2>1 DEF CacheHolds
      <4> QED BY <3>1, <4>2, <4>3
    <3>2. CASE arun'[q].sess # arun[r].sess
      <4>1. q # r /\ Saved(arun[q]) /\ arun'[q].sess = arun[q].sess
        BY <1>2, <2>1, <2>2, <3>2
      <4>2. PICK i \in 1..Len(cached) : cached[i].s = arun[q].sess /\ q \in Tags(cached[i].msgs)
        BY <1>1, <1>3, <2>2, <4>1
      <4>3. cached[i].s \notin evicted' \union {arun[r].sess}
        BY <1>3, <2>2, <3>2, <4>1, <4>2
      <4>4. PICK j \in 1..Len(cached') : cached'[j] = cached[i]
        BY <2>1, <4>3 DEF CacheKeeps
      <4> QED BY <4>1, <4>2, <4>4
    <3> QED BY <3>1, <3>2
  <2>3. ASSUME NEW q \in AgentRuns, arun'[q].pc \in Running, WholeNow(arun'[q].sess)
        PROVE  /\ q \in Tags(arun'[q].msgs)
               /\ \A p \in AgentRuns : Saved(arun'[p]) /\ arun'[p].sess = arun'[q].sess => p \in Tags(arun'[q].msgs)
    <3>1. q # r /\ arun'[q] = arun[q] /\ Whole(arun[q].sess)
      BY <1>2, <1>3, <2>1, <2>3
    <3>2. arun[q].sess # arun[r].sess
      <4>1. \A x : x.pc \in Running => Active(x)
        BY DEF Running, Active, RunOver
      <4> QED BY <1>3, <2>1, <2>3, <3>1, <4>1 DEF Lone
    <3>3. q \in Tags(arun[q].msgs)
      BY <1>1, <2>3, <3>1
    <3>4. \A p \in AgentRuns : Saved(arun'[p]) /\ arun'[p].sess = arun[q].sess => p \in Tags(arun[q].msgs)
      <4> TAKE p \in AgentRuns
      <4> HAVE Saved(arun'[p]) /\ arun'[p].sess = arun[q].sess
      <4>1. p # r
        BY <2>1, <3>2
      <4> QED BY <1>1, <1>2, <2>3, <3>1, <4>1
    <3> QED BY <3>1, <3>3, <3>4
  <2> QED BY <1>4, <2>2, <2>3
<1> QED BY <1>5, <1>6, <1>7

\* A run that goes on or ends, in its session.
GoesOn(r) ==
    /\ Moved(r) /\ shared' = shared /\ Active(arun[r]) /\ arun'[r].sess = arun[r].sess /\ arun'[r].pc # "idle"
    /\ Active(arun'[r]) /\ arun'[r].pc # "collected" => arun[r].pc # "collected" /\ activeRun' = activeRun
    /\ activeRun' \in {activeRun, PopActive(r)}

LEMMA LoneStep ==
    ASSUME ArFits, Lone, Reached, NEW r \in AgentRuns, GoesOn(r)
    PROVE  Lone' /\ Reached'
<1>1. /\ \A q \in AgentRuns : q # r => arun'[q] = arun[q]
      /\ shared' = shared /\ Active(arun[r]) /\ arun'[r].sess = arun[r].sess
      /\ arun[r].sess \in AgentSessions /\ activeRun \in [AgentSessions -> AgentRuns \union {NoRun}]
      /\ \A q \in AgentRuns : arun[q].sess \in AgentSessions
  BY DEF GoesOn, Moved, ArFits, RunIn
<1>2. \A q \in AgentRuns : arun'[q].sess = arun[q].sess /\ (Active(arun'[q]) => Active(arun[q]))
  BY <1>1
<1>3. Lone'
  <2> SUFFICES ASSUME NEW p \in AgentRuns, NEW q \in AgentRuns, arun'[p].sess = arun'[q].sess,
                      arun'[p].sess \notin shared', Active(arun'[p]), Active(arun'[q])
               PROVE  p = q
    BY DEF Lone, Active
  <2> QED BY <1>1, <1>2 DEF Lone
<1>4. Reached'
  <2> SUFFICES ASSUME NEW q \in AgentRuns, Active(arun'[q]), arun'[q].pc # "collected", arun'[q].sess \notin shared'
               PROVE  activeRun'[arun'[q].sess] = q
    BY DEF Reached, Active
  <2>1. CASE q = r
    BY <1>1, <1>2, <2>1 DEF GoesOn, Reached
  <2>2. CASE q # r
    <3>1. arun'[q] = arun[q] /\ activeRun[arun[q].sess] = q
      BY <1>1, <2>2 DEF Reached
    <3>2. arun[q].sess # arun[r].sess
      BY <1>1, <2>2, <3>1 DEF Lone
    <3>3. PopActive(r)[arun[q].sess] = activeRun[arun[q].sess]
      BY <1>1, <3>2 DEF PopActive
    <3> QED BY <3>1, <3>3 DEF GoesOn
  <2> QED BY <2>1, <2>2
<1> QED BY <1>3, <1>4

LEMMA SaysAre ==
    ASSUME NEW tag \in RunTags
    PROVE  /\ \A r \in {"system", "user", "assistant"} :
                LET m == Text(r, tag) IN m \in Msg(RunTags) /\ ~Calls(m) /\ m.role = r /\ m.role # "tool" /\ m.tag = tag
           /\ \A ids \in SUBSET CallIds :
                LET m == CallMsg(ids, tag) IN m \in Msg(RunTags) /\ m.role = "assistant" /\ m.role # "tool" /\ m.calls = ids
           /\ \A c \in CallIds : LET m == ToolMsg(c) IN m \in Msg(RunTags) /\ m.role = "tool" /\ m.id = c
BY DEF Text, CallMsg, ToolMsg, Msg, Calls, RunTags

LEMMA ToDoAre ==
    ASSUME NEW ids \in SUBSET CallIds, ids # {}
    PROVE  LET s == SetToSeq(ids) IN
           s \in Seq(CallIds) /\ s # <<>> /\ {s[k] : k \in 1..Len(s)} = ids
<1> DEFINE n == Cardinality(ids)
<1>1. IsFiniteSet(ids)
  BY HistoryAssumption, FS_Subset
<1>2. n \in Nat /\ ExistsBijection(1..n, ids)
  BY <1>1, FS_CardinalityType
<1>3. IsFiniteSet(1..n) /\ Cardinality(1..n) = n
  BY <1>2, UpTo
<1>4. PICK f : f \in Bijection(1..n, ids)
  BY <1>2 DEF ExistsBijection
<1>5. f \in [1..n -> ids] /\ IsInjective(f)
  BY <1>4 DEF Bijection, Injection
<1>6. PICK s : s = SetToSeq(ids) /\ s \in [1..n -> ids] /\ IsInjective(s)
  BY <1>5 DEF SetToSeq
<1>7. s \in Injection(1..n, ids)
  BY <1>6 DEF Injection
<1> HIDE DEF n
<1>8. s \in Surjection(1..n, ids)
  <2>1. Cardinality(1..n) = Cardinality(ids)
    BY <1>3 DEF n
  <2> QED BY <1>1, <1>7, <2>1, FS_Injection
<1>9. \A x \in ids : \E k \in 1..n : s[k] = x
  BY <1>8 DEF Surjection
<1>10. s \in Seq(ids) /\ Len(s) = n
  BY <1>2, <1>6, MapIsSeq
<1>11. s \in Seq(CallIds)
  <2>1. s \in [1..n -> CallIds]
    BY <1>6
  <2> QED BY <1>2, <2>1, MapIsSeq
<1>12. s # <<>>
  <2>1. PICK x \in ids : TRUE
    OBVIOUS
  <2>2. PICK k \in 1..n : s[k] = x
    BY <1>9, <2>1
  <2>3. n # 0
    BY <1>2, <2>2
  <2> QED BY <1>10, <2>3, EmptySeq
<1>13. {s[k] : k \in 1..Len(s)} = ids
  <2>1. \A k \in 1..n : s[k] \in ids
    BY <1>6
  <2> QED BY <1>9, <1>10, <2>1
<1> QED BY <1>6, <1>11, <1>12, <1>13

\* What a run starts from is valid, and says what the cache and the user say.
LEMMA LoadedFits ==
    ASSUME ArFits, NEW r \in AgentRuns
    PROVE  /\ Loaded(r) \in Messages /\ WellFormed(Loaded(r)) /\ r \in Tags(Loaded(r))
           /\ \A i \in 1..Len(cached) : cached[i].s = arun[r].sess => Tags(cached[i].msgs) \subseteq Tags(Loaded(r))
<1> DEFINE s == arun[r].sess
           first == <<Text("system", NoId)>>
           found == IF InCache(s) # {} THEN MessagesOf(s) ELSE first
<1>1. CacheFits
  BY DEF ArFits
<1>2. Text("system", NoId) \in Msg(RunTags) /\ Text("user", r) \in Msg(RunTags) /\ ~Calls(Text("user", r))
      /\ Text("user", r).role # "tool" /\ Text("user", r).tag = r
  <2>1. NoId \in RunTags /\ r \in RunTags
    BY DEF RunTags
  <2>2. Text("system", NoId) \in Msg(RunTags)
    BY <2>1, SaysAre
  <2> QED BY <2>1, <2>2, SaysAre
<1>3. first \in Messages
  <2>1. PICK m \in Msg(RunTags) : m = Text("system", NoId)
    BY <1>2
  <2>2. <<m>> \in Seq(Msg(RunTags))
    OBVIOUS
  <2> QED BY <2>1, <2>2 DEF Messages
<1>4. found \in Messages
  BY <1>1, <1>3, CachedAre
<1>5. Loaded(r) = Append(EnsureValid(found), Text("user", r))
  BY DEF Loaded
<1>6. \A i \in 1..Len(cached) : cached[i].s = s => found = cached[i].msgs
  BY <1>1, CachedAre
<1> HIDE DEF found, first
<1>7. PICK m \in Msg(RunTags) : m = Text("user", r)
  BY <1>2
<1>8. PICK v \in Messages : v = EnsureValid(found) /\ WellFormed(v) /\ Tags(v) = Tags(found)
  <2>1. found \in Seq(Msg(RunTags))
    BY <1>4 DEF Messages
  <2> QED BY <2>1, RepairFits, TagsAre DEF Messages
<1>9. Append(v, m) \in Messages /\ WellFormed(Append(v, m)) /\ Tags(Append(v, m)) = Tags(v) \union {r}
  <2>1. v \in Seq(Msg(RunTags)) /\ ~Calls(m) /\ m.role # "tool" /\ m.tag = r
    BY <1>2, <1>7, <1>8 DEF Messages
  <2>2. Append(v, m) \in Seq(Msg(RunTags)) /\ WellFormed(Append(v, m))
    BY <1>8, <2>1, AppendFits
  <2>3. Tags(Append(v, m)) = Tags(v) \union {m.tag}
    BY <2>1, TagsAre
  <2> QED BY <2>1, <2>2, <2>3 DEF Messages
<1>10. Loaded(r) = Append(v, m)
  BY <1>5, <1>7, <1>8
<1>11. \A i \in 1..Len(cached) : cached[i].s = s => Tags(cached[i].msgs) \subseteq Tags(Loaded(r))
  BY <1>6, <1>8, <1>9, <1>10
<1> QED BY <1>9, <1>10, <1>11

----------------------------------------------------------------------------
(* The steps of a run.                                                     *)

LEMMA CacheTouched ==
    ASSUME CacheFits, evicted \subseteq AgentSessions, NEW s \in AgentSessions,
           \/ InCache(s) # {} /\ CacheSet(s, MessagesOf(s))
           \/ InCache(s) = {} /\ CacheSet(s, <<Text("system", NoId)>>)
    PROVE  CacheFits' /\ evicted' \subseteq AgentSessions /\ evicted \subseteq evicted' /\ CacheKeeps({})
<1>1. CASE InCache(s) # {} /\ CacheSet(s, MessagesOf(s))
  <2>1. PICK msgs \in Messages : msgs = MessagesOf(s)
    BY <1>1, CachedAre
  <2>2. /\ CacheFits' /\ evicted' \subseteq AgentSessions /\ evicted \subseteq evicted'
        /\ CacheKeeps({s}) /\ CacheHolds(s, msgs)
    BY <1>1, <2>1, CacheSetFits
  <2>3. CacheKeeps({})
    <3> SUFFICES ASSUME NEW i \in 1..Len(cached), cached[i].s \notin evicted'
                 PROVE  \E j \in 1..Len(cached') : cached'[j] = cached[i]
      BY DEF CacheKeeps
    <3>1. CASE cached[i].s = s
      <4>1. PICK k \in 1..Len(cached) : cached[k] = [s |-> s, msgs |-> msgs]
        BY <1>1, <2>1, CachedAre
      <4>2. k = i
        BY <3>1, <4>1 DEF CacheFits
      <4> QED BY <2>2, <4>1, <4>2 DEF CacheHolds
    <3>2. CASE cached[i].s # s
      BY <2>2, <3>2 DEF CacheKeeps
    <3> QED BY <3>1, <3>2
  <2> QED BY <2>2, <2>3
<1>2. CASE InCache(s) = {} /\ CacheSet(s, <<Text("system", NoId)>>)
  <2>1. PICK m \in Msg(RunTags) : m = Text("system", NoId)
    BY SaysAre DEF RunTags
  <2>2. <<m>> \in Seq(Msg(RunTags))
    OBVIOUS
  <2>3. PICK msgs \in Messages : msgs = <<Text("system", NoId)>>
    BY <2>1, <2>2 DEF Messages
  <2>4. /\ CacheFits' /\ evicted' \subseteq AgentSessions /\ evicted \subseteq evicted' /\ CacheKeeps({s})
    BY <1>2, <2>3, CacheSetFits
  <2>5. \A i \in 1..Len(cached) : cached[i].s # s
    BY <1>2 DEF InCache
  <2> QED BY <2>4, <2>5 DEF CacheKeeps
<1> QED BY <1>1, <1>2

LEMMA CacheSame == ASSUME cached' = cached PROVE CacheKeeps({}) /\ (CacheFits => CacheFits')
BY DEF CacheKeeps, CacheFits

\* A step of a run that goes on, or ends, in its session.
LEMMA RunStep ==
    ASSUME ArInv, NEW r \in AgentRuns, GoesOn(r), MsgsFit(arun'[r]), CacheFits',
           pruned \subseteq pruned', pruned' \subseteq AgentSessions,
           evicted \subseteq evicted', evicted' \subseteq AgentSessions, disconnects' \in 0..MaxDisconnects,
           missed' = missed \/ (missed' = missed \union {r} /\ arun[r].sess \in shared),
           StaysTold(r) \/ BeginsTold(r) \/ SavesTold(r)
    PROVE  ArInv'
<1>1. /\ ArFits /\ Lone /\ Reached /\ MissedLate /\ SaidKnown
  BY DEF ArInv
<1>2. Lone' /\ Reached'
  BY <1>1, LoneStep
<1>3. SaidKnown'
  <2>1. Grown
    BY DEF Grown, GoesOn
  <2>2. Moved(r)
    BY DEF GoesOn
  <2> QED BY <1>1, <2>1, <2>2, ToldStep
<1>4. MissedLate'
  <2> SUFFICES ASSUME NEW q \in missed' PROVE arun'[q].pc # "idle" /\ arun'[q].sess \in shared'
    BY DEF MissedLate
  <2>1. CASE q = r
    <3>1. arun[r].sess \in shared
      BY <1>1, <2>1 DEF MissedLate
    <3> QED BY <2>1, <3>1 DEF GoesOn
  <2>2. CASE q # r
    <3>1. q \in missed /\ q \in AgentRuns
      BY <1>1, <2>2 DEF ArFits
    <3>2. arun'[q] = arun[q]
      BY <2>2, <3>1 DEF GoesOn, Moved
    <3> QED BY <1>1, <3>1, <3>2 DEF MissedLate, GoesOn
  <2> QED BY <2>1, <2>2
<1>5. ArFits'
  <2>1. arun' \in [AgentRuns -> RunIn]
    BY DEF GoesOn, Moved
  <2>2. \A q \in AgentRuns : MsgsFit(arun'[q])
    <3> TAKE q \in AgentRuns
    <3>1. q = r \/ arun'[q] = arun[q]
      BY DEF GoesOn, Moved
    <3> QED BY <1>1, <3>1 DEF ArFits
  <2>3. activeRun' \in [AgentSessions -> AgentRuns \union {NoRun}]
    <3>1. arun[r].sess \in AgentSessions /\ activeRun \in [AgentSessions -> AgentRuns \union {NoRun}]
      BY <1>1 DEF ArFits, RunIn
    <3>2. PopActive(r) \in [AgentSessions -> AgentRuns \union {NoRun}]
      BY <3>1 DEF PopActive
    <3> QED BY <3>1, <3>2 DEF GoesOn
  <2>4. missed' \subseteq AgentRuns /\ shared' \subseteq AgentSessions
    BY <1>1 DEF ArFits, GoesOn
  <2> QED BY <2>1, <2>2, <2>3, <2>4 DEF ArFits, MsgsFit, Answering, Unanswered
<1> QED BY <1>2, <1>3, <1>4, <1>5 DEF ArInv

\* What most steps leave alone.
Rest == UNCHANGED <<cached, missed, evicted>> /\ pruned \subseteq pruned' /\ pruned' \subseteq AgentSessions
        /\ shared' = shared /\ disconnects' \in 0..MaxDisconnects

\* A step in which a run that has not saved yet adds to its messages.
LEMMA InTurnStep ==
    ASSUME ArInv, NEW r \in AgentRuns, NEW x \in RunIn, arun' = [arun EXCEPT ![r] = x], Rest,
           arun[r].pc \in Running \ {"collected"}, x.pc \in Running, x.sess = arun[r].sess, MsgsFit(x),
           activeRun' = activeRun \/ (activeRun' = PopActive(r) /\ x.pc = "collected"),
           arun[r].sess \in pruned' \/ Tags(arun[r].msgs) \subseteq Tags(x.msgs)
    PROVE  ArInv'
<1>1. ArFits /\ arun \in [AgentRuns -> RunIn] /\ arun[r] \in RunIn /\ CacheFits /\ evicted \subseteq AgentSessions
  BY DEF ArInv, ArFits
<1>2. arun' \in [AgentRuns -> RunIn] /\ arun'[r] = x /\ \A q \in AgentRuns \ {r} : arun'[q] = arun[q]
  BY <1>1
<1>3. \A y : y.pc \in Running => Active(y) /\ y.pc # "idle" /\ ~Saved(y)
  BY DEF Running, Active, RunOver, Saved
<1>4. GoesOn(r)
  BY <1>2, <1>3 DEF GoesOn, Moved, Rest
<1>5. StaysTold(r)
  <2>1. CacheKeeps({})
    BY CacheSame DEF Rest
  <2> QED BY <1>2, <1>3, <2>1 DEF StaysTold, WholeNow
<1>6. CacheFits' /\ evicted' = evicted /\ missed' = missed
  BY <1>1, CacheSame DEF Rest
<1> QED BY <1>1, <1>2, <1>4, <1>5, <1>6, RunStep DEF Rest

LEMMA RunIs ==
    ASSUME ArInv, NEW r \in AgentRuns
    PROVE  /\ arun \in [AgentRuns -> RunIn] /\ arun[r] \in RunIn /\ MsgsFit(arun[r])
           /\ arun[r].msgs \in Messages /\ arun[r].sess \in AgentSessions /\ arun[r].todo \in Seq(CallIds)
           /\ arun[r].turn \in 0..MaxTurns
           /\ CacheFits /\ pruned \subseteq AgentSessions /\ evicted \subseteq AgentSessions
           /\ disconnects \in 0..MaxDisconnects
BY DEF ArInv, ArFits, RunIn

LEMMA SubmitKeeps ==
    ASSUME ArInv, NEW r \in AgentRuns, NEW s \in AgentSessions, Submit(r, s)
    PROVE  ArInv'
<1>1. /\ ArFits /\ Lone /\ Reached /\ MissedLate /\ SaidKnown
  BY DEF ArInv
<1>2. /\ arun[r].pc = "idle" /\ activeRun' = Registered(r, s)
      /\ UNCHANGED <<cached, missed, pruned, evicted, disconnects>>
  BY DEF Submit
<1>3. PICK pc \in {"setup", "closing"} : arun' = [arun EXCEPT ![r].pc = pc, ![r].sess = s]
  BY DEF Submit
<1>4. arun \in [AgentRuns -> RunIn] /\ arun[r] \in RunIn /\ arun[r].msgs = <<>>
  BY <1>1, <1>2 DEF ArFits, MsgsFit
<1>5. /\ arun' \in [AgentRuns -> RunIn] /\ (\A q \in AgentRuns \ {r} : arun'[q] = arun[q])
      /\ arun'[r].pc = pc /\ arun'[r].sess = s /\ arun'[r].msgs = <<>>
  <2>1. pc \in Pcs
    BY DEF Pcs
  <2>2. arun' \in [AgentRuns -> RunIn]
    BY <1>3, <1>4, <2>1 DEF RunIn
  <2> QED BY <1>3, <1>4, <2>2 DEF RunIn
<1>6. /\ shared \subseteq shared' /\ shared' \subseteq shared \union {s} /\ shared' \subseteq AgentSessions
      /\ \A q \in AgentRuns : Active(arun[q]) /\ arun[q].sess = s => s \in shared'
  BY <1>1 DEF Submit, Active, ArFits
<1>7. \A q \in AgentRuns : arun'[q].sess \notin shared' /\ Active(arun'[q]) /\ q # r =>
        Active(arun[q]) /\ arun'[q] = arun[q] /\ arun[q].sess # s /\ arun[q].sess \notin shared
  BY <1>5, <1>6
<1>8. Lone'
  <2> SUFFICES ASSUME NEW p \in AgentRuns, NEW q \in AgentRuns, arun'[p].sess = arun'[q].sess,
                      arun'[p].sess \notin shared', Active(arun'[p]), Active(arun'[q]), p # q
               PROVE  FALSE
    BY DEF Lone, Active
  <2>1. CASE p = r
    BY <1>5, <1>7, <2>1
  <2>2. CASE q = r
    BY <1>5, <1>7, <2>2
  <2>3. CASE p # r /\ q # r
    BY <1>1, <1>7, <2>3 DEF Lone
  <2> QED BY <2>1, <2>2, <2>3
<1>9. Reached'
  <2> SUFFICES ASSUME NEW q \in AgentRuns, Active(arun'[q]), arun'[q].pc # "collected", arun'[q].sess \notin shared'
               PROVE  activeRun'[arun'[q].sess] = q
    BY DEF Reached, Active
  <2>1. activeRun \in [AgentSessions -> AgentRuns \union {NoRun}] /\ activeRun' = [activeRun EXCEPT ![s] = r]
        /\ arun'[q].sess \in AgentSessions
    BY <1>1, <1>2, <1>5 DEF ArFits, Registered, RunIn
  <2>2. CASE q = r
    BY <1>5, <2>1, <2>2
  <2>3. CASE q # r
    <3>1. arun'[q] = arun[q] /\ arun[q].sess # s /\ activeRun[arun[q].sess] = q
      BY <1>1, <1>7, <2>3 DEF Reached
    <3> QED BY <2>1, <3>1
  <2> QED BY <2>2, <2>3
<1>10. MissedLate'
  <2> SUFFICES ASSUME NEW q \in missed PROVE arun'[q].pc # "idle" /\ arun'[q].sess \in shared'
    BY <1>2 DEF MissedLate
  <2>1. arun[q].pc # "idle" /\ arun[q].sess \in shared /\ q \in AgentRuns
    BY <1>1 DEF MissedLate, ArFits
  <2>2. arun'[q] = arun[q]
    BY <1>2, <1>5, <2>1
  <2> QED BY <1>6, <2>1, <2>2
<1>11. SaidKnown'
  <2>1. Moved(r)
    BY <1>5 DEF Moved
  <2>2. Grown
    BY <1>2, <1>6 DEF Grown
  <2>3. StaysTold(r)
    <3>1. CacheKeeps({})
      BY <1>2, CacheSame
    <3>2. ~Saved(arun'[r]) /\ arun'[r].pc \notin Running
      BY <1>5 DEF Saved, Running
    <3> QED BY <3>1, <3>2 DEF StaysTold
  <2> QED BY <1>1, <2>1, <2>2, <2>3, ToldStep
<1>12. ArFits'
  <2>1. \A q \in AgentRuns : MsgsFit(arun'[q])
    <3> TAKE q \in AgentRuns
    <3>1. CASE q = r
      BY <1>5, <3>1 DEF MsgsFit
    <3>2. CASE q # r
      BY <1>1, <1>5, <3>2 DEF ArFits
    <3> QED BY <3>1, <3>2
  <2>2. activeRun' \in [AgentSessions -> AgentRuns \union {NoRun}]
    BY <1>1, <1>2 DEF ArFits, Registered
  <2>3. CacheFits'
    BY <1>1, <1>2, CacheSame DEF ArFits
  <2>4. missed' \subseteq AgentRuns /\ pruned' \subseteq AgentSessions /\ evicted' \subseteq AgentSessions
        /\ disconnects' \in 0..MaxDisconnects
    BY <1>1, <1>2 DEF ArFits
  <2> QED BY <1>5, <1>6, <2>1, <2>2, <2>3, <2>4 DEF ArFits, MsgsFit, Answering, Unanswered
<1> QED BY <1>8, <1>9, <1>10, <1>11, <1>12 DEF ArInv

\* The first steps after the submission: the run begins, or breaks.
LEMMA SetUpKeeps == ASSUME ArInv, NEW r \in AgentRuns, SetUp(r) PROVE ArInv'
<1> DEFINE s == arun[r].sess
<1>1. PICK msgs \in Compactions(Loaded(r)) :
        /\ arun' = [arun EXCEPT ![r].pc = "turn", ![r].msgs = msgs]
        /\ pruned' = IF msgs = Loaded(r) THEN pruned ELSE pruned \union {s}
  BY DEF SetUp
<1>2. /\ arun[r].pc = "setup" /\ UNCHANGED <<activeRun, missed, shared, disconnects>>
      /\ \/ InCache(s) # {} /\ CacheSet(s, MessagesOf(s))
         \/ InCache(s) = {} /\ CacheSet(s, <<Text("system", NoId)>>)
  BY DEF SetUp
<1>3. /\ arun \in [AgentRuns -> RunIn] /\ arun[r] \in RunIn /\ arun[r].sess \in AgentSessions /\ CacheFits
      /\ evicted \subseteq AgentSessions /\ pruned \subseteq AgentSessions /\ disconnects \in 0..MaxDisconnects
  BY RunIs
<1>4. CacheFits' /\ evicted' \subseteq AgentSessions /\ evicted \subseteq evicted' /\ CacheKeeps({})
  BY <1>2, <1>3, CacheTouched
<1>5. /\ Loaded(r) \in Messages /\ WellFormed(Loaded(r)) /\ r \in Tags(Loaded(r))
      /\ \A i \in 1..Len(cached) : cached[i].s = s => Tags(cached[i].msgs) \subseteq Tags(Loaded(r))
  BY LoadedFits DEF ArInv
<1>6. PICK from \in Seq(Msg(RunTags)) : from = Loaded(r) /\ WellFormed(from)
  BY <1>5 DEF Messages
<1>7. msgs \in Messages /\ WellFormed(msgs)
  BY <1>1, <1>6, CompactionsFit DEF Messages
<1>8. /\ arun' \in [AgentRuns -> RunIn] /\ (\A q \in AgentRuns \ {r} : arun'[q] = arun[q])
      /\ arun'[r].pc = "turn" /\ arun'[r].sess = s /\ arun'[r].msgs = msgs
  <2>1. "turn" \in Pcs
    BY DEF Pcs
  <2>2. arun' \in [AgentRuns -> RunIn]
    BY <1>1, <1>3, <1>7, <2>1 DEF RunIn
  <2> QED BY <1>1, <1>3, <2>2 DEF RunIn
<1>9. GoesOn(r)
  BY <1>2, <1>8 DEF GoesOn, Moved, Active, RunOver
<1>10. MsgsFit(arun'[r])
  BY <1>7, <1>8 DEF MsgsFit
<1>11. BeginsTold(r)
  <2>1. ~Saved(arun'[r])
    BY <1>8 DEF Saved
  <2>2. ASSUME WholeNow(s)
        PROVE  r \in Tags(msgs) /\ \A i \in 1..Len(cached) : cached[i].s = s => Tags(cached[i].msgs) \subseteq Tags(msgs)
    <3>1. msgs = Loaded(r)
      BY <1>1, <2>2 DEF WholeNow
    <3> QED BY <1>5, <3>1
  <2> QED BY <1>4, <1>8, <2>1, <2>2 DEF BeginsTold
<1>12. pruned \subseteq pruned' /\ pruned' \subseteq AgentSessions /\ disconnects' \in 0..MaxDisconnects
  BY <1>1, <1>2, <1>3
<1> QED BY <1>2, <1>4, <1>9, <1>10, <1>11, <1>12, RunStep

LEMMA SetUpFailsKeeps == ASSUME ArInv, NEW r \in AgentRuns, SetUpFails(r) PROVE ArInv'
<1> DEFINE s == arun[r].sess
<1>1. /\ arun[r].pc = "setup" /\ UNCHANGED <<activeRun, missed, pruned, shared, disconnects>>
      /\ arun' = [arun EXCEPT ![r].pc = "broken", ![r].msgs = Loaded(r)]
      /\ \/ InCache(s) # {} /\ CacheSet(s, MessagesOf(s))
         \/ InCache(s) = {} /\ CacheSet(s, <<Text("system", NoId)>>)
  BY DEF SetUpFails
<1>2. /\ arun \in [AgentRuns -> RunIn] /\ arun[r] \in RunIn /\ arun[r].sess \in AgentSessions /\ CacheFits
      /\ evicted \subseteq AgentSessions /\ pruned \subseteq AgentSessions /\ disconnects \in 0..MaxDisconnects
  BY RunIs
<1>3. CacheFits' /\ evicted' \subseteq AgentSessions /\ evicted \subseteq evicted' /\ CacheKeeps({})
  BY <1>1, <1>2, CacheTouched
<1>4. Loaded(r) \in Messages
  BY LoadedFits DEF ArInv
<1>5. /\ arun' \in [AgentRuns -> RunIn] /\ (\A q \in AgentRuns \ {r} : arun'[q] = arun[q])
      /\ arun'[r].pc = "broken" /\ arun'[r].sess = s
  <2>1. "broken" \in Pcs
    BY DEF Pcs
  <2>2. arun' \in [AgentRuns -> RunIn]
    BY <1>1, <1>2, <1>4, <2>1 DEF RunIn
  <2> QED BY <1>1, <1>2, <2>2 DEF RunIn
<1>6. GoesOn(r)
  BY <1>1, <1>5 DEF GoesOn, Moved, Active, RunOver
<1>7. MsgsFit(arun'[r])
  BY <1>5 DEF MsgsFit
<1>8. StaysTold(r)
  BY <1>3, <1>5 DEF StaysTold, Saved, Running
<1> QED BY <1>1, <1>2, <1>3, <1>6, <1>7, <1>8, RunStep

\* What is sent is valid, and it is all there is unless it was pruned.
LEMMA SentFits ==
    ASSUME ArInv, NEW r \in AgentRuns, arun[r].pc = "turn", NEW sent \in Requests(r)
    PROVE  sent \in Messages /\ WellFormed(sent)
<1>1. PICK x \in Compactions(arun[r].msgs) : sent = PreCallClean(x)
  BY DEF Requests
<1>2. PICK msgs \in Seq(Msg(RunTags)) : msgs = arun[r].msgs /\ WellFormed(msgs)
  BY RunIs DEF MsgsFit, Messages
<1>3. x \in Seq(Msg(RunTags)) /\ WellFormed(x) /\ PreCallClean(x) = x
  BY <1>1, <1>2, CompactionsFit
<1> QED BY <1>1, <1>3 DEF Messages

\* A message that answers no call adds to what was said.
LEMMA AddsTo ==
    ASSUME NEW msgs \in Messages, NEW m \in Msg(RunTags)
    PROVE  Append(msgs, m) \in Messages /\ Tags(msgs) \subseteq Tags(Append(msgs, m))
<1>1. msgs \in Seq(Msg(RunTags))
  BY DEF Messages
<1>2. Append(msgs, m) \in Messages
  BY <1>1, AppendProperties DEF Messages
<1>3. Tags(Append(msgs, m)) = Tags(msgs) \union {m.tag} \/ Tags(Append(msgs, m)) = Tags(msgs)
  BY SMTT(30), <1>1, TagsAre
<1> QED BY <1>2, <1>3

LEMMA CallsModelKeeps == ASSUME ArInv, NEW r \in AgentRuns, CallsModel(r) PROVE ArInv'
<1> DEFINE old == arun[r]
<1>1. /\ old.pc = "turn" /\ old.turn < MaxTurns
      /\ UNCHANGED <<cached, activeRun, missed, shared, evicted, disconnects>>
  BY DEF CallsModel
<1>2. PICK sent \in Requests(r) :
        /\ Answers(r, sent) \/ arun' = [arun EXCEPT ![r].pc = "exit", ![r].msgs = sent]
        /\ pruned' = IF sent = old.msgs THEN pruned ELSE pruned \union {old.sess}
  BY DEF CallsModel
<1>3. /\ arun \in [AgentRuns -> RunIn] /\ old \in RunIn /\ old.msgs \in Messages /\ old.sess \in AgentSessions
      /\ pruned \subseteq AgentSessions /\ disconnects \in 0..MaxDisconnects /\ old.turn \in 0..MaxTurns
  BY RunIs
<1>4. sent \in Messages /\ WellFormed(sent)
  BY <1>1, SentFits
<1>5. Rest /\ old.pc \in Running \ {"collected"} /\ (old.sess \in pruned' \/ sent = old.msgs)
  BY <1>1, <1>2, <1>3 DEF Rest, Running
<1>6. {"save", "exit", "tools"} \subseteq Running /\ {"save", "exit", "tools"} \subseteq Pcs
  BY DEF Running, Pcs
<1>7. NoId \in RunTags
  BY DEF RunTags
<1>8. CASE \E msgs \in {sent, Append(sent, Text("assistant", NoId))}, pc \in {"save", "exit"} :
             arun' = [arun EXCEPT ![r].pc = pc, ![r].msgs = msgs]
  <2>1. PICK msgs \in {sent, Append(sent, Text("assistant", NoId))}, pc \in {"save", "exit"} :
             arun' = [arun EXCEPT ![r].pc = pc, ![r].msgs = msgs]
    BY <1>8
  <2>2. PICK m \in Msg(RunTags) : m = Text("assistant", NoId)
    BY <1>7, SaysAre
  <2>3. msgs \in Messages /\ Tags(sent) \subseteq Tags(msgs)
    BY <1>4, <2>1, <2>2, AddsTo
  <2> DEFINE x == [old EXCEPT !.pc = pc, !.msgs = msgs]
  <2>4. x \in RunIn /\ x.pc = pc /\ x.msgs = msgs /\ x.sess = old.sess
    BY <1>3, <1>6, <2>3 DEF RunIn
  <2>5. arun' = [arun EXCEPT ![r] = x]
    BY <1>3, <2>1
  <2>6. MsgsFit(x)
    BY <2>4 DEF MsgsFit
  <2> HIDE DEF x
  <2>7. x.pc \in Running /\ (old.sess \in pruned' \/ Tags(old.msgs) \subseteq Tags(x.msgs))
    BY <1>5, <1>6, <2>3, <2>4
  <2> QED BY <1>1, <1>5, <2>4, <2>5, <2>6, <2>7, InTurnStep
<1>9. CASE \E ids \in (SUBSET {c \in CallIds : c[1] = r}) \ {{}} :
             arun' = [arun EXCEPT ![r].pc = "tools", ![r].msgs = Append(sent, CallMsg(ids, NoId)),
                                  ![r].todo = SetToSeq(ids), ![r].turn = @ + 1]
  <2>1. PICK ids \in (SUBSET {c \in CallIds : c[1] = r}) \ {{}} :
             arun' = [arun EXCEPT ![r].pc = "tools", ![r].msgs = Append(sent, CallMsg(ids, NoId)),
                                  ![r].todo = SetToSeq(ids), ![r].turn = @ + 1]
    BY <1>9
  <2>2. ids \in SUBSET CallIds /\ ids # {}
    <3>1. {c \in CallIds : c[1] = r} \subseteq CallIds
      OBVIOUS
    <3> QED BY <3>1
  <2>3. PICK m \in Msg(RunTags) : m = CallMsg(ids, NoId) /\ m.role = "assistant" /\ m.calls = ids
    BY <1>7, <2>2, SaysAre
  <2>4. PICK todo \in Seq(CallIds) : todo = SetToSeq(ids) /\ todo # <<>> /\ {todo[k] : k \in 1..Len(todo)} = ids
    BY <2>2, ToDoAre
  <2>5. PICK msgs \in Messages : msgs = Append(sent, m) /\ Tags(sent) \subseteq Tags(msgs)
    BY <1>4, AddsTo
  <2> DEFINE x == [old EXCEPT !.pc = "tools", !.msgs = msgs, !.todo = todo, !.turn = @ + 1]
  <2>6. old.turn + 1 \in 0..MaxTurns
    BY <1>1, <1>3, AgentRunAssumption
  <2>7. x \in RunIn /\ x.pc = "tools" /\ x.msgs = msgs /\ x.sess = old.sess /\ x.todo = todo
    BY <1>3, <1>6, <2>6 DEF RunIn
  <2>8. arun' = [arun EXCEPT ![r] = x]
    BY <1>3, <2>1, <2>3, <2>4, <2>5
  <2>9. Answering(msgs, todo)
    <3>1. PICK a \in Seq(Msg(RunTags)) : a = sent /\ WellFormed(a)
      BY <1>4 DEF Messages
    <3>2. Append(a, m) = a \o <<m>> /\ Append(a, m) \in Messages
      BY <2>5, <3>1, AppendIsConcat
    <3>3. Unanswered(RunTags, Append(a, m), ids)
      BY <2>2, <2>3, <3>1, <3>2 DEF Unanswered
    <3>4. Append(a, m) \o <<>> = Append(a, m) /\ <<>> \in Messages /\ Len(<<>>) = 0
      BY <3>2, ConcatEmptySeq, EmptySeq DEF Messages
    <3>5. PICK out \in Messages, t \in Messages : out = Append(a, m) /\ t = <<>> /\ msgs = out \o t /\ Len(t) = 0
      BY <2>5, <3>1, <3>2, <3>4
    <3>6. {t[k].id : k \in 1..Len(t)} = {} /\ \A k \in 1..Len(t) : t[k].role = "tool"
      BY <3>5
    <3>7. ids = {t[k].id : k \in 1..Len(t)} \union {todo[k] : k \in 1..Len(todo)}
      BY <2>4, <3>6
    <3>8. Unanswered(RunTags, out, ids)
      BY <3>3, <3>5
    <3> QED BY <2>2, <2>4, <3>5, <3>6, <3>7, <3>8 DEF Answering
  <2> HIDE DEF x
  <2>10. MsgsFit(x)
    BY <2>7, <2>9 DEF MsgsFit
  <2>11. x.pc \in Running /\ (old.sess \in pruned' \/ Tags(old.msgs) \subseteq Tags(x.msgs))
    BY SMTT(30), <1>5, <1>6, <2>5, <2>7
  <2> QED BY <1>1, <1>5, <2>7, <2>8, <2>10, <2>11, InTurnStep
<1>10. \/ \E msgs \in {sent, Append(sent, Text("assistant", NoId))}, pc \in {"save", "exit"} :
             arun' = [arun EXCEPT ![r].pc = pc, ![r].msgs = msgs]
       \/ \E ids \in (SUBSET {c \in CallIds : c[1] = r}) \ {{}} :
             arun' = [arun EXCEPT ![r].pc = "tools", ![r].msgs = Append(sent, CallMsg(ids, NoId)),
                                  ![r].todo = SetToSeq(ids), ![r].turn = @ + 1]
  BY <1>2 DEF Answers
<1> QED BY <1>8, <1>9, <1>10

LEMMA TurnsUsedUpKeeps == ASSUME ArInv, NEW r \in AgentRuns, TurnsUsedUp(r) PROVE ArInv'
<1> DEFINE old == arun[r]
<1>1. /\ old.pc = "turn" /\ UNCHANGED <<cached, activeRun, missed, pruned, shared, evicted, disconnects>>
  BY DEF TurnsUsedUp
<1>2. PICK msgs \in {old.msgs, Append(old.msgs, Text("assistant", NoId))} :
        arun' = [arun EXCEPT ![r].pc = "save", ![r].msgs = msgs]
  BY DEF TurnsUsedUp
<1>3. /\ arun \in [AgentRuns -> RunIn] /\ old \in RunIn /\ old.msgs \in Messages
      /\ pruned \subseteq AgentSessions /\ disconnects \in 0..MaxDisconnects
  BY RunIs
<1>4. Rest /\ old.pc \in Running \ {"collected"} /\ "save" \in Running /\ "save" \in Pcs
  BY <1>1, <1>3 DEF Rest, Running, Pcs
<1>5. PICK m \in Msg(RunTags) : m = Text("assistant", NoId)
  BY SaysAre DEF RunTags
<1>6. msgs \in Messages /\ Tags(old.msgs) \subseteq Tags(msgs)
  BY <1>2, <1>3, <1>5, AddsTo
<1> DEFINE x == [old EXCEPT !.pc = "save", !.msgs = msgs]
<1>7. x \in RunIn /\ x.pc = "save" /\ x.msgs = msgs /\ x.sess = old.sess
  BY <1>3, <1>4, <1>6 DEF RunIn
<1>8. arun' = [arun EXCEPT ![r] = x]
  BY <1>2, <1>3
<1>9. MsgsFit(x)
  BY <1>7 DEF MsgsFit
<1> HIDE DEF x
<1> QED BY <1>1, <1>4, <1>6, <1>7, <1>8, <1>9, InTurnStep

\* One more call is answered; after the last one the history is valid again.
LEMMA AnsweringOn ==
    ASSUME NEW msgs \in Messages, NEW todo \in Seq(CallIds), Answering(msgs, todo)
    PROVE  LET m == ToolMsg(Head(todo)) IN
           /\ m \in Msg(RunTags) /\ Append(msgs, m) \in Messages /\ Tail(todo) \in Seq(CallIds)
           /\ Tail(todo) = <<>> => WellFormed(Append(msgs, m))
           /\ Tail(todo) # <<>> => Answering(Append(msgs, m), Tail(todo))
<1>1. /\ todo # <<>> /\ Head(todo) = todo[1] /\ 1 \in 1..Len(todo) /\ todo[1] \in CallIds /\ Len(todo) \in Nat
  BY EmptySeq, LenProperties, ElementOfSeq, HeadTailProperties DEF Answering
<1>2. /\ Tail(todo) \in Seq(CallIds) /\ Len(Tail(todo)) = Len(todo) - 1
      /\ \A i \in 1..(Len(todo) - 1) : Tail(todo)[i] = todo[i + 1]
  BY <1>1, HeadTailProperties
<1>3. PICK out \in Messages, t \in Messages, uses \in SUBSET CallIds :
         /\ msgs = out \o t /\ Unanswered(RunTags, out, uses)
         /\ \A k \in 1..Len(t) : t[k].role = "tool"
         /\ uses = {t[k].id : k \in 1..Len(t)} \union {todo[k] : k \in 1..Len(todo)}
  BY DEF Answering
<1>4. PICK m \in Msg(RunTags) : m = ToolMsg(Head(todo)) /\ m.role = "tool" /\ m.id = todo[1]
  BY <1>1, SaysAre DEF RunTags
<1>5. out \in Seq(Msg(RunTags)) /\ t \in Seq(Msg(RunTags)) /\ msgs \in Seq(Msg(RunTags))
  BY <1>3 DEF Messages
<1>6. PICK u \in Seq(Msg(RunTags)) : u = Append(t, m)
  BY <1>5, AppendProperties
<1>7. /\ Len(t) \in Nat /\ Len(u) = Len(t) + 1 /\ (\A i \in 1..Len(t) : u[i] = t[i]) /\ u[Len(t) + 1] = m
      /\ \A i \in 1..(Len(t) + 1) : i \in 1..Len(t) \/ i = Len(t) + 1
  BY <1>5, <1>6, Appended
<1>8. PICK left : left = Tail(todo) /\ left \in Seq(CallIds) /\ Len(left) = Len(todo) - 1
                  /\ \A i \in 1..Len(left) : left[i] = todo[i + 1] /\ i + 1 \in 1..Len(todo)
  <2>1. PICK left : left = Tail(todo)
    OBVIOUS
  <2>2. left \in Seq(CallIds) /\ Len(left) = Len(todo) - 1 /\ \A i \in 1..(Len(todo) - 1) : left[i] = todo[i + 1]
    BY <1>2, <2>1
  <2>3. \A i \in 1..Len(left) : left[i] = todo[i + 1] /\ i + 1 \in 1..Len(todo)
    BY <1>1, <2>2
  <2> QED BY <2>1, <2>2, <2>3
<1>9. Append(msgs, m) = out \o u
  <2>1. Append(msgs, m) = msgs \o <<m>> /\ u = t \o <<m>>
    BY <1>5, <1>6, AppendIsConcat
  <2>2. PICK w \in Seq(Msg(RunTags)) : w = <<m>>
    <3>1. <<m>> \in Seq(Msg(RunTags))
      OBVIOUS
    <3> QED BY <3>1
  <2>3. (out \o t) \o w = out \o (t \o w)
    BY SMTT(40), <1>5, <2>2, ConcatAssociative
  <2> QED BY <1>3, <2>1, <2>2, <2>3
<1>10. \A k \in 1..Len(u) : u[k].role = "tool"
  BY <1>3, <1>4, <1>7
<1>11. uses = {u[k].id : k \in 1..Len(u)} \union {left[k] : k \in 1..Len(left)}
  <2>1. {u[k].id : k \in 1..Len(u)} = {t[k].id : k \in 1..Len(t)} \union {todo[1]}
    <3>1. \A k \in 1..Len(t) : k \in 1..Len(u) /\ u[k] = t[k]
      BY <1>7
    <3>2. Len(t) + 1 \in 1..Len(u) /\ u[Len(t) + 1].id = todo[1]
      BY <1>4, <1>7
    <3>3. \A k \in 1..Len(u) : (k \in 1..Len(t) /\ u[k] = t[k]) \/ u[k].id = todo[1]
      BY <1>4, <1>7
    <3> QED BY SMTT(40), <3>1, <3>2, <3>3
  <2>2. {todo[k] : k \in 1..Len(todo)} = {todo[1]} \union {left[k] : k \in 1..Len(left)}
    <3>1. \A k \in 1..Len(todo) : k = 1 \/ \E i \in 1..Len(left) : left[i] = todo[k]
      <4> TAKE k \in 1..Len(todo)
      <4>1. CASE k # 1
        <5>1. k - 1 \in 1..Len(left) /\ k - 1 + 1 = k
          BY <1>1, <1>8, <4>1
        <5>2. left[k - 1] = todo[k - 1 + 1]
          BY <1>8, <5>1
        <5> QED BY <5>1, <5>2
      <4> QED BY <4>1
    <3>2. \A i \in 1..Len(left) : \E k \in 1..Len(todo) : left[i] = todo[k]
      BY <1>8
    <3>3. \A x \in {todo[k] : k \in 1..Len(todo)} : x \in {todo[1]} \union {left[k] : k \in 1..Len(left)}
      BY <3>1
    <3>4. \A x \in {left[k] : k \in 1..Len(left)} : x \in {todo[k] : k \in 1..Len(todo)}
      BY <3>2
    <3>5. todo[1] \in {todo[k] : k \in 1..Len(todo)}
      BY <1>1
    <3> QED BY <3>3, <3>4, <3>5
  <2> QED BY <1>3, <2>1, <2>2
<1>12. out \o u \in Messages
  BY <1>5, ConcatProperties DEF Messages
<1>13. ASSUME left = <<>> PROVE WellFormed(out \o u)
  <2>1. \A k \in 1..Len(left) : FALSE
    <3>1. Len(left) = 0
      BY <1>13, EmptySeq
    <3> QED BY <3>1
  <2>2. {left[k] : k \in 1..Len(left)} = {}
    BY <2>1
  <2>3. {u[k].id : k \in 1..Len(u)} = uses
    BY <1>11, <2>2
  <2> QED BY <1>3, <1>5, <1>10, <2>3, AnswersFit
<1>14. ASSUME left # <<>> PROVE Answering(out \o u, left)
  <2>1. u \in Messages
    BY DEF Messages
  <2> QED BY <1>3, <1>10, <1>11, <1>14, <2>1 DEF Answering
<1> QED BY <1>4, <1>8, <1>9, <1>12, <1>13, <1>14

LEMMA AnsweredKeeps ==
    ASSUME ArInv, NEW r \in AgentRuns, arun[r].pc \in {"tools", "approval"}, Answered(r),
           UNCHANGED <<cached, activeRun, missed, pruned, shared, evicted, disconnects>>
    PROVE  ArInv'
<1> DEFINE old == arun[r]
<1>1. /\ arun \in [AgentRuns -> RunIn] /\ old \in RunIn /\ old.msgs \in Messages /\ old.todo \in Seq(CallIds)
      /\ Answering(old.msgs, old.todo) /\ pruned \subseteq AgentSessions /\ disconnects \in 0..MaxDisconnects
  BY RunIs DEF MsgsFit
<1>2. Rest /\ old.pc \in Running \ {"collected"} /\ {"turn", "tools"} \subseteq Running /\ {"turn", "tools"} \subseteq Pcs
  BY <1>1 DEF Rest, Running, Pcs
<1>3. PICK m \in Msg(RunTags) : m = ToolMsg(Head(old.todo))
  BY <1>1, AnsweringOn
<1>4. PICK left \in Seq(CallIds) : left = Tail(old.todo)
  BY <1>1, AnsweringOn
<1>5. PICK msgs \in Messages :
        /\ msgs = Append(old.msgs, m) /\ Tags(old.msgs) \subseteq Tags(msgs)
        /\ left = <<>> => WellFormed(msgs)
        /\ left # <<>> => Answering(msgs, left)
  <2>1. /\ Append(old.msgs, m) \in Messages
        /\ left = <<>> => WellFormed(Append(old.msgs, m))
        /\ left # <<>> => Answering(Append(old.msgs, m), left)
    BY <1>1, <1>3, <1>4, AnsweringOn
  <2>2. Tags(old.msgs) \subseteq Tags(Append(old.msgs, m))
    BY <1>1, AddsTo
  <2> QED BY <2>1, <2>2
<1>6. PICK pc \in {"turn", "tools"} : pc = IF left = <<>> THEN "turn" ELSE "tools"
  OBVIOUS
<1> DEFINE x == [old EXCEPT !.msgs = msgs, !.todo = left, !.pc = pc, !.decision = "none"]
<1>7. x \in RunIn /\ x.pc = pc /\ x.msgs = msgs /\ x.sess = old.sess /\ x.todo = left
  BY <1>1, <1>2 DEF RunIn
<1>8. arun' = [arun EXCEPT ![r] = x]
  BY <1>1, <1>3, <1>4, <1>5, <1>6 DEF Answered
<1> HIDE DEF x
<1>9. MsgsFit(x)
  BY <1>5, <1>6, <1>7 DEF MsgsFit
<1>10. x.pc \in Running /\ Tags(old.msgs) \subseteq Tags(x.msgs)
  BY <1>2, <1>5, <1>7
<1> QED BY <1>2, <1>7, <1>8, <1>9, <1>10, InTurnStep

LEMMA GuardedExecuteKeeps == ASSUME ArInv, NEW r \in AgentRuns, GuardedExecute(r) PROVE ArInv'
<1> DEFINE old == arun[r]
<1>1. /\ old.pc = "tools" /\ UNCHANGED <<cached, activeRun, missed, pruned, shared, evicted, disconnects>>
  BY DEF GuardedExecute
<1>2. CASE Answered(r)
  BY <1>1, <1>2, AnsweredKeeps
<1>3. CASE arun' = [arun EXCEPT ![r].pc = "approval", ![r].decision = "open"]
  <2>1. /\ arun \in [AgentRuns -> RunIn] /\ old \in RunIn /\ Answering(old.msgs, old.todo)
        /\ pruned \subseteq AgentSessions /\ disconnects \in 0..MaxDisconnects
    BY <1>1, RunIs DEF MsgsFit
  <2>2. Rest /\ old.pc \in Running \ {"collected"} /\ "approval" \in Running /\ "approval" \in Pcs
    BY <1>1, <2>1 DEF Rest, Running, Pcs
  <2> DEFINE x == [old EXCEPT !.pc = "approval", !.decision = "open"]
  <2>3. x \in RunIn /\ x.pc = "approval" /\ x.msgs = old.msgs /\ x.sess = old.sess /\ x.todo = old.todo
    BY <2>1, <2>2 DEF RunIn
  <2>4. arun' = [arun EXCEPT ![r] = x]
    BY <1>3, <2>1
  <2> HIDE DEF x
  <2>5. MsgsFit(x)
    BY <2>1, <2>3 DEF MsgsFit
  <2>6. x.pc \in Running /\ Tags(old.msgs) \subseteq Tags(x.msgs)
    BY <2>2, <2>3
  <2> QED BY <1>1, <2>2, <2>3, <2>4, <2>5, <2>6, InTurnStep
<1> QED BY <1>2, <1>3 DEF GuardedExecute

\* A decision that is not taken finds another runtime, or none, in the run's place.
LEMMA UserDecidesKeeps == ASSUME ArInv, NEW r \in AgentRuns, UserDecides(r) PROVE ArInv'
<1> DEFINE old == arun[r]
<1>1. /\ old.pc = "approval" /\ old.decision = "open"
      /\ missed' = (IF arun' = arun THEN missed \union {r} ELSE missed)
      /\ UNCHANGED <<cached, activeRun, pruned, shared, evicted, disconnects>>
  BY DEF UserDecides
<1>2. PICK d \in {"yes", "no"} : arun' = Decided(r, d)
  BY DEF UserDecides
<1>3. /\ arun \in [AgentRuns -> RunIn] /\ old \in RunIn /\ Answering(old.msgs, old.todo) /\ MsgsFit(old) /\ CacheFits
      /\ pruned \subseteq AgentSessions /\ evicted \subseteq AgentSessions /\ disconnects \in 0..MaxDisconnects
  BY <1>1, RunIs DEF MsgsFit
<1>4. old.pc \in Running \ {"collected"} /\ Active(old)
  BY <1>1 DEF Running, Active, RunOver
<1>5. CASE activeRun[old.sess] = r
  <2> DEFINE x == [old EXCEPT !.decision = d]
  <2>1. x \in RunIn /\ x.pc = "approval" /\ x.msgs = old.msgs /\ x.sess = old.sess /\ x.todo = old.todo /\ x.decision = d
    BY <1>1, <1>3 DEF RunIn
  <2>2. arun' = [arun EXCEPT ![r] = x]
    BY <1>2, <1>3, <1>5 DEF Decided
  <2> HIDE DEF x
  <2>3. MsgsFit(x)
    BY <1>3, <2>1 DEF MsgsFit
  <2>4. arun' # arun
    <3>1. arun'[r] = x
      BY <1>3, <2>2
    <3> QED BY <1>1, <2>1, <3>1
  <2>5. Rest
    BY <1>1, <1>3, <2>4 DEF Rest
  <2>6. x.pc \in Running /\ Tags(old.msgs) \subseteq Tags(x.msgs)
    BY <2>1 DEF Running
  <2> QED BY <1>1, <1>4, <2>1, <2>2, <2>3, <2>5, <2>6, InTurnStep
<1>6. CASE activeRun[old.sess] # r
  <2>1. arun' = arun /\ missed' = missed \union {r}
    BY <1>1, <1>2, <1>6 DEF Decided
  <2>2. old.sess \in shared
    BY <1>1, <1>4, <1>6 DEF ArInv, Reached
  <2>3. GoesOn(r)
    BY <1>1, <1>3, <1>4, <2>1 DEF GoesOn, Moved
  <2>4. StaysTold(r)
    <3>1. CacheKeeps({})
      BY <1>1, CacheSame
    <3> QED BY <1>1, <1>4, <2>1, <3>1 DEF StaysTold, Saved
  <2>5. MsgsFit(arun'[r])
    BY <1>3, <2>1
  <2>6. CacheFits'
    BY <1>1, <1>3, CacheSame
  <2> QED BY <1>1, <1>3, <2>1, <2>2, <2>3, <2>4, <2>5, <2>6, RunStep
<1> QED BY <1>5, <1>6

LEMMA ApprovalEndsKeeps == ASSUME ArInv, NEW r \in AgentRuns, ApprovalEnds(r) PROVE ArInv'
BY AnsweredKeeps DEF ApprovalEnds

\* A step that changes only where a run is.
LEMMA GoesTo ==
    ASSUME ArInv, NEW r \in AgentRuns, NEW pc \in Pcs, Goes(r, pc)
    PROVE  /\ arun' \in [AgentRuns -> RunIn] /\ \A q \in AgentRuns \ {r} : arun'[q] = arun[q]
           /\ arun'[r].pc = pc /\ arun'[r].sess = arun[r].sess /\ arun'[r].msgs = arun[r].msgs
<1>1. arun \in [AgentRuns -> RunIn] /\ arun[r] \in RunIn
  BY RunIs
<1> DEFINE x == [arun[r] EXCEPT !.pc = pc]
<1>2. x \in RunIn /\ x.pc = pc /\ x.sess = arun[r].sess /\ x.msgs = arun[r].msgs
  BY <1>1 DEF RunIn
<1>3. arun' = [arun EXCEPT ![r] = x]
  BY <1>1 DEF Goes
<1> HIDE DEF x
<1> QED BY <1>1, <1>2, <1>3

\* The messages are saved by a run that is no longer in its turns.
LEMMA SavingKeeps ==
    ASSUME ArInv, NEW r \in AgentRuns, arun[r].pc \in {"save", "exit", "collected"}, Saves(r),
           NEW pc \in {"closing", "ended"}, Goes(r, pc), UNCHANGED <<missed, pruned, shared, disconnects>>,
           activeRun' \in {activeRun, PopActive(r)},
           pc = "closing" => arun[r].pc = "save" /\ activeRun' = activeRun
    PROVE  ArInv'
<1>1. pc \in Pcs
  BY DEF Pcs, RunOver
<1>2. /\ arun' \in [AgentRuns -> RunIn] /\ (\A q \in AgentRuns \ {r} : arun'[q] = arun[q])
      /\ arun'[r].pc = pc /\ arun'[r].sess = arun[r].sess /\ arun'[r].msgs = arun[r].msgs
  BY <1>1, GoesTo
<1>3. /\ arun[r].msgs \in Messages /\ arun[r].sess \in AgentSessions /\ CacheFits
      /\ pruned \subseteq AgentSessions /\ evicted \subseteq AgentSessions /\ disconnects \in 0..MaxDisconnects
  BY RunIs
<1>4. /\ CacheFits' /\ evicted' \subseteq AgentSessions /\ evicted \subseteq evicted'
      /\ CacheKeeps({arun[r].sess}) /\ CacheHolds(arun[r].sess, arun[r].msgs)
  BY <1>3, CacheSetFits DEF Saves
<1>5. SavesTold(r)
  BY <1>2, <1>4 DEF SavesTold, Running
<1>6. GoesOn(r)
  BY <1>2 DEF GoesOn, Moved, Active, RunOver
<1>7. MsgsFit(arun'[r])
  BY <1>2 DEF MsgsFit
<1> QED BY <1>3, <1>4, <1>5, <1>6, <1>7, RunStep

\* A run that goes where nothing is said any more.
LEMMA LeavingKeeps ==
    ASSUME ArInv, NEW r \in AgentRuns, NEW pc \in Pcs, Goes(r, pc),
           UNCHANGED <<cached, missed, pruned, shared, evicted>>, disconnects' \in 0..MaxDisconnects,
           arun[r].pc \notin {"idle"} \union RunOver, pc \notin {"idle", "setup", "turn", "tools", "approval"},
           pc \in Running => arun[r].pc \in Running \ {"collected"},
           pc \in {"closing", "ended"} => arun[r].pc = "closing",
           activeRun' \in {activeRun, PopActive(r)},
           pc \notin RunOver \union {"collected"} => arun[r].pc # "collected" /\ activeRun' = activeRun
    PROVE  ArInv'
<1>1. /\ arun' \in [AgentRuns -> RunIn] /\ (\A q \in AgentRuns \ {r} : arun'[q] = arun[q])
      /\ arun'[r].pc = pc /\ arun'[r].sess = arun[r].sess /\ arun'[r].msgs = arun[r].msgs
  BY GoesTo
<1>2. CacheFits /\ pruned \subseteq AgentSessions /\ evicted \subseteq AgentSessions
  BY RunIs
<1>3. CacheKeeps({}) /\ CacheFits'
  BY <1>2, CacheSame
<1>4. GoesOn(r)
  BY <1>1 DEF GoesOn, Moved, Active
<1>5. MsgsFit(arun'[r])
  BY <1>1 DEF MsgsFit
<1>6. StaysTold(r)
  BY <1>1, <1>3 DEF StaysTold, Saved
<1> QED BY <1>2, <1>3, <1>4, <1>5, <1>6, RunStep

LEMMA SaveKeeps == ASSUME ArInv, NEW r \in AgentRuns, Save(r) PROVE ArInv'
BY SavingKeeps DEF Save

LEMMA ClosesKeeps == ASSUME ArInv, NEW r \in AgentRuns, Closes(r) PROVE ArInv'
<1>1. /\ UNCHANGED <<missed, pruned, shared, disconnects>> /\ activeRun' \in {activeRun, PopActive(r)}
      /\ disconnects' \in 0..MaxDisconnects /\ {"ended", "failed"} \subseteq Pcs
  BY RunIs DEF Closes, Pcs, RunOver
<1>2. CASE arun[r].pc \in {"exit", "collected"} /\ Saves(r) /\ Goes(r, "ended")
  BY <1>1, <1>2, SavingKeeps
<1>3. CASE arun[r].pc = "closing" /\ Goes(r, "ended") /\ UNCHANGED <<cached, evicted>>
  <2>1. "ended" \in Pcs /\ "ended" \notin Running /\ "ended" \in RunOver /\ "closing" \notin RunOver
    BY <1>1 DEF Running, RunOver
  <2> QED BY <1>1, <1>3, <2>1, LeavingKeeps
<1>4. CASE arun[r].pc = "broken" /\ Goes(r, "failed") /\ UNCHANGED <<cached, evicted>>
  <2>1. "failed" \in Pcs /\ "failed" \notin Running /\ "failed" \in RunOver /\ "broken" \notin RunOver
    BY <1>1 DEF Running, RunOver
  <2> QED BY <1>1, <1>4, <2>1, LeavingKeeps
<1> QED BY <1>2, <1>3, <1>4 DEF Closes

LEMMA DisconnectsKeeps == ASSUME ArInv, NEW r \in AgentRuns, Disconnects(r) PROVE ArInv'
<1>1. /\ UNCHANGED <<cached, missed, pruned, shared, evicted>> /\ disconnects' \in 0..MaxDisconnects
  BY RunIs, AgentRunAssumption DEF Disconnects
<1>2. /\ {"broken", "exit", "collected"} \subseteq Pcs /\ "broken" \notin Running
      /\ \A pc \in {"turn", "tools", "approval", "save"} : pc \in Running \ {"collected"} /\ pc \notin {"idle"} \union RunOver
      /\ "setup" \notin {"idle"} \union RunOver
  BY DEF Pcs, Running, RunOver
<1>3. CASE arun[r].pc = "setup" /\ Goes(r, "broken") /\ UNCHANGED activeRun
  BY <1>1, <1>2, <1>3, LeavingKeeps
<1>4. CASE arun[r].pc \in {"turn", "tools", "approval", "save"} /\ Goes(r, "exit") /\ UNCHANGED activeRun
  BY <1>1, <1>2, <1>4, LeavingKeeps
<1>5. CASE arun[r].pc \in {"turn", "tools", "approval", "save"} /\ Goes(r, "collected") /\ activeRun' = PopActive(r)
  BY <1>1, <1>2, <1>5, LeavingKeeps
<1> QED BY <1>3, <1>4, <1>5 DEF Disconnects

LEMMA ArStep == ASSUME ArInv, ArNext PROVE ArInv'
<1>1. PICK r \in AgentRuns :
        \/ \E s \in AgentSessions : Submit(r, s)
        \/ SetUp(r) \/ SetUpFails(r) \/ CallsModel(r) \/ TurnsUsedUp(r) \/ GuardedExecute(r)
        \/ UserDecides(r) \/ ApprovalEnds(r) \/ Save(r) \/ Closes(r) \/ Disconnects(r)
  BY DEF ArNext
<1>2. CASE \E s \in AgentSessions : Submit(r, s)
  BY <1>2, SubmitKeeps
<1>3. CASE SetUp(r) \/ SetUpFails(r)
  BY <1>3, SetUpKeeps, SetUpFailsKeeps
<1>4. CASE CallsModel(r) \/ TurnsUsedUp(r)
  BY <1>4, CallsModelKeeps, TurnsUsedUpKeeps
<1>5. CASE GuardedExecute(r) \/ UserDecides(r) \/ ApprovalEnds(r)
  BY <1>5, GuardedExecuteKeeps, UserDecidesKeeps, ApprovalEndsKeeps
<1>6. CASE Save(r) \/ Closes(r) \/ Disconnects(r)
  BY <1>6, SaveKeeps, ClosesKeeps, DisconnectsKeeps
<1> QED BY <1>1, <1>2, <1>3, <1>4, <1>5, <1>6

LEMMA ArStart == ASSUME ArInit PROVE ArInv
<1>1. /\ cached = <<>> /\ activeRun = [s \in AgentSessions |-> NoRun]
      /\ missed = {} /\ pruned = {} /\ shared = {} /\ evicted = {} /\ disconnects = 0
  BY DEF ArInit
<1>2. PICK s \in AgentSessions :
        arun = [r \in AgentRuns |-> [pc |-> "idle", sess |-> s, msgs |-> <<>>, turn |-> 0, todo |-> <<>>, decision |-> "none"]]
  BY AgentRunAssumption DEF ArInit
<1>3. <<>> \in Messages /\ <<>> \in Seq(CallIds) /\ <<>> \in Seq(Entry) /\ Len(<<>>) = 0 /\ "idle" \in Pcs
      /\ 0 \in 0..MaxTurns /\ 0 \in 0..MaxDisconnects /\ 0 <= CacheSessions
  BY EmptySeq, AgentRunAssumption DEF Messages, Pcs
<1>4. arun \in [AgentRuns -> RunIn] /\ \A r \in AgentRuns : arun[r].pc = "idle" /\ arun[r].msgs = <<>>
  BY <1>2, <1>3 DEF RunIn
<1>5. CacheFits
  BY <1>1, <1>3 DEF CacheFits
<1>6. ArFits
  <2>1. \A r \in AgentRuns : MsgsFit(arun[r])
    BY <1>4 DEF MsgsFit
  <2>2. activeRun \in [AgentSessions -> AgentRuns \union {NoRun}]
    BY <1>1
  <2> QED BY <1>1, <1>3, <1>4, <1>5, <2>1, <2>2 DEF ArFits
<1>7. \A r \in AgentRuns : ~Active(arun[r]) /\ ~Saved(arun[r]) /\ arun[r].pc \notin Running
  BY <1>4 DEF Active, Saved, Running
<1> QED BY <1>1, <1>6, <1>7 DEF ArInv, Lone, Reached, MissedLate, SaidKnown

LEMMA ArFitsType == ASSUME ArInv PROVE ArTypeOK
<1>1. ArFits /\ CacheFits
  BY DEF ArInv, ArFits
<1>2. cached \in Seq([s: AgentSessions, msgs: Seq([role: {"system", "user", "assistant", "tool"},
                      calls: SUBSET CallIds, id: CallIds \union {NoId}, tag: AgentRuns \union {NoId}])])
  BY <1>1 DEF CacheFits, Entry, Messages, Msg, RunTags
<1>3. \A r \in AgentRuns : Range(arun[r].todo) \subseteq CallIds
  <2> TAKE r \in AgentRuns
  <2>1. PICK todo \in Seq(CallIds) : todo = arun[r].todo
    BY RunIs
  <2>2. DOMAIN todo = 1..Len(todo) /\ \A k \in 1..Len(todo) : todo[k] \in CallIds
    BY LenProperties, ElementOfSeq
  <2> QED BY <2>1, <2>2 DEF Range
<1>4. \A r \in AgentRuns : /\ arun[r].pc \in Pcs /\ arun[r].sess \in AgentSessions /\ arun[r].turn \in 0..MaxTurns
                           /\ arun[r].decision \in {"none", "open", "yes", "no"}
  BY <1>1 DEF ArFits, RunIn
<1> QED BY <1>1, <1>2, <1>3, <1>4 DEF ArTypeOK, ArFits, CacheFits

LEMMA ArHears == ASSUME ArInv PROVE MessagesKept /\ DecisionsReachLoneRuns
<1>1. ArFits /\ CacheFits /\ MissedLate /\ SaidKnown
  BY DEF ArInv, ArFits
<1>2. ASSUME NEW r \in AgentRuns, arun[r].pc = "ended", arun[r].msgs # <<>>, Whole(arun[r].sess)
      PROVE  InCache(arun[r].sess) # {} /\ r \in SavedTags(arun[r].sess)
  <2> DEFINE s == arun[r].sess
  <2>1. PICK i \in 1..Len(cached) : cached[i].s = s /\ r \in Tags(cached[i].msgs)
    BY <1>1, <1>2 DEF SaidKnown, Saved
  <2>2. cached[i] \in Entry
    BY <1>1, ElementOfSeq DEF CacheFits
  <2>3. PICK msgs \in Seq(Msg(RunTags)) : msgs = cached[i].msgs
    BY <2>2 DEF Entry, Messages
  <2>4. InCache(s) # {} /\ MessagesOf(s) = msgs
    BY <1>1, <2>1, <2>3, CachedAre
  <2>5. \E k \in 1..Len(msgs) : msgs[k].tag = r
    BY <2>1, <2>3, TagsAre
  <2> QED BY <2>4, <2>5 DEF SavedTags
<1>3. MessagesKept
  BY <1>2 DEF MessagesKept, Kept, Whole
<1> QED BY <1>1, <1>3 DEF MissedLate, DecisionsReachLoneRuns

LEMMA ArRequests == ASSUME ArInv PROVE RequestsWellFormed
BY SentFits DEF RequestsWellFormed

----------------------------------------------------------------------------
(* Histories and runs together.                                            *)

LEMMA ArSame == ASSUME ArInv, UNCHANGED arVars PROVE ArInv'
<1>1. /\ cached' = cached /\ activeRun' = activeRun /\ arun' = arun /\ missed' = missed /\ pruned' = pruned
      /\ shared' = shared /\ evicted' = evicted /\ disconnects' = disconnects
  BY DEF arVars
<1>2. ArFits'
  <2>1. \A r \in AgentRuns : MsgsFit(arun'[r])
    BY <1>1 DEF ArInv, ArFits
  <2>2. CacheFits'
    BY <1>1, CacheSame DEF ArInv, ArFits
  <2> QED BY <1>1, <2>1, <2>2 DEF ArInv, ArFits, MsgsFit, Answering, Unanswered
<1>3. Lone' /\ Reached' /\ MissedLate'
  BY <1>1 DEF ArInv, Lone, Reached, MissedLate, Active
<1>4. SaidKnown'
  BY <1>1 DEF ArInv, SaidKnown, Whole, Saved, Tags
<1> QED BY <1>2, <1>3, <1>4 DEF ArInv

AgInv == MhInv /\ ArInv

LEMMA AgStart == ASSUME AgentsInit PROVE AgInv
BY MhStart, ArStart DEF AgentsInit, AgInv

LEMMA AgStep == ASSUME AgInv, [AgentsNext]_agVars PROVE AgInv'
<1>1. ASSUME UNCHANGED mhVars PROVE MhInv'
  BY <1>1 DEF AgInv, MhInv, mhVars, BlocksFollow, BlockFollows, Alternate
<1>2. CASE MhNext /\ UNCHANGED arVars
  BY <1>2, MhStep, ArSame DEF AgInv
<1>3. CASE ArNext /\ UNCHANGED mhVars
  BY <1>1, <1>3, ArStep DEF AgInv
<1>4. CASE UNCHANGED agVars
  BY <1>1, <1>4, ArSame DEF AgInv, agVars
<1> QED BY <1>2, <1>3, <1>4 DEF AgentsNext

LEMMA AgSound == ASSUME AgInv PROVE HistoriesAreSound /\ UsersAreHeard
BY RepairSound, PruneSound, ConversionSound, ArFitsType, ArRequests, ArHears DEF AgInv, HistoriesAreSound, UsersAreHeard

\* What is sent to a provider is well formed, for histories of any length and any
\* number of runs, ids, sessions and turns: repair, pruning and the conversions pair
\* calls with results, and so does every request of a run, whatever cut-off runs left
\* in the cache (_ensure_valid_tool_sequence, _prune_messages, from_anthropic, run).
THEOREM HistoriesStaySound == AgentsSpec => []HistoriesAreSound
<1>1. AgentsInit => AgInv
  BY AgStart
<1>2. AgInv /\ [AgentsNext]_agVars => AgInv'
  BY AgStep
<1>3. AgInv => HistoriesAreSound
  BY AgSound
<1> QED BY <1>1, <1>2, <1>3, PTL DEF AgentsSpec

\* However a run ended, what its user said is in the session's history, and a decision
\* finds the call that waits for it, unless the history was pruned, the session
\* evicted, or two runs of the session overlapped (run, agent_approval).
THEOREM UsersStayHeard == AgentsSpec => []UsersAreHeard
<1>1. AgentsInit => AgInv
  BY AgStart
<1>2. AgInv /\ [AgentsNext]_agVars => AgInv'
  BY AgStep
<1>3. AgInv => UsersAreHeard
  BY AgSound
<1> QED BY <1>1, <1>2, <1>3, PTL DEF AgentsSpec
=============================================================================
