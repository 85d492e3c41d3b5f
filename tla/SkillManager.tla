---------------------------- MODULE SkillManager ----------------------------
(***************************************************************************)
(* The skill manager (app/skill/manager.py): registered skills, the MCP    *)
(* client each of them calls through, and the executions in flight, which  *)
(* await a child process, a server or a script while skills are registered *)
(* again or unregistered.  Two things of the process are shared by the     *)
(* executions: the child processes and sys.stdout.                         *)
(***************************************************************************)
EXTENDS Integers

CONSTANTS
    ManagedSkills,      \* full skill ids
    Servers,            \* server_url values
    SkillCalls,         \* executions in flight
    ManagerOps          \* bound: registrations and executions

ASSUME ManagerAssumption == ManagerOps \in Nat

NoMeta == [type |-> "none", server |-> "none", at |-> 0]
NoClient == [server |-> "none", at |-> 0, tools |-> FALSE]
IdleRun == [pc |-> "idle", skill |-> "none", want |-> "none", uses |-> "none", saved |-> "real"]

VARIABLES
    metas,      \* _skills
    clients,    \* _mcp_clients: the server it was made for, the registration, and whether it has its tools cached
    runs,       \* executions: what they do, what the skill and the client named
    children,   \* executions whose child process is alive
    stdout,     \* sys.stdout: "real" or the execution whose log buffer it is
    mops,
    orphaned,   \* history: executions that were cancelled while their child ran
    crossed2    \* history: two scripts ran at the same time

mgVars == <<metas, clients, runs, children, stdout, mops, orphaned, crossed2>>

ManagerTypeOK ==
    /\ \A k \in ManagedSkills : metas[k].type \in {"none", "mcp", "shell", "script"} /\ metas[k].at \in 0..ManagerOps
    /\ \A k \in ManagedSkills : clients[k].server \in Servers \union {"none"}
    /\ children \subseteq SkillCalls /\ orphaned \subseteq SkillCalls
    /\ stdout \in SkillCalls \union {"real"} /\ mops \in 0..ManagerOps /\ crossed2 \in BOOLEAN

ManagerInit ==
    /\ metas = [k \in ManagedSkills |-> NoMeta] /\ clients = [k \in ManagedSkills |-> NoClient]
    /\ runs = [c \in SkillCalls |-> IdleRun] /\ children = {} /\ stdout = "real" /\ mops = 0
    /\ orphaned = {} /\ crossed2 = FALSE

Counted == mops < ManagerOps /\ mops' = mops + 1
processVars == <<children, stdout, orphaned, crossed2>>

\* register_skill: a client for a server_url, in place of the one that is there.
ClientFor(k, server, n) == IF server = "none" THEN clients[k] ELSE [server |-> server, at |-> n, tools |-> FALSE]

\* register_skill: the new metadata replace the old; an MCP skill without a server_url, or
\* one of another type, leaves the client that is there.
RegisterSkill == \E k \in ManagedSkills, t \in {"mcp", "shell", "script"}, s \in Servers \union {"none"} :
    /\ t # "mcp" => s = "none"
    /\ Counted
    /\ metas' = [metas EXCEPT ![k] = [type |-> t, server |-> s, at |-> mops + 1]]
    /\ clients' = IF t = "mcp" THEN [clients EXCEPT ![k] = ClientFor(k, s, mops + 1)] ELSE clients
    /\ UNCHANGED <<runs, processVars>>

\* unregister_skill: the client stays.
UnregisterSkill == \E k \in ManagedSkills :
    /\ metas[k] # NoMeta /\ metas' = [metas EXCEPT ![k] = NoMeta]
    /\ UNCHANGED <<clients, runs, processVars, mops>>

----------------------------------------------------------------------------
(* execute_skill, discover_tools                                           *)

StartRun(c, k, pc, uses) ==
    /\ runs[c].pc = "idle" /\ Counted
    /\ runs' = [runs EXCEPT ![c] = [pc |-> pc, skill |-> k, want |-> metas[k].server, uses |-> uses, saved |-> stdout]]

\* An unknown skill and an MCP skill without a client are errors; the client is called, over
\* HTTP or through a child process of its own (stdio).
ExecuteMcp(c, k) ==
    /\ metas[k].type = "mcp" /\ clients[k] # NoClient
    /\ StartRun(c, k, "rpc", clients[k].server)
    /\ children' \in {children, children \union {c}} /\ orphaned' = orphaned \ {c}
    /\ UNCHANGED <<metas, clients, stdout, crossed2>>

\* discover_tools of a skill's client: cached for five minutes once there are any.
Discover(c, k) ==
    /\ clients[k] # NoClient /\ ~clients[k].tools
    /\ StartRun(c, k, "list", clients[k].server)
    /\ children' \in {children, children \union {c}} /\ orphaned' = orphaned \ {c}
    /\ UNCHANGED <<metas, clients, stdout, crossed2>>

\* run_in_sandbox: a child process.
ExecuteShell(c, k) ==
    /\ metas[k].type = "shell" /\ StartRun(c, k, "shell", "none")
    /\ children' = children \union {c} /\ orphaned' = orphaned \ {c}
    /\ UNCHANGED <<metas, clients, stdout, crossed2>>

\* _execute_python_script: in this process, with sys.stdout redirected to the run's buffer
\* while it awaits.
ExecuteScript(c, k) ==
    /\ metas[k].type = "script" /\ StartRun(c, k, "script", "none")
    /\ stdout' = c /\ crossed2' = (crossed2 \/ \E d \in SkillCalls : runs[d].pc = "script")
    /\ UNCHANGED <<metas, clients, children, orphaned>>

\* The answer comes: the child has ended. A non-empty list of tools is cached.
RunAnswers(c) ==
    /\ runs[c].pc \in {"rpc", "list", "shell"}
    /\ children' = children \ {c}
    /\ clients' = IF runs[c].pc = "list" /\ clients[runs[c].skill].server = runs[c].uses
                  THEN [clients EXCEPT ![runs[c].skill].tools = TRUE] ELSE clients
    /\ runs' = [runs EXCEPT ![c] = IdleRun]
    /\ UNCHANGED <<metas, stdout, mops, orphaned, crossed2>>

\* A time-out kills the child and waits for it; an empty or failed answer caches nothing.
RunTimesOut(c) ==
    /\ runs[c].pc \in {"rpc", "list", "shell"}
    /\ children' = children \ {c} /\ runs' = [runs EXCEPT ![c] = IdleRun]
    /\ UNCHANGED <<metas, clients, stdout, mops, orphaned, crossed2>>

\* The caller is cancelled (a disconnected request): only the time-out kills a child, and
\* communicate() leaves it running.
RunCancelled(c) ==
    /\ runs[c].pc \in {"rpc", "list", "shell"} /\ runs' = [runs EXCEPT ![c] = IdleRun]
    /\ orphaned' = IF c \in children THEN orphaned \union {c} ELSE orphaned
    /\ UNCHANGED <<metas, clients, children, stdout, mops, crossed2>>

\* A child nobody waits for ends.
OrphanEnds(c) ==
    /\ c \in orphaned /\ c \in children /\ children' = children \ {c}
    /\ UNCHANGED <<metas, clients, runs, stdout, mops, orphaned, crossed2>>

\* A script ends, times out, raises or is cancelled: redirect_stdout puts back what it found,
\* then the buffer is closed.
ScriptEnds(c) ==
    /\ runs[c].pc = "script" /\ stdout' = runs[c].saved /\ runs' = [runs EXCEPT ![c] = IdleRun]
    /\ UNCHANGED <<metas, clients, children, mops, orphaned, crossed2>>

ManagerNext ==
    \/ RegisterSkill \/ UnregisterSkill
    \/ \E c \in SkillCalls, k \in ManagedSkills : ExecuteMcp(c, k) \/ Discover(c, k) \/ ExecuteShell(c, k) \/ ExecuteScript(c, k)
    \/ \E c \in SkillCalls : RunAnswers(c) \/ RunTimesOut(c) \/ RunCancelled(c) \/ OrphanEnds(c) \/ ScriptEnds(c)

----------------------------------------------------------------------------
(* Properties                                                              *)

\* A call goes to the server of the registration it read, or, when that named none, to
\* the server of an earlier one: never to another server than the one named (execute_skill,
\* register_skill).
CalledWhatWasNamed == \A c \in SkillCalls : runs[c].pc = "rpc" => runs[c].want \in {runs[c].uses, "none"}

\* Every child process belongs to an execution that waits for it, or to one that was
\* cancelled while it waited (_stdio_rpc).
ChildrenHaveParents == \A c \in children : runs[c].pc \in {"rpc", "list", "shell"} \/ c \in orphaned

\* sys.stdout is the process's own whenever no script runs, unless two scripts have run at
\* the same time: then it may stay on a buffer that is closed (_execute_python_script).
StdoutComesBack == stdout # "real" => crossed2 \/ \E c \in SkillCalls : runs[c].pc = "script"
=============================================================================
