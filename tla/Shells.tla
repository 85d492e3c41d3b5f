------------------------------- MODULE Shells -------------------------------
(***************************************************************************)
(* Persistent shells and background jobs of the Python engine's tools      *)
(* (app/tools/terminal.py, app/tools/jobs.py): one table of shells by      *)
(* session, commands that share a session's shell, and a table of          *)
(* background jobs, which run in the same shells.                          *)
(*                                                                         *)
(* A shell is named by the command that started it and runs the lines      *)
(* written to it one after the other.  A command polls for its end; its    *)
(* shell may exit, or its time run out, first.  What a command prints is   *)
(* left out.                                                               *)
(***************************************************************************)
EXTENDS Naturals, Sequences

CONSTANTS
    ShellCommands, ShellSessions,
    SessionOf,          \* get_session_id() of a command
    BackgroundOf,       \* whether run_in_background runs it
    MaxShellExits,      \* bound: shells that exit by themselves
    NoShell

ASSUME ShellAssumption ==
    /\ SessionOf \in [ShellCommands -> ShellSessions] /\ BackgroundOf \in [ShellCommands -> BOOLEAN]
    /\ MaxShellExits \in Nat /\ NoShell \notin ShellCommands

VARIABLES
    procs,      \* _procs: the shell of a session
    alive,      \* shells that run
    lines,      \* what a shell still has to run
    command,    \* the commands, as coroutines
    finished,   \* commands whose sentinel file exists
    jobs,       \* _jobs
    raced,      \* history: sessions with two shells started at the same time
    exits

shVars == <<procs, alive, lines, command, finished, jobs, raced, exits>>

----------------------------------------------------------------------------
ShellCommand == [pc: {"new", "spawning", "polling", "completed", "reset", "timed_out", "blocked", "cancelled"},
                 shell: ShellCommands \union {NoShell}]

ShellsTypeOK ==
    /\ procs \in [ShellSessions -> ShellCommands \union {NoShell}]
    /\ alive \subseteq ShellCommands
    /\ lines \in [ShellCommands -> Seq(ShellCommands)]
    /\ command \in [ShellCommands -> ShellCommand]
    /\ finished \subseteq ShellCommands /\ jobs \subseteq ShellCommands
    /\ raced \subseteq ShellSessions /\ exits \in 0..MaxShellExits

ShInit ==
    /\ procs = [s \in ShellSessions |-> NoShell]
    /\ alive = {}
    /\ lines = [c \in ShellCommands |-> <<>>]
    /\ command = [c \in ShellCommands |-> [pc |-> "new", shell |-> NoShell]]
    /\ finished = {} /\ jobs = {} /\ raced = {} /\ exits = 0

Terminal == {"completed", "reset", "timed_out", "blocked", "cancelled"}
Over(c) == command[c].pc \in Terminal
Becomes(c, pc, sh) == command' = [command EXCEPT ![c] = [pc |-> pc, shell |-> sh]]
\* A foreground command, or the task of a job that has not been killed.
Starts(c) == command[c].pc = "new" /\ (BackgroundOf[c] => c \in jobs)

\* _discard: whichever shell the session has now is dropped and killed.
Discard(s) ==
    /\ procs' = [procs EXCEPT ![s] = NoShell]
    /\ alive' = alive \ {procs[s]}

----------------------------------------------------------------------------
\* run_in_background: the job is in the table before its task runs.
RunInBackground(c) ==
    /\ BackgroundOf[c] /\ command[c].pc = "new" /\ c \notin jobs
    /\ jobs' = jobs \union {c}
    /\ UNCHANGED <<procs, alive, lines, command, finished, raced, exits>>

\* execute on a session whose shell runs: the lines are written at once, unless
\* the command is refused.
RunInShell(c) ==
    LET sh == procs[SessionOf[c]] IN
    /\ Starts(c) /\ sh # NoShell /\ sh \in alive
    /\ \/ Becomes(c, "polling", sh) /\ lines' = [lines EXCEPT ![sh] = Append(@, c)]
       \/ Becomes(c, "blocked", sh) /\ UNCHANGED lines
    /\ UNCHANGED <<procs, alive, finished, jobs, raced, exits>>

\* _get_proc without a live shell: entries of exited shells are pruned, a new
\* shell is started, and others may do the same before it is in the table.
StartShell(c) ==
    LET s == SessionOf[c] IN
    /\ Starts(c) /\ (procs[s] = NoShell \/ procs[s] \notin alive)
    /\ procs' = [t \in ShellSessions |-> IF procs[t] \in alive THEN procs[t] ELSE NoShell]
    /\ alive' = alive \union {c}
    /\ Becomes(c, "spawning", c)
    /\ raced' = IF \E d \in ShellCommands : SessionOf[d] = s /\ command[d].pc = "spawning"
                THEN raced \union {s} ELSE raced
    /\ UNCHANGED <<lines, finished, jobs, exits>>

\* The new shell takes its place in the table, over any other, and gets the lines.
ShellStarted(c) ==
    /\ command[c].pc = "spawning"
    /\ \/ /\ Becomes(c, "blocked", c) /\ UNCHANGED lines
          /\ procs' = [procs EXCEPT ![SessionOf[c]] = c]
       \/ /\ c \in alive /\ Becomes(c, "polling", c) /\ lines' = [lines EXCEPT ![c] = Append(@, c)]
          /\ procs' = [procs EXCEPT ![SessionOf[c]] = c]
       \/ /\ c \notin alive /\ Becomes(c, "reset", c) /\ UNCHANGED lines   \* broken pipe: discarded
          /\ procs' = [procs EXCEPT ![SessionOf[c]] = NoShell]
    /\ UNCHANGED <<alive, finished, jobs, raced, exits>>

\* The shell reaches the sentinel of its next command.
ShellAdvances(sh) ==
    /\ sh \in alive /\ lines[sh] # <<>>
    /\ finished' = finished \union {Head(lines[sh])}
    /\ lines' = [lines EXCEPT ![sh] = Tail(@)]
    /\ UNCHANGED <<procs, alive, command, jobs, raced, exits>>

ShellExits(sh) ==
    /\ sh \in alive /\ exits < MaxShellExits
    /\ exits' = exits + 1 /\ alive' = alive \ {sh}
    /\ UNCHANGED <<procs, lines, command, finished, jobs, raced>>

\* The polling loop of execute.
Completes(c) ==
    /\ command[c].pc = "polling" /\ c \in finished
    /\ Becomes(c, "completed", command[c].shell)
    /\ UNCHANGED <<procs, alive, lines, finished, jobs, raced, exits>>

ShellGone(c) ==
    /\ command[c].pc = "polling" /\ c \notin finished /\ command[c].shell \notin alive
    /\ Discard(SessionOf[c])
    /\ Becomes(c, "reset", command[c].shell)
    /\ UNCHANGED <<lines, finished, jobs, raced, exits>>

TimesOut(c) ==
    /\ command[c].pc = "polling" /\ c \notin finished
    /\ Discard(SessionOf[c])
    /\ Becomes(c, "timed_out", command[c].shell)
    /\ UNCHANGED <<lines, finished, jobs, raced, exits>>

\* job_output of a finished job answers once and forgets the job.
JobOutput(c) ==
    /\ c \in jobs /\ Over(c) /\ jobs' = jobs \ {c}
    /\ UNCHANGED <<procs, alive, lines, command, finished, raced, exits>>

\* job_kill, and the clean-up of jobs that run for two days: the coroutine is
\* cancelled, its lines stay with the shell, and a shell it was starting is killed
\* or left in no table.
JobKill(c) ==
    /\ c \in jobs /\ jobs' = jobs \ {c}
    /\ command' = IF Over(c) THEN command ELSE [command EXCEPT ![c].pc = "cancelled"]
    /\ \/ UNCHANGED <<alive, raced>> /\ command[c].pc # "spawning"
       \/ /\ command[c].pc = "spawning" /\ raced' = raced \union {SessionOf[c]}
          /\ alive' \in {alive, alive \ {c}}
    /\ UNCHANGED <<procs, lines, finished, exits>>

\* _start_cleanup_loop: a job done for a day is forgotten.
Cleanup(c) ==
    /\ c \in jobs /\ Over(c) /\ jobs' = jobs \ {c}
    /\ UNCHANGED <<procs, alive, lines, command, finished, raced, exits>>

ShNext == \E c \in ShellCommands :
    \/ RunInBackground(c) \/ RunInShell(c) \/ StartShell(c) \/ ShellStarted(c) \/ ShellAdvances(c) \/ ShellExits(c)
    \/ Completes(c) \/ ShellGone(c) \/ TimesOut(c) \/ JobOutput(c) \/ JobKill(c) \/ Cleanup(c)

\* Processes start, polling goes on until the time-out, the clean-up loop runs every hour.
ShFairness == \A c \in ShellCommands :
    /\ WF_shVars(ShellStarted(c)) /\ WF_shVars(Completes(c)) /\ WF_shVars(ShellGone(c))
    /\ WF_shVars(TimesOut(c)) /\ WF_shVars(Cleanup(c))
    /\ WF_shVars(BackgroundOf[c] /\ (RunInShell(c) \/ StartShell(c)))

----------------------------------------------------------------------------
\* A shell that runs and is in no table, so that neither a reset nor close_all
\* kills it, was started in a race for its session's entry or by a job that was
\* cancelled meanwhile: time-outs, exits and refusals lose no shell.
OrphansNeedARace == \A sh \in alive :
    \/ procs[SessionOf[sh]] = sh
    \/ command[sh].pc = "spawning"
    \/ SessionOf[sh] \in raced

\* No job stays in the table for ever, whether or not anybody asks for its output.
JobsAreForgotten == \A c \in ShellCommands : c \in jobs ~> c \notin jobs
=============================================================================
