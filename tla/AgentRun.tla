------------------------------ MODULE AgentRun ------------------------------
(***************************************************************************)
(* Runs of the agent runtime behind /v1/agent/submit (AgentRuntime.run in  *)
(* app/agent/runtime.py, agent_submit and agent_approval in app/main.py)   *)
(* and the session cache they share (app/session_store.py, whose Redis     *)
(* back end is never enabled).                                             *)
(*                                                                         *)
(* A run loads its session's messages, appends the user's, and alternates  *)
(* between the model and tools; dangerous tools wait for the user, whose   *)
(* answer is looked up through the session's active runtime.  The client   *)
(* may disconnect at any await.  Memory, traces and texts are left out.    *)
(***************************************************************************)
EXTENDS MessageHistory

CONSTANTS
    AgentRuns, AgentSessions,
    MaxTurns,           \* max_turns
    CacheSessions,      \* max_sessions of the cache
    MaxDisconnects,     \* bound: clients that go away
    NoRun

ASSUME AgentRunAssumption ==
    /\ MaxTurns \in Nat \ {0} /\ CacheSessions \in Nat \ {0} /\ MaxDisconnects \in Nat
    /\ NoRun \notin AgentRuns /\ AgentSessions # {}

VARIABLES
    cached,       \* SessionStore._local: sessions and their messages, oldest first
    activeRun,    \* _ACTIVE_RUNTIMES
    arun,         \* the runs
    missed,       \* history: runs whose user's decision reached no waiting call
    pruned,       \* history: sessions that lost messages to pruning
    shared,       \* history: sessions that had two runs at the same time
    evicted,      \* history: sessions dropped from the cache
    disconnects

arVars == <<cached, activeRun, arun, missed, pruned, shared, evicted, disconnects>>

----------------------------------------------------------------------------
\* The finally clause of run has still to save the messages ("exit", or "collected"
\* when the stream is closed already), or cannot, because the run failed before the
\* variables it looks at had a value ("broken", in the end "failed").
RunOver == {"ended", "failed"}
Pcs == {"idle", "setup", "turn", "tools", "approval", "save", "exit", "collected", "broken", "closing"} \union RunOver
ArTypeOK ==
    /\ cached \in Seq([s: AgentSessions, msgs: Seq([role: {"system", "user", "assistant", "tool"},
                       calls: SUBSET CallIds, id: CallIds \union {NoId}, tag: AgentRuns \union {NoId}])])
    /\ Len(cached) <= CacheSessions /\ \A i, j \in 1..Len(cached) : cached[i].s = cached[j].s => i = j
    /\ activeRun \in [AgentSessions -> AgentRuns \union {NoRun}]
    /\ \A r \in AgentRuns : arun[r].pc \in Pcs /\ arun[r].sess \in AgentSessions /\ arun[r].turn \in 0..MaxTurns
        /\ arun[r].decision \in {"none", "open", "yes", "no"} /\ Range(arun[r].todo) \subseteq CallIds
    /\ missed \subseteq AgentRuns /\ shared \subseteq AgentSessions
    /\ pruned \subseteq AgentSessions /\ evicted \subseteq AgentSessions
    /\ disconnects \in 0..MaxDisconnects

ArInit ==
    /\ cached = <<>> /\ activeRun = [s \in AgentSessions |-> NoRun]
    /\ arun = [r \in AgentRuns |-> [pc |-> "idle", sess |-> CHOOSE s \in AgentSessions : TRUE, msgs |-> <<>>,
                                    turn |-> 0, todo |-> <<>>, decision |-> "none"]]
    /\ missed = {} /\ pruned = {} /\ shared = {} /\ evicted = {} /\ disconnects = 0

Goes(r, pc) == arun' = [arun EXCEPT ![r].pc = pc]
InCache(s) == {i \in 1..Len(cached) : cached[i].s = s}
MessagesOf(s) == LET i == CHOOSE i \in InCache(s) : TRUE IN cached[i].msgs

\* The entry becomes the newest and the oldest are evicted.
CacheSet(s, msgs) ==
    LET rest == IF InCache(s) = {} THEN cached ELSE RemoveAt(cached, CHOOSE i \in InCache(s) : TRUE)
        all == Append(rest, [s |-> s, msgs |-> msgs]) IN
    IF Len(all) > CacheSessions THEN cached' = Tail(all) /\ evicted' = evicted \union {Head(all).s}
    ELSE cached' = all /\ UNCHANGED evicted

----------------------------------------------------------------------------
Registered(r, s) == [activeRun EXCEPT ![s] = r]

\* agent_submit registers the runtime; InputGuard may refuse the text.
Submit(r, s) ==
    /\ arun[r].pc = "idle"
    /\ activeRun' = Registered(r, s)
    /\ \E pc \in {"setup", "closing"} : arun' = [arun EXCEPT ![r].pc = pc, ![r].sess = s]
    /\ shared' = IF \E q \in AgentRuns : arun[q].sess = s /\ arun[q].pc \notin {"idle"} \union RunOver
                 THEN shared \union {s} ELSE shared
    /\ UNCHANGED <<cached, missed, pruned, evicted, disconnects>>

\* Mutant: what the cache holds is taken as it is.
Loaded_Unrepaired(r) ==
    LET s == arun[r].sess
        found == IF InCache(s) # {} THEN MessagesOf(s) ELSE <<Text("system", NoId)>> IN
    Append(found, Text("user", r))
\* The messages are loaded, repaired, extended by the user's and compacted.
Loaded(r) ==
    LET s == arun[r].sess
        found == IF InCache(s) # {} THEN MessagesOf(s) ELSE <<Text("system", NoId)>> IN
    Append(EnsureValid(found), Text("user", r))
SetUp(r) ==
    LET s == arun[r].sess IN
    /\ arun[r].pc = "setup"
    /\ \E msgs \in Compactions(Loaded(r)) :
        /\ arun' = [arun EXCEPT ![r].pc = "turn", ![r].msgs = msgs]
        /\ pruned' = IF msgs = Loaded(r) THEN pruned ELSE pruned \union {s}
    /\ \/ InCache(s) # {} /\ CacheSet(s, MessagesOf(s))
       \/ InCache(s) = {} /\ CacheSet(s, <<Text("system", NoId)>>)
    /\ UNCHANGED <<activeRun, missed, shared, disconnects>>

\* The tool definitions or the compaction settings are bad: an exception before the
\* turns, when the finally clause does not yet know its variables.
SetUpFails(r) ==
    LET s == arun[r].sess IN
    /\ arun[r].pc = "setup"
    /\ arun' = [arun EXCEPT ![r].pc = "broken", ![r].msgs = Loaded(r)]
    /\ \/ InCache(s) # {} /\ CacheSet(s, MessagesOf(s))
       \/ InCache(s) = {} /\ CacheSet(s, <<Text("system", NoId)>>)
    /\ UNCHANGED <<activeRun, missed, pruned, shared, disconnects>>

\* What is sent: compacted once more and cleaned.
Requests(r) == {PreCallClean(s) : s \in Compactions(arun[r].msgs)}

\* One call of the model: an answer, a thought, nothing, an error chunk or tool calls.
Answers(r, sent) ==
    \/ arun' = [arun EXCEPT ![r].pc = "save", ![r].msgs = Append(sent, Text("assistant", NoId))]
    \/ arun' = [arun EXCEPT ![r].pc = "save", ![r].msgs = sent]
    \/ \E ids \in (SUBSET {c \in CallIds : c[1] = r}) \ {{}} :
        arun' = [arun EXCEPT ![r].pc = "tools", ![r].msgs = Append(sent, CallMsg(ids, NoId)),
                             ![r].todo = SetToSeq(ids), ![r].turn = @ + 1]
CallsModel(r) ==
    /\ arun[r].pc = "turn" /\ arun[r].turn < MaxTurns
    /\ \E sent \in Requests(r) :
        /\ Answers(r, sent) \/ arun' = [arun EXCEPT ![r].pc = "exit", ![r].msgs = sent]   \* the gateway raised
        /\ pruned' = IF sent = arun[r].msgs THEN pruned ELSE pruned \union {arun[r].sess}
    /\ UNCHANGED <<cached, activeRun, missed, shared, evicted, disconnects>>

\* The turns are used up: the last thoughts are the answer, if there are any.
TurnsUsedUp(r) ==
    /\ arun[r].pc = "turn" /\ arun[r].turn = MaxTurns
    /\ \E msgs \in {arun[r].msgs, Append(arun[r].msgs, Text("assistant", NoId))} :
        arun' = [arun EXCEPT ![r].pc = "save", ![r].msgs = msgs]
    /\ UNCHANGED <<cached, activeRun, missed, pruned, shared, evicted, disconnects>>

\* The result of a call, or the refusal, becomes a message.
Answered(r) ==
    LET left == Tail(arun[r].todo) IN
    arun' = [arun EXCEPT ![r].msgs = Append(@, ToolMsg(Head(arun[r].todo))), ![r].todo = left,
                         ![r].pc = IF left = <<>> THEN "turn" ELSE "tools", ![r].decision = "none"]

\* ToolGuard: blocked or executed at once; or the user is asked.
GuardedExecute(r) ==
    /\ arun[r].pc = "tools"
    /\ Answered(r) \/ arun' = [arun EXCEPT ![r].pc = "approval", ![r].decision = "open"]
    /\ UNCHANGED <<cached, activeRun, missed, pruned, shared, evicted, disconnects>>

\* agent_approval and submit_approval: the call is looked up in the runtime that is
\* now the session's.
Decided(r, d) == IF activeRun[arun[r].sess] = r THEN [arun EXCEPT ![r].decision = d] ELSE arun

UserDecides(r) ==
    /\ arun[r].pc = "approval" /\ arun[r].decision = "open" /\ r \notin missed
    /\ \E d \in {"yes", "no"} : arun' = Decided(r, d)
    /\ missed' = IF arun' = arun THEN missed \union {r} ELSE missed
    /\ UNCHANGED <<cached, activeRun, pruned, shared, evicted, disconnects>>

\* Mutant: there is no time-out.
WaitOver_OnDecision(r) == arun[r].decision \in {"yes", "no"}
WaitOver(r) == arun[r].decision \in {"yes", "no", "open"}
\* _await_approval: executed, denied, or timed out after five minutes.
ApprovalEnds(r) ==
    /\ arun[r].pc = "approval" /\ WaitOver(r)
    /\ Answered(r)
    /\ UNCHANGED <<cached, activeRun, missed, pruned, shared, evicted, disconnects>>

\* Mutant: a run that did not end well saves nothing.
Saves_OnSuccessOnly(r) ==
    IF arun[r].pc = "save" THEN CacheSet(arun[r].sess, arun[r].msgs) ELSE UNCHANGED <<cached, evicted>>
\* SessionStore.append
Saves(r) == CacheSet(arun[r].sess, arun[r].msgs)

Save(r) ==
    /\ arun[r].pc = "save" /\ Saves(r) /\ Goes(r, "closing")
    /\ UNCHANGED <<activeRun, missed, pruned, shared, disconnects>>

\* event_generator: whatever runtime the session has is taken out.
PopActive(r) == [activeRun EXCEPT ![arun[r].sess] = NoRun]

\* The stream is over, after a save or after an exception.
Closes(r) ==
    /\ \/ arun[r].pc \in {"exit", "collected"} /\ Saves(r) /\ Goes(r, "ended")
       \/ arun[r].pc = "closing" /\ Goes(r, "ended") /\ UNCHANGED <<cached, evicted>>
       \/ arun[r].pc = "broken" /\ Goes(r, "failed") /\ UNCHANGED <<cached, evicted>>
    /\ activeRun' = IF arun[r].pc = "collected" THEN activeRun ELSE PopActive(r)
    /\ UNCHANGED <<missed, pruned, shared, disconnects>>

\* The client is gone.  A run cancelled in an await saves and is then closed; one
\* suspended at an event is closed first, and saves when it is collected.
Disconnects(r) ==
    /\ disconnects < MaxDisconnects /\ disconnects' = disconnects + 1
    /\ \/ arun[r].pc = "setup" /\ Goes(r, "broken") /\ UNCHANGED activeRun
       \/ arun[r].pc \in {"turn", "tools", "approval", "save"} /\ Goes(r, "exit") /\ UNCHANGED activeRun
       \/ /\ arun[r].pc \in {"turn", "tools", "approval", "save"} /\ Goes(r, "collected")
          /\ activeRun' = PopActive(r)
    /\ UNCHANGED <<cached, missed, pruned, shared, evicted>>

ArNext == \E r \in AgentRuns :
    \/ \E s \in AgentSessions : Submit(r, s)
    \/ SetUp(r) \/ SetUpFails(r) \/ CallsModel(r) \/ TurnsUsedUp(r) \/ GuardedExecute(r)
    \/ UserDecides(r) \/ ApprovalEnds(r) \/ Save(r) \/ Closes(r) \/ Disconnects(r)

\* Providers, tools and approvals have time-outs and the event loop runs what is
\* ready: a run that has a step of its own to take does not stand still for ever.
HasStep(r) == arun[r].pc \notin {"idle"} \union RunOver /\ (arun[r].pc = "approval" => WaitOver(r))
ArFairness == \A r \in AgentRuns : []<>~HasStep(r) \/ []<><<arun'[r] # arun[r]>>_arVars

----------------------------------------------------------------------------
\* Every request to a provider pairs calls and results, whatever was cached by runs
\* that were cut off in the middle of their tool calls.
RequestsWellFormed == \A r \in AgentRuns :
    arun[r].pc = "turn" => \A s \in Requests(r) : WellFormed(s)

SavedTags(s) == {MessagesOf(s)[k].tag : k \in 1..Len(MessagesOf(s))}
Kept(r) ==
    LET s == arun[r].sess IN
    \/ s \in pruned \union evicted \union shared
    \/ InCache(s) # {} /\ r \in SavedTags(s)
\* The user's message of a run is in the session's history, however the run ended
\* once its turns had begun, unless the history was pruned, the session evicted, or
\* two runs of the session overlapped.
MessagesKept == \A r \in AgentRuns : (arun[r].pc = "ended" /\ arun[r].msgs # <<>>) => Kept(r)

\* A decision of the user misses the waiting call only when two runs of the session
\* overlapped: the end of one takes out, or its start replaces, the other's runtime.
DecisionsReachLoneRuns == \A r \in missed : arun[r].sess \in shared

\* A run that was submitted ends.
RunsEnd == \A r \in AgentRuns : arun[r].pc # "idle" ~> arun[r].pc \in RunOver

\* "On any exit path (exception, broken stream, GeneratorExit) the cache is saved, so
\* that the user's message is not lost", says the finally clause of run.
ExitsSave == \A r \in AgentRuns : (arun[r].pc \in RunOver /\ arun[r].msgs # <<>>) => Kept(r)
=============================================================================
