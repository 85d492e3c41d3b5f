----------------------------- MODULE ChatTasks ------------------------------
(***************************************************************************)
(* The unified chat entry (app/api/unified_executor.py): sessions in a     *)
(* bounded cache of each engine and in PostgreSQL, written through, and    *)
(* tasks that run through an agent, a workflow or the task router          *)
(* (app/core/task_router.py), whose subtasks form a chain.                 *)
(*                                                                         *)
(* A message is the task it belongs to and its role.  A session object is  *)
(* named by the task that created it: the cache maps sessions to objects,  *)
(* and a task goes on with the object it found.                            *)
(***************************************************************************)
EXTENDS Integers, Sequences, SequencesExt, FiniteSets

CONSTANTS
    ChatJobs, ChatEngines, ChatSessions,
    CacheSize,          \* _MAX_L1_SESSIONS
    ReadLimit,          \* messages a read returns
    ChainLength,        \* bound: subtasks of a plan
    DbFailures          \* bound: statements that fail

ASSUME ChatAssumption == CacheSize \in Nat \ {0} /\ ReadLimit \in Nat /\ ChainLength \in Nat \ {0} /\ DbFailures \in Nat
    /\ ChatEngines # {} /\ ChatSessions # {}

VARIABLES
    chat,         \* the tasks
    held,         \* messages of the session objects
    l1,           \* the caches: sessions with their objects, least recently updated first
    chatRows,     \* unified_sessions
    chatDb,       \* unified_messages, in their order
    dbFailed      \* tasks one of whose statements failed

chVars == <<chat, held, l1, chatRows, chatDb, dbFailed>>

ChTypeOK ==
    /\ \A t \in ChatJobs :
        /\ chat[t].pc \in {"new", "load", "ensure", "user", "run", "reply", "done"}
        /\ chat[t].mode \in {"auto", "direct"} /\ chat[t].obj \in ChatJobs
        /\ chat[t].eng \in ChatEngines /\ chat[t].sess \in ChatSessions
        /\ chat[t].parts \in 0..ChainLength /\ chat[t].worked \in BOOLEAN /\ chat[t].said \in {"nothing", "success", "failure"}
    /\ \A e \in ChatEngines : /\ Len(l1[e]) <= CacheSize
                              /\ \A i, j \in 1..Len(l1[e]) : l1[e][i].s = l1[e][j].s => i = j
    /\ chatRows \subseteq ChatSessions /\ Cardinality(dbFailed) <= DbFailures
    /\ \A s \in ChatSessions : Range(chatDb[s]) \subseteq ChatJobs \X {"user", "assistant"}

ChInit ==
    /\ chat = [t \in ChatJobs |-> [pc |-> "new", mode |-> "auto", eng |-> CHOOSE e \in ChatEngines : TRUE,
                                   sess |-> CHOOSE s \in ChatSessions : TRUE, obj |-> t, dbok |-> FALSE,
                                   parts |-> 0, worked |-> FALSE, said |-> "nothing"]]
    /\ held = [t \in ChatJobs |-> <<>>] /\ l1 = [e \in ChatEngines |-> <<>>]
    /\ chatRows = {} /\ chatDb = [s \in ChatSessions |-> <<>>] /\ dbFailed = {}

----------------------------------------------------------------------------
Places(cache, s) == {i \in 1..Len(cache) : cache[i].s = s}
PlaceIn(cache, s) == CHOOSE i \in Places(cache, s) : TRUE
Without(cache, s) == IF Places(cache, s) = {} THEN cache ELSE RemoveAt(cache, PlaceIn(cache, s))
\* updated_at = now, for a session that is in the cache.
Touched(cache, s) == IF Places(cache, s) = {} THEN cache ELSE Append(Without(cache, s), cache[PlaceIn(cache, s)])

\* _evict_l1_sessions: the least recently updated ones.
Evicted(cache) == SubSeq(cache, 1 + IF Len(cache) > CacheSize THEN Len(cache) - CacheSize ELSE 0, Len(cache))

\* A statement of a task fails.
Fails(t) == Cardinality(dbFailed) < DbFailures /\ dbFailed' = dbFailed \union {t}

\* submit_task: the cached session, or the way to load it.
SubmitChat(t) ==
    /\ chat[t].pc = "new"
    /\ \E e \in ChatEngines, s \in ChatSessions, m \in {"auto", "direct"} :
        LET at == Places(l1[e], s) IN
        /\ chat' = [chat EXCEPT ![t].eng = e, ![t].sess = s, ![t].mode = m,
                        ![t].pc = IF at = {} THEN "load" ELSE "ensure",
                        ![t].obj = IF at = {} THEN t ELSE l1[e][PlaceIn(l1[e], s)].obj]
        /\ l1' = [l1 EXCEPT ![e] = Touched(@, s)]
    /\ UNCHANGED <<held, chatRows, chatDb, dbFailed>>

\* The row is read; the session, restored without messages or new, goes into the
\* cache with the time of its row or none at all, and then the cache is trimmed.
LoadSession(t) ==
    LET e == chat[t].eng
        s == chat[t].sess
        rest == Without(l1[e], s)
        new == [s |-> s, obj |-> t] IN
    /\ chat[t].pc = "load"
    /\ \E p \in (IF s \in chatRows THEN 0..Len(rest) ELSE {0}) :
        l1' = [l1 EXCEPT ![e] = Touched(Evicted(SubSeq(rest, 1, p) \o <<new>> \o SubSeq(rest, p + 1, Len(rest))), s)]
    /\ chat' = [chat EXCEPT ![t].pc = "ensure"]
    /\ UNCHANGED <<held, chatRows, chatDb, dbFailed>>

Heard(t, role) == held' = [held EXCEPT ![chat[t].obj] = Append(@, <<t, role>>)]
\* _db_ensure_session, then the user's message in memory.
EnsureRow(t) ==
    /\ chat[t].pc = "ensure" /\ Heard(t, "user")
    /\ \/ /\ chatRows' = chatRows \union {chat[t].sess}
          /\ chat' = [chat EXCEPT ![t].pc = "user", ![t].dbok = TRUE] /\ UNCHANGED dbFailed
       \/ Fails(t) /\ chat' = [chat EXCEPT ![t].pc = "run"] /\ UNCHANGED chatRows
    /\ UNCHANGED <<l1, chatDb>>

\* Mutant: the user's message is not stored.
Stores_RepliesOnly(t, role) ==
    chatDb' = IF role = "user" THEN chatDb ELSE [chatDb EXCEPT ![chat[t].sess] = Append(@, <<t, role>>)]
\* _db_append_message
Stores(t, role) == chatDb' = [chatDb EXCEPT ![chat[t].sess] = Append(@, <<t, role>>)]
StoreUser(t) ==
    /\ chat[t].pc = "user" /\ chat' = [chat EXCEPT ![t].pc = "run"]
    /\ \/ Stores(t, "user") /\ UNCHANGED dbFailed
       \/ Fails(t) /\ UNCHANGED chatDb
    /\ UNCHANGED <<held, l1, chatRows>>

\* The one part a direct task is, or a subtask of the router's plan: the next one runs
\* whatever this one did.
RunPart(t) ==
    /\ chat[t].pc = "run" /\ chat[t].parts < (IF chat[t].mode = "auto" THEN ChainLength ELSE 1)
    /\ \E ok \in BOOLEAN : chat' = [chat EXCEPT ![t].parts = @ + 1, ![t].worked = @ \/ ok]
    /\ UNCHANGED <<held, l1, chatRows, chatDb, dbFailed>>

\* What submit_task makes of the result: the router's is complete when its subtasks
\* are over, whatever became of them; a plan that matched nothing is complete too, unless
\* planning raised; an agent or a workflow that fails raises.
Verdicts(t) ==
    CASE chat[t].mode = "direct" -> {IF chat[t].worked THEN "success" ELSE "failure"}
      [] chat[t].mode = "auto" /\ chat[t].parts > 0 -> {"success"}
      [] OTHER -> {"success", "failure"}
Finish(t) ==
    /\ chat[t].pc = "run" /\ (chat[t].mode = "auto" \/ chat[t].parts = 1) /\ Heard(t, "assistant")
    /\ \E v \in Verdicts(t) :
        chat' = [chat EXCEPT ![t].said = v, ![t].pc = IF chat[t].dbok THEN "reply" ELSE "done"]
    /\ UNCHANGED <<l1, chatRows, chatDb, dbFailed>>

StoreReply(t) ==
    /\ chat[t].pc = "reply" /\ chat' = [chat EXCEPT ![t].pc = "done"]
    /\ \/ Stores(t, "assistant") /\ UNCHANGED dbFailed
       \/ Fails(t) /\ UNCHANGED chatDb
    /\ UNCHANGED <<held, l1, chatRows>>

RowsOf(s) == chatDb[s]
\* get_session_messages: the oldest rows, which also replace what the cached object holds.
ReadMessages(e, s) ==
    LET at == Places(l1[e], s)
        all == RowsOf(s)
        rows == SubSeq(all, 1, IF Len(all) < ReadLimit THEN Len(all) ELSE ReadLimit) IN
    /\ s \in chatRows /\ at # {}
    /\ held' = [held EXCEPT ![l1[e][PlaceIn(l1[e], s)].obj] = rows]
    /\ UNCHANGED <<chat, l1, chatRows, chatDb, dbFailed>>

ChatStep(t) == LoadSession(t) \/ EnsureRow(t) \/ StoreUser(t) \/ RunPart(t) \/ Finish(t) \/ StoreReply(t)
ChNext ==
    \/ \E t \in ChatJobs : SubmitChat(t) \/ ChatStep(t)
    \/ \E e \in ChatEngines, s \in ChatSessions : ReadMessages(e, s)

----------------------------------------------------------------------------
Before(s, m, n) == \E i, j \in 1..Len(chatDb[s]) : i < j /\ chatDb[s][i] = m /\ chatDb[s][j] = n
\* The table has, of every finished task whose statements succeeded, the question
\* before the answer, once each and in the task's own session only, however tasks,
\* reads, caches and engines interleave.
ConversationsStored == \A t \in ChatJobs :
    /\ \A s \in ChatSessions, r \in {"user", "assistant"} :
        Cardinality({i \in 1..Len(chatDb[s]) : chatDb[s][i] = <<t, r>>}) <= (IF s = chat[t].sess THEN 1 ELSE 0)
    /\ (chat[t].pc = "done" /\ t \notin dbFailed) =>
        Before(chat[t].sess, <<t, "user">>, <<t, "assistant">>)

\* When no task is under way and no statement failed, no cache holds a message the
\* table lacks: what memory would serve without the database is part of the history.
CachesHoldHistory ==
    (dbFailed = {} /\ \A t \in ChatJobs : chat[t].pc \in {"new", "done"}) =>
        \A e \in ChatEngines : \A i \in 1..Len(l1[e]) :
            Range(held[l1[e][i].obj]) \subseteq Range(chatDb[l1[e][i].s])

\* A task that an agent or a workflow failed at is reported as a failure; in automatic
\* mode only planning that raised is, never a plan all of whose subtasks failed.
FailuresAreLoud == \A t \in ChatJobs :
    /\ (chat[t].said = "success" /\ chat[t].mode = "direct") => chat[t].worked
    /\ chat[t].said = "failure" => ~chat[t].worked
=============================================================================
