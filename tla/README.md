# A verification project for minicc

minicc is an AI-agent platform: a Go gateway (`cmd/minicc`, `internal/`) that
authenticates users, bills them, and forwards conversations to a Python engine
(`python-engine/app`) that runs agents, workflows and knowledge-base builds
against LLM providers; a Chrome extension and a Vue front end talk to the
gateway. This directory holds TLA+ models of the parts whose correctness
depends on interleavings, failures and limits, the TLC configurations that
check them on small instances, and TLAPS proofs for every value of the
constants.

Paths below are relative to the repository's root; `api/` stands for
`internal/api/` and `app/` for `python-engine/app/`.

## Inventory

| component | state | operations | hard behaviour | what makes it correct | module |
|---|---|---|---|---|---|
| **Billing and top-up orders** (`internal/billing`, `api/billing_handler.go`) | `users.credits`, `payments`, `credit_transactions`; per process a balance cache and an event channel | create, notify, poll, capture, confirm an order; deduct, recharge; cache and audit trail | duplicated and late notifications on several replicas, a crash between two statements, a full channel, a stale cache | an order is booked at most once, whole, for its own user; no overdraft; the trail reconciles | `Billing`, `TopUpAccounts` |
| **Conversation submit and cancel** (`api/gateway_router.go`, `api/submit_handler.go`, `api/handlers.go`) | `sessionCancels`, `agentSem`, contexts, messages, free quota | submit, run, stream, store, bill, cancel | cancel racing a new submit, contexts that end at different times, panics, check-then-act | permits are not leaked, a run is cancelled by its own user only, every run ends | `SubmitGate` |
| **Task queue** (`app/queue`) | Redis stream, pending entries, dead-letter stream, a worker's batch and coroutines | enqueue, read, process, acknowledge, retry, dead-letter, stop | crash, shutdown, time-out, failing acknowledgement, trimming | a task is not lost silently, runs boundedly often, settles | `TaskQueue` |
| **Knowledge bases** (`app/api/knowledge.py`, `app/queue/worker.py`) | `knowledge_bases`, documents, credits, `rag_index` tasks | upload, delete, claim a build, enqueue, build, charge | two builds of one base, retry of a charged build, a base left `building` | exclusive claim, one charge per build, no overdraft | `KnowledgeBuild` |
| **Document index** (`app/rag`, `app/knowledge/enhanced_kb.py`) | vectors in Milvus or pgvector, the document's status | build, rebuild, embed a batch, index, remove | delete and insert in two calls, threads that outlive a cancellation | a rebuild replaces, `completed` is found | `DocIndex` |
| **LLM gateway** (`app/gateway/router.py`, `circuit_breaker.py`, `budget.py`) | breakers, a monthly counter | select, check the budget, call, record, store, deduct | outcomes that arrive late, abandoned streams, check-then-act | a failing provider is shed and comes back, the overshoot is bounded | `LlmGateway` |
| **Coalescer, key pool, rate limiter, semantic cache** (`app/gateway`) | futures, keys with breakers, Redis windows, three cache levels | coalesce, draw and report a key, allow, look up and store | cancellation of a shared call, all keys cooling down, count and add in two commands | every waiter is answered, a getter is served, a bounded overshoot, an answer to the question asked | `Coalescer`, `KeyPool`, `RateWindow`, `SemanticCache` |
| **Agent runtime and session cache** (`app/agent/runtime.py`, `message_codec.py`, `guards.py`, `app/session_store.py`, `app/main.py`) | a run's messages, approvals, the active runtimes, a bounded cache | submit, turn, call tools, approve, prune, convert, save | disconnects at every await, two runs of a session, decisions that come late | requests are well formed, messages are kept, runs end | `MessageHistory`, `AgentRun` |
| **Agent engine and loop** (`app/agent/engine.py`, `loop.py`) | session rows, futures, event streams | run, batch of tools, approval, save | load all and write back, consumers that leave | a row is one run's view, the end is told once | `AgentEngine` |
| **Workflow engine** (`app/workflow`, `app/api/workflows.py`) | instances in a bounded table and in rows, edit sessions | submit, poll, run nodes, edit | restarts, eviction during the run | nobody is told an outcome that was not | `TaskGraphs`, `WorkflowRuns` |
| **Task router, chat executor** (`app/core/task_router.py`, `capabilities.py`, `app/api/unified_executor.py`) | plans, the registry, sessions in caches and tables | plan, match, execute; read, write through | a registry that changes meanwhile, statements that fail, eviction | visible capabilities only, the table has the conversation | `TaskPlans`, `ChatTasks` |
| **Context bus** (`app/core/context_bus.py`) | callbacks, a stream, snapshots, channels | publish, subscribe, leave, query | a list that changes while it is walked, two commands per publish | who stays subscribed hears | `ContextBus` |
| **Multi-agent collaboration** (`app/agent/collaboration.py`, `multi_agent.py`) | quotas, waves, signals; tasks and results | plan, run waves, aggregate; dispatch, wait, cancel all | subtasks that raise, `cancel_all` during a dispatch | the quota is exact, waves are in order, answers are one's own | `TaskGraphs`, `AgentHub`, `AgentDispatcher` |
| **Memory** (`app/memory`) | profile rows and their cache, conflicts, summaries with vectors and cached answers | remember, forget, decide; consolidate, recall, delete | readers that put back what they read, decisions that race, tasks delivered twice | what the user confirmed stays, what is deleted is gone | `MemoryCard`, `MemorySummaries` |
| **Context manager** (`app/context/manager.py`) | a conversation, submissions | compress, summarise, trim | a summary that does not fit | the newest stays, the middle is somewhere | `ContextWindow` |
| **Skills** (`app/skill`, `app/api/skills.py`, `app/tools/skill.py`) | files in layers, a registry, clients, child processes | save, toggle, delete, install, migrate; register, execute | migration at every request, re-registration during a call | what was saved is kept, a call goes where it was named | `SkillStore`, `SkillManager` |
| **Tools' services** (`app/tools/terminal.py`, `jobs.py`, `app/mcp`, `app/plugins`) | shells, jobs, connections, tool owners | execute, call, reconcile | time-outs on shared shells and pipes, files edited while they are loaded | no shell is orphaned without a race, references are exact | `Shells`, `McpLink`, `PluginPool` |
| Session store and cache (`internal/session/manager.go`, `api/conversation.go`) | rows, Redis copies | get, create, update, delete | re-warming a copy while it is evicted | the cache does not outlive the row | |
| Broadcast hub, SSE, WebSocket; browser automation (`internal/broadcast`, `api/events.go`, `api/ws.go`, `api/rpa_ws.go`, `chrome-extension`) | subscribers with bounded channels, commands in flight | subscribe, publish, close; command, reply | a slow reader, reconnects | no blocked publisher, a reply reaches its command | |
| Cron scheduler, gateway rate limiters, audit sink, ids, quotas (`api/cron_scheduler.go`, `api/*ratelimit*.go`, `internal/db`, `internal/id`, `api/ent_*.go`) | due tasks, buckets, a bounded channel, a sequence, counters | tick, allow, write, next id, consume | several replicas, a clock that goes back | a due task runs once, ids are unique, a quota holds | |
| Authentication, media, market, administration, middleware, providers, front end, CLI, migrations | tables and files | CRUD, I/O, cryptography | little that a model reaches | see `PROJECT.json` for each one's reason | |

How the parts interact: the gateway's submit handler calls the engine over SSE,
stores messages through the session manager and charges through billing; the
engine's API enqueues `rag_index` tasks that a queue worker executes, and both
deduct from the same `users.credits` as the gateway; every LLM call of the
engine goes through the gateway router. The agent runtime keeps its messages in
the session cache and calls tools, which own shells and MCP connections; the
unified executor reaches the same tools through workflows, the agent loop and
the task router; memory tasks go through the queue. `KnowledgeBuild` takes its delivery
assumptions from what `TaskQueue` establishes (`TasksSettle`, and losses only
with a cause), and its `Spend` action is `Billing`'s guarded deduction.

## Modules

| MC module | instantiates | runs |
|---|---|---|
| `MCBilling` | `Billing`, which refines `TopUpAccounts`; proofs in `BillingProofs` | `billing_orders`, `billing_settles` |
| `MCSubmitGate` | `SubmitGate`; proofs in `SubmitProofs` | `submit_shared`, `submit_ends` |
| `MCTaskQueue` | `TaskQueue`; proofs in `QueueProofs` | `queue_delivery` |
| `MCGatewayParts` | `LlmGateway`, `Coalescer`, `KeyPool`; proofs in `GatewayProofs` | `gateway_parts` |
| `MCToolServices` | `Shells`, `McpLink`, `PluginPool`; proofs in `ServicesProofs` | `tool_services` |
| `MCAgents` | `AgentRun`, which extends `MessageHistory`; proofs in `ServicesProofs` | `agents`, `agent_exits_save` |
| `MCOrchestration` | `TaskGraphs`, `TaskPlans`, `ChatTasks`, `ContextBus`, `AgentEngine`; proofs in `OrchestrationProofs` | `orchestration` |
| `MCAgentTeams` | `WorkflowRuns`, `AgentHub`, `AgentDispatcher`; proofs in `ServicesProofs` | `agent_teams` |
| `MCStores` | `KnowledgeBuild`, `MemoryCard`, `MemorySummaries`, `SkillStore`, `SkillManager`, `RateWindow`, `SemanticCache`, `DocIndex`, `ContextWindow`; proofs in `StoresProofs` | `stores` |

An MC module with several components puts components side by side that share no
state: its variable `part` (`team` in `MCAgentTeams`, `agentPart` in `MCAgents`) is chosen initially, and a behaviour is one of that
component alone, from that component's own `Init`, `Next` and fairness. One run
so asks its questions of each of them; nothing is composed by it. Compositions
proper are inside the modules: `AgentRun` extends the operators of
`MessageHistory`, `KnowledgeBuild` has the request, the worker and the credits,
`PluginPool` the pool, the files and the registry of tools, `MemorySummaries`
the session's book-keeping, the queue's tasks and the store.

A definition whose name ends in a suffix such as `MarkPaymentPaid_Unguarded`
and whose comment begins "Mutant" is a wrong variant of the definition below
it: it takes part in no specification, and stands for a plausible bug that the
property named in `PROJECT.json` must detect.

### Billing

One SQL statement is one step. A handler `h` is a goroutine that serves one
request on the replica `Home[h]`, and `job[h]` is what it still has to do: the
`pc` field names the next statement. `credits`, `order` and `ledger` are the
tables (the ledger as the sum per user, which is all a reconciliation reads);
`cache` and `eventCh` are the `balances` map and the event channel of a
replica; `provider` is the order at Alipay, WeChat or PayPal, which is external
and modelled from the calls the code makes. `credited` and `lossy` are history.

`CreatePayment`, `Precreate`, `MarkPaymentFailed` and `UpdatePaymentProvider`
are the create handlers; `AlipayCallback`, `WechatCallback`, `GetOrder` and
`PayPalCapture`/`PayPalLookup` the four ways to reach `MarkPaymentPaid`, after
which `AtomicAddBalance`, `SetBalanceCache` and `Publish` are `AddCredits`.
`Deduct` enters the same chain after its conditional update. `Crash` drops a
replica's goroutines, cache and channel; `StatementFails` ends a handler as its
error path does.

### SubmitGate

One gateway process. A run `r` is one submit, `pc[r]` its next statement,
`ctx[r]` what cut its context (the handler's return, the time-out of 180 s, a
cancel) and `store[r]` whether the 10 s of its storage context are over.
`entry` is `sessionCancels`, `permits` the number of tokens in `agentSem`.
`free` counts the rows of the daily quota on the primary and `seen` those that the
read replica shows; a count reads `seen`, a mark writes `free`, and `Replicates`
lets the replica follow at any time. The balance of the pre-check is cached in the
process, so that `PreCheck` may read any that the user had (`Balances`).
`PreCheck`, `Claim` and `Permit` are the route; `Register` to `DeductTokens`
are `HandleSubmit`; `Unregister`, `DeleteAgain` and `Release` the deferred
calls, in their order; `Panics` jumps to them. `CancelLoad`, `CancelDelete` and
`CancelCut` are the three steps of `handleCancel`.

### TaskQueue

`backlog` holds the entries of the stream that no consumer was given; an entry
given to a worker is in `fetched` (its batch) or in `msg` (a slot, one permit
of the worker's semaphore with its coroutine). The consumer name is drawn per
process and nothing claims the pending entries of a process that is gone, so
the model records such an entry in `lost`, with its cause. `XAdd` trims
approximately, as Redis does with `approximate=True`. `AfterFailure`, `Requeue`,
`Bury` and `Ack` are the branches of `_process_message`; `Stop`,
`StopTimesOut`, `Shutdown`, `Exit` and `Restart` the life of a process;
`RetryRead`, `RetryXadd`, `RetryXdel` and `Clear` the dead-letter operators.

### KnowledgeBuild

A request `q` is a coroutine of the API, a build `t` a `rag_index` task.
Documents are counted, not named: `docs` is the number of rows and `count` the
column `document_count`, which uploads increment and deletions recompute. The
build goes `BuildKnowledgeBase` (price from `count`), `CheckCredits`,
`ClaimBuild` (the conditional update), then `EnqueueRagBuild` or `BuildWiki`;
`StartIndex`, `BuildDocuments` and `FinishIndex` are `_handle_rag_index`, whose
last transaction charges and activates. `Raise` is the queue's retry or burial,
`QueueTaskEnds` what is left of a task that will not run again.
The kind of a base is chosen in `Init` and kept.

### LlmGateway

A call is a coroutine and each `await` a step boundary. `Allows`, `Asked`,
`RecordSuccess` and `RecordFailure` are the breaker; `SelectHinted` and
`Select` are `_select`, which turns half-open every breaker it asks and whose
time has passed, the ones it does not choose too. `BudgetCheck` and `Deduct`
bracket the request. The counter of failures saturates at the threshold (the
code only compares it), and the clock is the flag `cool`.

### Coalescer, KeyPool, RateWindow, SemanticCache

`Coalescer`: a future is named by the request that created it; `pending` is
`_pending`. Acquiring a lock that nobody holds or waits for does not yield, so
the two checks of `coalesce` are one step (`Arrives`) unless somebody queues
(`Granted`); at the limit the call is made with the lock held (`AtLimit`,
`HeldCallEnds`). `Cancelled` reaches a caller at any await, the clean-up
included. `KeyPool`: the list of keys, a key twice if it was added twice; each
entry's breaker has a state, a saturating counter and a flag for its clock.
`GetKey`, `WaitEnds`, the two reports and the operator's commands are one step
each, being without an await or under the lock. `RateWindow`: a request reads the
clock once (`RequestArrives`), then counts (`CountWindow`) and adds
(`AddToWindow`) in each window; clock and other requests move in between.
`SemanticCache`: each Redis command and each embedding of `lookup` and `store`
is a step of a chat; a prompt's class stands for its quantised embedding.

### Shells, McpLink, PluginPool

`Shells`: `procs` is the table of shells, a shell is named by the command that
started it; `StartShell` and `ShellStarted` have the await of the spawn between
them, where the race for a session's entry is. `McpLink`: the pipe in both
directions, the lock, time-outs and cancelled callers; ids are there and not
compared, as in the code. `PluginPool`: a reconciler walks the active users under
the pool's lock (`GetsLock`, `SyncUser`, `ConnectServer`, `ReadServers`,
`UserLoaded`), then releases idle users and unused connections; files, activity
and failures change at any step.

### MessageHistory, AgentRun

`MessageHistory` has the pure functions of the runtime, over histories built
message by message: `EnsureValid`, `Prune`, `PreCallClean`, `FromAnthropic`,
`FromGemini`, each a loop over the messages whose step is an operator of its own
(`Repaired`, `Cleaned`, `AnthropicStep`, ... under `Through`); a history is *well formed* when every call is followed by exactly
its results. `AgentRun` uses them: `Submit`, `Loaded` and `SetUp` begin a run,
`CallsModel`, `GuardedExecute`, `WaitOver` and `UserDecides` are its turns,
`Save`, `Closes` and `Disconnects` its ways out. `cached` is the bounded session
store and `activeRun` is `_ACTIVE_RUNTIMES`.

### AgentEngine

`AgentEngine`: runs of one session, each with its own copy of the messages,
written back as a whole; approvals and concurrent tools are a set of open calls, and
a call's outcome is an answer or something that `json.dumps` cannot write (`raises`:
a `CancelledError` among the results of `gather`, or a result of a tool). `GiveResult`
then ends the run behind the calls that `RecordCalls` has appended, and the `finally`
saves them (`Leaves`, `SaveSession`).
Beside them is the loop's stream (`chunks`, `AlNext`): the events that `run_agent`
makes of every short stream of chunks, ended or raised anywhere.

### TaskGraphs, WorkflowRuns, TaskPlans, ChatTasks

`TaskGraphs` has the two sorts over all graphs of three nodes and three edges,
dangling ones and cycles included, against a definition of *runnable* that does
not follow the algorithms. The loops of the sort are its recursive functions: over the
list (`ListOf`), over the edges of the node taken (`Taken`, `Lowered`) and the queue's
rounds (`KahnOrder`), as many as there are nodes, after which the queue is empty. `WorkflowRuns`: an instance's background task, the
table of `MaxInstances` with its eviction, the row, the poll, restarts, and runs of
more than a day, whose end meets a function that does not exist (`late`); and the
traced engine with edit sessions. `TaskPlans`: plan, match, execute, each with
the registry as it is then. `ChatTasks`: the chat handler's statements one by
one, with session objects that the cache may drop while a task holds them.

### ContextBus, AgentHub, AgentDispatcher

`ContextBus`: in memory a publish walks the *live* list by index and awaits each
callback (`CallNext`); over Redis it is `XAdd`, `SetSnapshot`, `Announce` and
`CallLocal`. `AgentHub`: a task with its place in the quota, waves, semaphore
and end signals; a subtask may raise before or while it runs (`RaiseSubtask`).
`AgentDispatcher`: `_active` and the bounded results under dispatches, waits whose
caller may leave (`CallerLeaves` cancels the sub-agent with it), and `cancel_all`,
whose clearing comes after its await.

### MemoryCard, MemorySummaries, ContextWindow

`MemoryCard`: every await of a call on the card is a step: read or detect,
store, list, write, invalidate, fill; so is every await of an eviction. A conflict is of
a second, an item and an owner, and its id is the second and a hash (`CardHash`, any
function) under a key that all users share (`Key`): a record goes over another one of the
same id (`PutRecord`), and another user's call may do that to this user's conflict
(`OthersConflict`).
`MemorySummaries`: the session's counter, the queue's tasks, consolidation and
the store's table, vectors and cached answers. `ContextWindow`: a compression
from its threshold through the retried summary to trimming and to the
background submission.

### SkillStore, SkillManager, DocIndex

`SkillStore`: directories in the order of the search path, with the migration
that every request repeats. A name that is itself a path leads a save into any
directory of the tenant (`Strange` in `SaveSkill`). `SkillManager`: executions that wait for a server,
a child or a script. `DocIndex`: the vectors of one document in three indexes
under builds that delete and insert, fail, are cancelled, or run at once; what a
cancelled build has handed to a thread, a deletion or an insertion, still lands
(`lateclear`, `late`).

### TopUpAccounts

The abstract specification of billing: an order goes from `pending` to `failed`
or `due`, and from `due` to `booked` or `lost`; booking moves its size, once, to
its user's balance; other changes keep the balance non-negative. `Billing`'s
refinement mapping (`Accounts`) takes an order's stage from its row, from
whether its credits were added, and from whether a handler that has marked it
is still alive (`Stage`). `ImplementsAccounts` is `AccountSpec` under that
mapping: every statement, crash and retry of the implementation is one of the
five abstract steps or a stutter. It says what `CreditedOnce` cannot: the amount
booked is the order's own whichever way the confirmation came, and the only way
a paid order is not booked is a crash or error between two statements.

## What the runs check

Properties of several components that are checked by one run are named
conjunctions of the properties the components state; the table names the
conjuncts, and each conjunct has its own comment in its module.

| run | instance | properties | shows |
|---|---|---|---|
| `billing_orders` | 1 user, 1 order, 3 handlers on 2 replicas, Alipay and PayPal, channel of 1, 2 balance changes, 1 fault; 1.3 M states | `TypeOK`, `CreditedOnce`, `FailedOrderNeverCharged`, `PaidMeansSettled`, `NoOverdraft`, `LedgerReconciles`, `ImplementsAccounts` | racing confirmations, a crash or failed statement at any point: no double credit, no overdraft, nothing missing from the trail but what a full channel or a fault explains; billing implements its abstract accounts |
| `billing_settles` | 2 handlers, Alipay and WeChat, an amount that parses exactly and one that does not (3 and 29 cents), 2 faults, fair; 0.14 M states | `SettledIsNoticed`, `TrailCompletes` | repeated notifications alone get a settled order marked paid, at Alipay if its amount parses exactly; the dispatcher drains |
| `submit_shared` | 2 users, 1 session id, 1 cancel, 1 permit, 1 fault or panic; 0.28 M states | `TypeOK`, `PermitsMatch`, `CancelledByOwner`, `CutRunsKeepTheirReply` | the semaphore, its refusals included, and the cancel path under every interleaving |
| `submit_ends` | 1 user, 2 runs of 1 session, 2 permits, 1 cancel, 1 fault or panic, a replica that may lag by the use before, fair; 0.33 M states | `FreeOvershootBounded`, `RunsEnd`, `SessionIsReleased` | every admitted run ends and frees its session, also when a cancel has let a second run onto the entry and one of the two panics; the free quota is exceeded by the runs in between and the replica's lag only |
| `queue_delivery` | 2 tasks, 2 workers with 1 slot each, 1 operator, 1 retry, caps 2 and 1, 2 faults, fair; 0.6 M states | `RunsAreBounded` (types, `RunsBounded`, `NeverConcurrent`), `LossNeedsACause`, `TasksSettle` | at-least-once delivery up to named causes of loss, bounded retries, and no task held up for ever |
| `gateway_parts` | 2 providers, 2 models, 2 calls, threshold 2, 3 faults; 4 coalesced requests, 2 keys, 1 future, 2 cancellations; 2 API keys, 2 callers, 2 edits, 3 failures; fair; 0.13 M states | `OpenSheds`, `BudgetOvershootBounded`, `SharingIsSound` (types, `EntriesHaveARunner`, `WaitersHaveACall`, `OpenIsVisible`), `CallersAreServed` (`ProvidersComeBack`, `CoalescedRequestsEnd`, `GettersServed`) | a failing provider is shed and comes back, the overshoot is bounded, whoever joins a call or waits for a key is served |
| `tool_services` | 3 commands in 2 sessions, 1 of them in the background, 1 exit; 3 calls on an MCP connection, 2 time-outs; 2 users, 3 servers, 2 reconcilers, 1 edit, 1 failure; fair; 0.22 M states | `ServicesAreSound` (types, `OrphansNeedARace`, `AnswersMatchUntilTimeout`, `HandlersAreLive`, `ReferencesMatch`, `OwnersMatch`), `ServicesSettle` (`JobsAreForgotten`, `ConfigsAreLoaded`) | what can be lost or mixed up on shared shells, pipes and connections, and only how |
| `agents` | all histories of 5 messages with 2 ids, limit 4; 2 runs in 2 sessions, 2 turns, a cache of 1, 1 disconnect; fair; 0.4 M states | `HistoriesAreSound` (types, `RepairIsSound`, `PruneKeepsPairs`, `ConversionsKeepPairs`, `RequestsWellFormed`), `UsersAreHeard` (`MessagesKept`, `DecisionsReachLoneRuns`), `RunsEnd` | requests are well formed whatever was cut off before; messages and decisions arrive; runs end |
| `agent_exits_save` | as `agents`, runs only | `ExitsSave`: **violated** | a run whose set-up raises ends without saving the user's message |
| `orchestration` | all graphs of 3 nodes and 3 edges; 2 chat tasks in 2 sessions on 2 engines, a cache of 1, 1 failing statement; 2 messages of 2 tenants, 2 callbacks, a log of 1; 2 engine runs of 2 turns with up to 2 calls; all streams of 2 chunks with up to 2 calls each; 2 subtasks, 2 capabilities, 3 changes of the registry; 1.6 M states | `BusDelivers` (types, `SteadyHear`, `QueryIsRecent`, `SnapshotIsRecent`, `HeardAsAsked`), `ConversationsKept` (types, `ConversationsStored`, `CachesHoldHistory`, `FailuresAreLoud`), `GraphsAreOrdered` (`SortIsTopological`, `WavesAreLayers`), `RunsAreSound` (types, `ServedByVisible`, `ChainIsWhole`, `RowIsPaired`, `RowIsOneView`, `DecisionsAreAwaited`, `EndsOnce`) | orders of graphs and plans, delivery of the bus, and what is left in sessions |
| `agent_teams` | 2 instances, a table of 1, graphs of 2 nodes, 1 restart, 2 tenants with 2 edit sessions; 2 collaborations, quota 1, 2 waves of 2; 2 sub-agents of 1 turn, 1 result kept; fair; 0.34 M states | `TeamsAreSound` (types, `OutcomesAreTrue`, `EditsStayInTheirRun`, `QuotaIsExact`, `WavesInOrder`, `AnswersAreOwn`, `RunningIsActive`), `TeamsSettle` (`InstancesSettle`, `HubJobsEnd`, `WaitersReturn`) | background work and what its clients are told |
| `stores` | 2 calls at a time on each store: a base with 1 document, 2 build tasks, 1 retry, 1 fault or lost reply; a card of 3 items over a limit of 0, 2 operations, 1 second, all conflicts of a second with one id; 2 turns and 3 operations on summaries; 2 users with 2 skills in 4 directories and 3 operations; 4 executions; windows of 1 and 2 ticks; 4 prompts in 2 classes; texts of 4 with chunks of 3 and overlap 1; 7 messages in a window of 8; calls and users symmetric; 1.1 M states | `BuildsAreSafe` (types, `ClaimIsExclusive`, `ChargedOncePerBuild`, `NeverOverdrawn`, `BuildingHasABuilder`), `MemoryIsSound` (card, summaries, window), `SkillsAreSound` (files, manager), `IndexIsSound` (`RebuiltReplaces`, `CompletedIsFound`, `PassagesAreWhole`), `CachesAreSound` (`OvershootBounded`, `ServedForTheQuestion`, `L1WithinCapacity`), `NothingIsTakenBack` (`ConfirmedStays`, `ReportedWasThere`, `PgKeepsDocuments`) | each store's table, copies and indexes agree up to the openings its properties name |

A property that excuses a case names the opening the code leaves, as a history
variable or as a place in the code (`raced`, `crossed`, `cexcused`, `slid`,
`abandoned`, ...). The excuses are as narrow as the code allows, and the openings
are listed below where a comment or document says otherwise.

### Bounds

Every bound is a CONSTANT named in the module. They are chosen so that the
interesting case happens: three handlers, so that two confirmations race while
a third changes the same balance; a channel, cache or table of one place, so
that it is full; a cap of the retry stream below the cap of the producer, as in
the code; two tasks and one slot per worker, so that a task waits in a batch
behind another; one retry, so that a task is both retried and buried; a free
limit of one, so that two runs compete for it; a threshold of two, so that the
first failure does not open a breaker; four coalesced requests, so that two join
a call while one queues for the lock and another has the second key; three
commands and calls, so that one more follows a time-out and its late answer; two
waves of two under a quota of one; a chunk size below the text's length and an
overlap of one, so that the tail chunk of the simple cut appears. `MaxFaults` bounds crashes and
failing calls; one or two are enough to place a fault at every statement, and for
the pair in `queue_delivery` to combine a failing acknowledgement with a crash.
Deadlock is not checked because every system may come to rest: a finite set of
orders, runs or tasks ends, and users need not do anything. `stores` is the one
run with symmetry (the calls in flight, a base's tasks and the users with skills);
it checks no liveness.

### Fairness

Weak fairness stands for the Go and asyncio schedulers (a runnable goroutine or
coroutine runs), for clocks (`TimesOut`, `Cools`, `RecoveryTimePasses`, the
engine's approval time-out) and for the container runtime that replaces a process
(`Restart`). It is stated per component: `QueueFairness`, `CallsFairness`,
`CoFairness`, `KpFairness`, `ShFairness`, `PpFairness`, `ArFairness` (a run that
can step does), `WfFairness`, `HubFairness`, `DispatchFairness`, and the fair
specifications of `Billing` and `SubmitGate`. Strong fairness is assumed three
times: payment providers repeat a notification until it is accepted, so it is
delivered again although handlers are busy or crash (`SF` of `Notification`);
callers keep asking for every provider with calls the budget does not refuse
(`SF` of `Unbudgeted`), without which a breaker is never probed; and a reconciler
that waits for the pool's lock gets it (`SF` of `GetsLock`), since `asyncio.Lock`
serves its waiters in order. Clients of a workflow keep polling (`WF` of `Poll`).
Nothing is assumed of users, administrators, operators or faults, nor of the
engine's stream in `SubmitGate`: `RunsEnd` there rests on the time-out alone. In
`TaskQueue` a handler is assumed to end, which `wait_for` with its hour enforces.

## What is proved

The theorems hold for any number of users, orders, handlers, replicas, runs,
workers, coroutines, bases, sessions, calls, items and faults. They use the
named assumptions of the modules only: what the constant functions map, that
amounts and limits are natural numbers, that null values are outside their sets,
and what has to be finite to be counted (the handlers and replicas of `Billing`,
the runs of `SubmitGate`, the processes of `TaskQueue`, the coroutines of
`LlmGateway`, the builders of `DocIndex`, the calls of `MemoryCard` and
`MemorySummaries`, the tasks of `AgentHub`, the edit sessions of `WorkflowRuns`, the call ids of
`MessageHistory`). Each invariant below was checked by TLC on the runs' instances
before it was proved. Lemmas on sums, sequences and least numbers that several proofs cite are in
`DataLemmas`.

**Billing** (`BillingProofs`). `TypeCorrect`, `CreditsAtMostOnce`
(`CreditedOnce`), `BalancesStayNonNegative` (`NoOverdraft`),
`FailedOrdersAreUnpaid` (`FailedOrderNeverCharged`), `PaidOrdersAreSettled`
(`PaidMeansSettled`), `CreditsComeFromOrders` (what a handler is about to book), `LedgerStaysReconciled`
(`LedgerReconciles`) and `BillingImplementsAccounts`: `Billing` refines `TopUpAccounts`, initial state to
initial state and every step to a step or a stutter. None of the invariants is
inductive alone. An order's row says nothing of the goroutine that has marked it
paid and not yet booked it, so the invariant counts that goroutine as a licence:
at most one handler is at `credit` for an order, only while the order is paid
and not yet credited. For failed orders it needs that at most one handler is
creating an order and that the provider does not know the order until that
handler's last statement; for paid ones that every handler at `confirm` has seen
the provider's settlement, which is never taken back. The refinement uses the
licence too: it is what makes a booking a step of `TopUpAccounts`, and its loss
in a crash the step `Lose`. The audit trail is inductive beside that invariant; its
lemmas say how a signed sum changes when an event is appended, taken or dropped and
when one handler's task changes (`TotalChange`, `QueueAppend`, `QueueTail`).

**SubmitGate** (`SubmitProofs`). `TypeCorrect`, `PermitsAreCounted`
(`PermitsMatch`), `CancelsReachOwnRuns` (`CancelledByOwner`),
`FreeQuotaNearlyHolds` (`FreeOvershootBounded`) and `CutRepliesAreStored`
(`CutRunsKeepTheirReply`). The bound on the free quota needs the semaphore: what
is marked *and about to be marked* fits the bound (`QuotaReserved`), because a run
that decides to mark has seen on the replica a count below the limit, which was short
of the primary's by no more than `lag`, and is one of at most `MaxConcurrency` runs
that hold a permit. `CancelsAreChecked` carries the
comparison of users from the first step of `handleCancel` to the last;
`RepliesInv` says where text can appear and that it is stored on the way out.

**TaskQueue** (`QueueProofs`).
`TasksAreAccounted` (`LossNeedsACause`), `RunsStayBounded` (`RunsAreBounded`),
`EntriesStayWithinPuts` and `QueueKeepsItsShape`. A task that is nowhere is
excused by a cause only if entries are followed through the batch, the slots and
the dead-letter operators; the bound on runs comes from counting entries, each of
which carries its number of retries, against the puts that made them.

**Gateway of the engine** (`GatewayProofs`). `BreakersShed` (`OpenSheds`): the
calls counted against an open breaker are of coroutines that had asked before it
opened, so each contributes one. `OvershootIsBounded` (`BudgetOvershootBounded`):
what was spent and what is checked and not yet deducted fits the limit plus one
request per coroutine. `FuturesAreLookedAfter` of `Coalescer`,
`OpenKeysAreShown` of `KeyPool`, and over the three `GatewayKeepsSharing`
(`SharingIsSound`): an entry of `_pending` has a request that will take it out
unless that one was cancelled while it waited for the lock, and an entry's breaker
is open exactly when its key says so.

**KnowledgeBuild** (`StoresProofs`). `BuildsStaySafe` (`BuildsAreSafe`): the
claim is exclusive because each task and each request that may charge is counted
against one claim or one lost reply, and a base is `building` only while somebody
is under way who ends that or was lost.

**Stores** (`StoresProofs`). `SkillsStaySound` (`SkillsAreSound`): files of a layer
hold what was written last, or a torn or strange one, a migration fills empty layers
only, and an execution remembers what it redirected. `IndexStaysSound` (`IndexIsSound`): the
lemmas on quotients show for every length, size and overlap that the chunks of
both cuts cover a text and fit; the invariant says what a build that is alone
finds in its store (`Undisturbed`), and that a completed document has vectors unless
a deletion came last at Milvus (`Evidence`).
`NothingIsEverTakenBack` (`NothingIsTakenBack`), an action property of the three
parts: a writer at its write that read a confirmed row has a confirmed or a
derived value (`MayWrite`); a reported summary is read from the table in the
same step; no step empties the rows of pgvector. `CachesStaySound`
(`CachesAreSound`): what a rate window holds over a span, what is counted and not
yet added to it, and what may still count it are bounded together, because a
request that passed its count has seen less than the limit; entries of the
semantic cache suit the key they are held under, not only the request they were
made for, which is what a hit of L3 carries into L1.

**Memory** (`StoresProofs`). `MemoryStaysSound` (`MemoryIsSound`), from one
invariant for each of the three parts. Card (`CardInv`): each call has the item, id
and rows its next step needs (`CallsFit`); versions and counts of derived values stay
within the calls that have passed the detection (`CountsFit`, with `Spent`); a conflict
on its way to the list has its record, was decided meanwhile or shares its id with
another one that was raised (`ListedFits`); and
`clear_all` has still to delete whatever row is neither new nor missing from the stale
card it read (`ClearsAll`). Summaries (`SumInv`): no id is given twice, because ids
given and calls that may still insert are together within the operations
(`IdsInv`), and the call about to insert a vector is the only one for its row, which
has none (`VectorsInv`). Window (`WindowInv`): the conversation is at most a system
message, at most one summary behind it, and messages that are numbered without a
gap up to the newest (`Ordered`), which appending, `MadeOf` (system message, summary,
kept tail) and the trim keep; a compression still holds the conversation it read,
because the turn adds no message while one runs; and the tokens of a kept part are
no more than of the whole, which the proof takes from `Tokens` as the size of a set.

**Tools' services** (`ServicesProofs`). `ServicesStaySound` (`ServicesAreSound`).
Shells: who starts one for a session without a race is alone at it and finds no
entry to write over (`AloneUnlessRaced`), so that the entry it writes hides no
running shell. MCP: until a time-out one line is under way for the call that holds
the lock (`InStep`). Plugins: a user's tools are the names of the user's
connections (`ToolsAreConnected`); that a handler is live follows, because who owns
a tool refers to an open connection of that name.

**Agent engine and task router** (`OrchestrationProofs`). `RunsStaySound`
(`RunsAreSound`). Plans (`PlansInv`): an item that was matched while the registry
stood still is still matched, and what served it belongs to everyone or to the
task's tenant, since a lookup falls back to nothing else. Runs (`EnInv`): the row
is the copy of one run that is over (`RowIsCopy`), and a run's copy is the row it
began with followed by its own messages (`CopyIsView`), so that the row can only
be one run's view; a copy's calls are followed by their results unless the run was
cut, by its consumer or by a result that cannot be written, and they are its last, or it
is just giving them (`CopyIsPaired`, `BeingGiven`), and a pending approval is
the next call that awaits one (`WaitsAreNext`). `EndsOnce` holds for streams of every
length, by lemmas on how `FlattenSeq` joins the events of the chunks
(`Joins`).

**Chats** (`OrchestrationProofs`). `ConversationsStayKept` (`ConversationsKept`).
The invariant (`ChInv`) follows the session objects, which outlive their place in a
cache: an object belongs to a task and to one session (`ObjectsMatch`), and every line
it holds is in the table, or its statement failed, or its task is between the
object and the table (`HeldIsAccounted`). Rows are their own task's, once, and a task's
reply is there only behind its question (`RowsAreOwn`, `RowsThere`). What is said to a
client is true at the time it is said (`SaidTrue`), which is why a later failure of
a part is loud.

**Context bus** (`OrchestrationProofs`). `BusStaysDelivering` (`BusDelivers`), one
invariant for the bus in memory and one for the bus over Redis (`BusInv`). In
memory (`MemInv`): a publish stands at a place of a list that may become shorter under
it; a steady subscriber that has not heard was behind that place, or was slid over by
somebody leaving, and those are counted (`Missed` against `slid`). Over Redis
(`RedisInv`): a stream is its tenant's share of all that was sent (`StreamsShare`,
about the recursive function `Among`, which lemmas describe by a least
counterexample: `KeepsExists`, `AmongIs`); a snapshot lags only by publishes that
overlapped its own or have not written theirs (`SnapshotsFollow`); a message on a wire
is on a channel that was asked for and has not been heard there (`WiresAreNew`,
`HeardOnce`).

**Graphs** (`OrchestrationProofs`). `GraphsStayOrdered` (`GraphsAreOrdered`), for any
number of nodes and any list of edges. The invariant of the state is its type; what has
to be shown is what the sorts return, by induction on their loops (`Counts` of
`DataLemmas`). In the queue's rounds (`SortInv`, and `Between` two edges of one round) a
node's degree is the number of its edges that are still open, it is in the queue or
put out exactly when none is, and all its predecessors were put out before it. After as many
rounds as nodes the queue is empty (`KahnIs`), and then what was put out is what is
runnable: a rank along the order shows the one inclusion and closure the other
(`RunnableIs`). The waves (`WaveInv`) are disjoint and nonempty, each what the ones before
make ready, until nothing is; the rest is one wave.

**Teams** (`ServicesProofs`). `TeamsStaySound` (`TeamsAreSound`). Instances
(`InstanceInv`): a row with an outcome is of a task that ended with it, or that ran for
more than a day and has an error in its row. Traced runs
(`TracedInv`): an edit session is in the list once or applied once, to its own
tenant's run (`SessionsAreOne`). Hub (`HubInv`): the end signals of a wave, counted or
still waiting, are as many as its subtasks that ended, earlier waves have nothing
under way and later ones have not begun (`WavesFollow`), so a wave is left only
when it is over; the quota is the number of tasks that hold a place.
Dispatcher (`DispatchInv`): the bounded table is the newest part of all results in
the order they were stored (`TableIsNewest`), and each is ranked once.

**Agent runs** (`ServicesProofs`). `HistoriesStaySound` (`HistoriesAreSound`) and
`UsersStayHeard` (`UsersAreHeard`), over histories, limits and turns of any size,
from one invariant for the pure functions (`MhInv`: of which messages a history is
made, and that blocks alternate) and one for the runs (`ArInv`). The functions come
first. Each is a loop, so the lemmas `Loops` of `DataLemmas` describe it message by
message, and a claim about its result is a claim about every prefix of it.

- Repair: what has been put out is well formed and the held group is the start of one
  (`RepairedFits`), so the result is valid whatever was in the cache; over a history
  that was valid each held group is complete when it is flushed (`GroupComplete`), so
  nothing is dropped (`RepairKeeps`); and it never drops anything but results
  (`RepairSays`).
- Pruning: the search for the start settles after one step back (`StartIs`), where no
  result is without its call, and a part of a valid history that begins there is valid
  (`SuffixFits`, `PruneFits`).
- Conversions: what has been put out is well formed but for the calls of the last
  message, which the next block answers (`ConversionFits`); a repair then changes
  nothing.

The runs rest on them. A run in its tool calls has a history that becomes valid when the
calls it has still to do are answered (part of `ArFits`), and only a run that is cut off
there saves an invalid one, which the next `Loaded` repairs; so each request is of a
valid history. For the user's messages and decisions, invariants have to name what the
properties excuse: a session that is not in `shared` has one run under way (`Lone`),
which is the one `activeRun` finds (`Reached`); a decision that came too late was for a
shared session (`MissedLate`); and what an earlier run of such a session said is in the cache and in
the messages of a run that goes on from there (`SaidKnown`), which is why the save of a later run
does not lose it.

Some steps of the work changed the models. `Tokens` of `ContextWindow` was a fold,
whose value the prover cannot reach; it is the size of a set of pairs now, and
`NewestAreKept` speaks of positions; the sums of `LedgerReconciles` are the
differences of two such sizes (`Total`). Overlapping guards of a `CASE` in
`DocIndex` left its value open outside TLC, which takes the first; they are
conditionals now. `SelectSeq` has no definition the prover can use: entries leave
the caches of `ChatTasks` and the edit sessions of `WorkflowRuns` by their index
(`RemoveAt`), a plan is matched by the set of the indexes it keeps, and a tenant's
share of the bus is a recursive function; the loops of `MessageHistory` are the
recursive function in `Through`, and an entry leaves the session cache of `AgentRun` by
its index. The sort of `TaskGraphs` used it too, and a library sort of a set; it has the
code's loops now. One property was false: `PruneKeepsPairs` bounded what pruning keeps by
the limit and one group's calls and results. An id that is answered twice makes a
longer group, and with histories of seven messages, a limit of two and one id TLC
shows one above that bound. It says now what the code does: without the group it
begins with, the kept part fits the budget. And assumptions on constants that every instance satisfied and
none had stated are stated: the layers of `SkillStore` are not users
(`_safe_segment` refuses such a name), `Nobody` is not a user of `PluginPool`,
a graph has a node and a collaboration's request a tenant, there is a session for
agents to run in, and the counted sets are finite.

**Only model-checked.** All liveness (`SettledIsNoticed`, `TrailCompletes`,
`SessionIsReleased`, `TasksSettle`, `CallersAreServed`, `ServicesSettle`,
`TeamsSettle` and both `RunsEnd`): the prover does not do fairness, nor ENABLED.
Every invariant the passing runs check is stated by a theorem.

## Disagreements between the code and what is said of it

One is a run:

- `agent_exits_save`: `app/agent/runtime.py:820-821` says that every way out of a
  run saves the cache so that the user's message is not lost. `_cache_saved`,
  which the `finally` clause reads (line 823), is assigned at line 537 only: an
  exception during the set-up makes the clause itself raise `UnboundLocalError`,
  and nothing is saved.

The others were met while modelling. The models behave as the code does in each
case, and no run is devoted to them.

Billing and submit:

- `internal/billing/payments.go:21` describes `PayStatusPaid` as "支付成功且已入账", paid
  and booked; the row is marked before the credits are added, and a crash or
  failed statement in between is never repaired: every later confirmation finds
  the order no longer pending. `TopUpAccounts` has this as `Lose`.
- `api/gateway_router.go:515` says "Reject concurrent submits within the same
  session"; a cancel deletes the session's entry while the cancelled run goes on,
  and a run that ends deletes the entry twice without looking whose it is.
- `WechatCallback` treats `USERPAYING` as paid, so a WeChat order may be
  credited before it settles; `PaidMeansSettled` leaves that channel out.
- The Alipay callback truncates `int64(amt*100)`: 0.29 yuan become 28 cents, 2.01
  become 200 (`TruncatedCents`), the amounts do not match and every notification is
  refused: such an order stays pending unless somebody polls it, and
  `SettledIsNoticed` promises nothing for it.
- A PayPal order captured by a request that then crashes or fails is never
  credited: a second capture is refused.
- The balance cache of a replica is not told of changes made on others, nor of
  those made by the engine.
- `internal/billing/billing.go:178` says that deductions are single guarded
  statements and never exceed the balance; the engine's wiki build deducts from
  the same column without the guard.
- `api/submit_handler.go:79-81`: the storage context is meant to let a reply be
  stored after a cut, but it ends 10 s after the run *began*; the reply of a
  longer run is not stored.
- `api/submit_handler.go:70` gives a run 300 s, so that long tasks are not cut
  at 180 s; `api/gateway_router.go:516` has already bounded its context by 180 s
  and derived it from the request's, which `net/http` cancels when the handler
  has answered 202.
- `internal/billing/billing.go:39`: the daily free limit is counted on the read
  replica (`pgstore.go:149`) and marked on the primary in another statement, so it can
  be exceeded, by the proved bound: the runs in between and what the replica had not
  shown.

Queue, knowledge bases and the document index:

- `app/queue/worker.py:38` says that a message that failed can be taken over
  with XCLAIM after 30 s; no code does so, and the consumer name changes with
  every process.
- `app/queue/worker.py:40` says that a shutdown stops consuming and waits for
  what is in flight; the lifespan's cancellation is caught in `start()`, which
  returns without waiting, and the rest of the batch is dropped.
- `app/api/knowledge.py:462` rolls a claim back so that a base is not stuck in
  `building` (where line 278 refuses uploads) when Redis is unreachable; a base
  whose task is dead-lettered or lost, or whose request dies after the claim,
  is stuck all the same.
- `app/queue/worker.py:239` says that a deleted base is not charged for; one
  deleted during its build is.
- `app/api/knowledge.py:261` says that the counters are updated atomically with
  the upload; they are incremented by a second statement and recomputed by
  deletions, so a deletion between the two counts a document twice.
- An enqueue that reached Redis and whose reply was lost is rolled back to
  `draft` (`app/api/knowledge.py:464`); the base can be built again while the
  first task is executed too, and both charge. `ChargedOncePerBuild` allows one
  payment for each lost reply.
- Searches of the API and of the tools (`app/api/knowledge.py:557`,
  `app/tools/kb.py:118`) read the collection of `RAGRetriever`; the builds of the
  queue and of the stream write `kb_<id>` or pgvector, which nothing else reads.
- `app/rag/builder.py:487` and `556` say that a rebuild is idempotent; the path
  through the vector-store interface deletes nothing, the one to Milvus deletes
  and inserts in two calls, of which a cancelled build's may land late, and two builds
  at once leave both sets of rows; a document can stay `completed` without vectors.
- Chunks whose embedding failed are skipped and counted as built; the simple cut
  emits a tail chunk that is inside the last one, and would not end with an
  overlap of the chunk size.
- Re-indexing by the retriever inserts without deleting, and reports `indexed`
  when Milvus is not there; `delete_doc` leaves the vectors;
  `EnhancedKnowledgeBase.delete_document` deletes them and then awaits what is not
  awaitable, so it always fails; an `embed_batch` task (nothing enqueues one)
  replaces all vectors of a document by one batch's.

Gateway of the engine:

- `circuit_breaker.py:42` says that a half-open breaker allows one probe; it
  allows every call until one of them is recorded.
- `router.py:247` with `circuit_breaker.py:59`: a failing write to the semantic
  cache is counted as a failure of the provider.
- `app/gateway/cache.py`: its docstring promises a hit at a cosine above the threshold;
  `semantic_threshold` (line 21) is never used, a hit is an equal quantised embedding,
  which is what a class of prompts stands for in `SemanticCache`.
- `app/gateway/ratelimit.py` calls its check atomic; the count and the `ZADD` are
  separate commands, and `OvershootBounded` has what follows.
- `app/gateway/coalescer.py`: a joined caller that is cancelled cancels the
  future of all; a request that finds the key at the second check runs the call
  as well; one cancelled while it waits for the lock in its clean-up leaves its
  entry.
- `app/main.py:106-108` looks for `_session_cache._redis`, which is never set.

Agents and tools:

- The second submit of a session overwrites the entry of `_ACTIVE_RUNTIMES`, and
  the end of the first removes the second's; futures of approvals that time out
  stay; a failing turn is told both as error and as done.
- `from_anthropic` emits a message's text before its results, which the repair
  then drops; a tool call without id falls back to its name.
- `app/agent/engine.py:466` says that calls and results are kept in pairs; the calls
  are appended before `json.dumps` of each result (line 475), which raises for a
  `CancelledError` that `gather` returned and for whatever a tool returns that is not
  JSON, and before events at which the consumer may leave: the row then ends with
  calls without results. Two runs of a session lose the update of the one that saves
  first (`RowIsOneView` allows it).
- `app/agent/engine.py` cancels its own task when the consumer leaves, never
  yields the approval event it documents, returns from the input guard without
  saving, and its compression can leave results without calls; `max_turns` of
  `app/agent/loop.py` is not read.
- `app/tools/run_code.py` uses `concurrent` without importing it, so every run
  ends as an orchestrator error; `app/mcp/client.py` never compares ids, so a
  time-out shifts all later answers; a time-out in `app/tools/terminal.py` kills
  the shell that others share; `app/plugins/pool.py` does not retry a server that
  failed to connect, and registering a tool overwrites another server's handler of the name.

Workflows, plans, chat and collaboration:

- The eviction of instances takes running ones; `_persist_workflow_instance`
  (`app/workflow/engine.py:325-330`) does not exist, so a run of more than 24 hours
  raises `NameError` at its end and its row says `error` where the instance said
  `completed`; an edit session is deleted at the first node; an instance with failed
  nodes is `completed`; a deleted graph is executed as an empty one.
- A new session enters the chat cache with time 0 and is the first to be evicted;
  a read returns the *oldest* 50 rows; a task whose subtasks all failed is a
  success; ids of sessions can collide.
- A subtask whose dependency found no capability makes the router raise.
- The Redis bus does not subscribe again after a break, passes a pattern to
  `SUBSCRIBE`, hands a message to the publishing process twice, and queries the
  oldest messages; the bus in memory skips a callback when one before it leaves.
- `app/agent/collaboration.py:11` and `136` speak of a tenant's limit on agents; the
  quota counts collaborative tasks, each with as many agents as a wave has.
- A subtask of the hub that raises never signals, and its task never ends;
  `cancel_all` forgets what was dispatched while it waited; an empty output is a
  success.

Memory, skills and context:

- `last_referenced_at` is never written, so the archive of rows unused for 180
  days takes every row of low confidence at once; the order of eviction is
  arbitrary; the count of derived values is not reset; `keep_old` writes nothing;
  two conflicts of one second, of any users, share an id if their hashes agree modulo
  10000 (`conflict_manager.py:156`, `62-63`), and the second record replaces the first;
  two decisions at once both go on;
  a resolution deletes the conflict before it writes the item.
- `app/main.py:196-215` passes arguments the memory service does not take, so it
  is never bound; deleting a summary leaves its vector; a consolidation reads
  messages under another session's id.
- `SkillStore._path` joins a skill's name to the directory as it is, and installing or
  generating one does not look at it: a name that is a path writes another user's file.
- `POST` of a skill always fails (the registry has no `get`); `DELETE` answers
  "deleted" while a shared copy is still found, and a deleted shared skill comes
  back from the old places; unregistering keeps the MCP client; a registration
  without server keeps the old one; stdout is redirected across awaits.
- `trim_to_fit` promises at most `max_tokens` and keeps one message that is
  longer; messages trimmed from the tail are neither summarised nor submitted;
  the tail may begin with results of a tool; four messages or fewer are returned
  as they are, however long. The engine does not use this manager.

## Not modelled, and why

- `SubmitGate`: one gateway process (the map and the semaphore are per process,
  so a second one shares neither); a submit without session id, which skips the
  claim; the text of messages; the event hub. Recharges are `Billing`'s: here a
  balance only falls, and the cached one lies between the table's and the first.
- `Billing`: reads through the replica pool may be stale, which changes no decision
  about an order or a balance, each being a conditional update on the primary (the
  count of free uses, which has none, is in `SubmitGate`); signatures and provider
  protocols are external.
- `TaskQueue`: handlers other than `rag_index` only succeed or fail; an `XREADGROUP`
  that is blocked when `stop()` runs and still delivers to the stopping worker, and one
  whose reply is lost, which both leave an entry pending as a crash does.
- `KnowledgeBuild`: one step builds all documents; a later change of a base's
  type; documents by name; the dead-letter operator (`dlq.py:52`), which may put a
  dead task back and so charge for its build twice; the fetch of the documents and the
  `XADD` of `EnqueueRagBuild` are one step (`knowledge.py:384-403`).
- `KeyPool`: the `None` of `get_key` when a breaker recovers between the filter and the
  computation of the wait (`smart_key_pool.py:144-149`).
- `LlmGateway`: one tenant and one month; a hit in the semantic cache ends a
  call before it selects, so only its write appears; selection weights, as a
  free choice; `CircuitBreaker.reset` and `set_limit`.
- `Shells`: `close_all`, and the cancellation of a foreground command while its shell
  is being spawned; `PluginPool`: `stop`; `McpLink`: the handshake, which is one outcome
  in `PluginPool`, and lines that a server writes unasked.
- `ContextWindow`: what `_submit_degraded_content` leaves out of the messages it submits
  (tool and system messages, and what is longer than its limit,
  `context/manager.py:399-431`): *on its way to memory* means that the submission was
  made.
- `AgentRun`: memory recall, traces, the Redis back end of the session cache
  (nothing enables it); `AgentEngine`: the compression of the context.
- `WorkflowRuns`: what nodes compute, `dynamic_nodes.py`; `TaskPlans`: scores,
  keywords and the aggregation per intent; `AgentHub`: the shared context store.
- `DocIndex`: parsers, scores, thresholds, LangChain's splitter;
  `MemorySummaries`: scores and budgets, which keep any subset, and the insertion of a
  vector in `SummaryStore.insert` (lines 619-626), which needs an embedding that no
  caller gives (the worker makes its `Consolidator` without an embedder, lines 378 and
  426; the one of `app/main.py:205` has another store and is never asked); `SkillStore`:
  what a skill does when it runs, and names that lead outside the tenant's directories
  or into the places older versions used.
- Several tenants where a component's state is per tenant (`RateWindow`,
  `SkillStore`, `MemoryCard`), and several documents or topics (`DocIndex`,
  `ContextBus`): they share nothing.
- Everything `PROJECT.json` lists as not modelled, with its reason there.

## Plan

1. Models: the session store with its cache (evict, delete, re-warm) beside
   `SubmitGate`'s storage steps; the broadcast hub and the browser commands; the
   cron scheduler on two replicas; quota enforcement; the audit sink; ids.
2. Abstract specifications: a counting semaphore, implemented by `SubmitGate`; an
   at-least-once queue, implemented by `TaskQueue` without faults and used by
   `KnowledgeBuild`; a limiter that `RateWindow` implements up to its overshoot.

## Running

In this directory: `tlc -workers 2 -config BillingOrders.cfg MCBilling` (and
likewise for the other configurations, with the module `PROJECT.json` names),
and `tlapm BillingProofs.tla`, likewise for the other modules whose names end in
`Proofs` and for `DataLemmas`. The longest runs,
`Queue.cfg`, `Stores.cfg` and `GatewayParts.cfg`, take about three minutes each
with two workers. The proofs of `ServicesProofs` and of
`OrchestrationProofs` take about a quarter of an hour each, those of the other
modules less.
