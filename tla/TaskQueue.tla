----------------------------- MODULE TaskQueue -----------------------------
(***************************************************************************)
(* The asynchronous task queue of the Python engine (app/queue): a Redis   *)
(* stream read through a consumer group by QueueWorker processes, retries  *)
(* by re-adding the message, and a dead-letter stream with its operators.  *)
(*                                                                         *)
(* A slot is one permit of a worker's semaphore together with the          *)
(* coroutine that holds it.  An entry that was delivered but not           *)
(* acknowledged belongs to a consumer name drawn per process; nobody       *)
(* claims it from a process that is gone, so dropping it is losing it.     *)
(***************************************************************************)
EXTENDS Integers, Sequences, FiniteSets

CONSTANTS
    Tasks,
    Workers,          \* worker processes
    Slots,            \* semaphore permits of all workers
    Owner,            \* the worker a slot belongs to
    Operators,        \* users of DeadLetterQueue
    MaxRetries,       \* MAX_RETRIES
    ProducerMaxLen,   \* maxlen of QueueProducer.enqueue (100000)
    RetryMaxLen,      \* maxlen of the retry in _process_message (10000)
    MaxFaults,        \* bound: crashes, shutdowns, timeouts, Redis errors
    MaxOps,           \* bound: operations on the dead-letter stream
    NoTask

ASSUME OwnerAssumption == Owner \in [Slots -> Workers]
ASSUME QueueBoundAssumption ==
    /\ MaxRetries \in Nat /\ MaxFaults \in Nat /\ MaxOps \in Nat
    /\ ProducerMaxLen \in Nat \ {0} /\ RetryMaxLen \in Nat \ {0}
ASSUME ProcessAssumption == IsFiniteSet(Workers) /\ IsFiniteSet(Slots)
ASSUME NoTaskAssumption == NoTask \notin Tasks

VARIABLES
    backlog,    \* entries of engine:tasks no consumer has been given
    status,     \* each worker: "up", "stopping", "closing" or "down"
    fetched,    \* entries XREADGROUP returned that wait for the semaphore
    msg,        \* the message each slot processes
    dlq,        \* engine:tasks:dlq
    op,         \* what each operator is doing
    submitted,  \* history: tasks enqueue was called for
    runs,       \* history: how often a task's handler was started
    done,       \* history: tasks whose handler has succeeded
    buried,     \* history: how often a task was dead-lettered
    requeued,   \* history: how often an operator re-added a task
    lost,       \* history: why an entry of a task will never be processed
    faults, ops

queueVars == <<backlog, status, fetched, msg, dlq, op, submitted, runs, done, buried,
          requeued, lost, faults, ops>>

----------------------------------------------------------------------------
Steps == {"free", "run", "ack", "requeue", "bury", "lastack"}
Causes == {"crash", "shutdown", "stop", "timeout", "redis", "trim", "clear"}
Entry == [task: Tasks, retry: Nat]
Dead == [task: Tasks, serial: Nat]
Message == [pc: Steps, task: Tasks \union {NoTask}, retry: Nat]
Errand == [pc: {"idle", "xadd", "xdel"}, task: Tasks \union {NoTask}, serial: Nat]

Free == [pc |-> "free", task |-> NoTask, retry |-> 0]
Resting == [pc |-> "idle", task |-> NoTask, serial |-> 0]

QueueTypeOK ==
    /\ backlog \in Seq(Entry)
    /\ status \in [Workers -> {"up", "stopping", "closing", "down"}]
    /\ fetched \in [Workers -> Seq(Entry)]
    /\ msg \in [Slots -> Message]
    /\ dlq \in SUBSET Dead
    /\ op \in [Operators -> Errand]
    /\ submitted \in SUBSET Tasks
    /\ runs \in [Tasks -> Nat]
    /\ done \in SUBSET Tasks
    /\ buried \in [Tasks -> Nat]
    /\ requeued \in [Tasks -> Nat]
    /\ lost \in [Tasks -> SUBSET Causes]
    /\ faults \in Nat /\ ops \in Nat

QueueInit ==
    /\ backlog = << >>
    /\ status = [w \in Workers |-> "up"]
    /\ fetched = [w \in Workers |-> << >>]
    /\ msg = [s \in Slots |-> Free]
    /\ dlq = {}
    /\ op = [o \in Operators |-> Resting]
    /\ submitted = {}
    /\ runs = [t \in Tasks |-> 0]
    /\ done = {}
    /\ buried = [t \in Tasks |-> 0]
    /\ requeued = [t \in Tasks |-> 0]
    /\ lost = [t \in Tasks |-> {}]
    /\ faults = 0 /\ ops = 0

Smaller(a, b) == IF a < b THEN a ELSE b
SlotsOf(w) == {s \in Slots : Owner[s] = w}
Concurrency(w) == Cardinality(SlotsOf(w))
In(seq) == {seq[i] : i \in DOMAIN seq}
TasksIn(seq) == {e.task : e \in In(seq)}
Lose(ts, cause) ==
    lost' = [t \in Tasks |-> IF t \in ts THEN lost[t] \union {cause} ELSE lost[t]]
Fault == faults < MaxFaults /\ faults' = faults + 1

\* XADD with a cap: the trimming is approximate, so it drops none, some or all
\* of the oldest entries beyond the cap, undelivered ones included.
XAdd(e, cap) ==
    LET stream == Append(backlog, e)
        excess == Len(stream) - cap
    IN \E n \in 0..(IF excess > 0 THEN excess ELSE 0) :
           /\ backlog' = SubSeq(stream, n + 1, Len(stream))
           /\ Lose(TasksIn(SubSeq(stream, 1, n)), "trim")

----------------------------------------------------------------------------
(* The producer and the worker's read loop.                                *)

Enqueue(t) ==
    /\ t \notin submitted
    /\ submitted' = submitted \union {t}
    /\ XAdd([task |-> t, retry |-> 0], ProducerMaxLen)
    /\ UNCHANGED <<status, fetched, msg, dlq, op, runs, done, buried, requeued, faults, ops>>

\* Mutant: the batch is read from id 0 and never leaves the stream.
ConsumeBatch_NoCursor(w) ==
    /\ status[w] = "up"
    /\ fetched[w] = << >>
    /\ backlog # << >>
    /\ fetched' = [fetched EXCEPT ![w] = SubSeq(backlog, 1, Smaller(Concurrency(w), Len(backlog)))]
    /\ UNCHANGED <<backlog, status, msg, dlq, op, submitted, runs, done, buried, requeued, lost, faults, ops>>

\* XREADGROUP ">" COUNT concurrency: a new batch once the last one is started.
ConsumeBatch(w) ==
    /\ status[w] = "up"
    /\ fetched[w] = << >>
    /\ backlog # << >>
    /\ LET n == Smaller(Concurrency(w), Len(backlog)) IN
       /\ fetched' = [fetched EXCEPT ![w] = SubSeq(backlog, 1, n)]
       /\ backlog' = SubSeq(backlog, n + 1, Len(backlog))
    /\ UNCHANGED <<status, msg, dlq, op, submitted, runs, done, buried, requeued, lost, faults, ops>>

\* The loop over the batch acquires a permit and starts a coroutine; it does
\* not look at _running, so it goes on while the worker is stopping.
StartMessage(w, s) ==
    /\ status[w] # "down"
    /\ fetched[w] # << >>
    /\ Owner[s] = w
    /\ msg[s].pc = "free"
    /\ LET e == Head(fetched[w]) IN
       /\ msg' = [msg EXCEPT ![s] = [pc |-> "run", task |-> e.task, retry |-> e.retry]]
       /\ runs' = [runs EXCEPT ![e.task] = @ + 1]
    /\ fetched' = [fetched EXCEPT ![w] = Tail(@)]
    /\ UNCHANGED <<backlog, status, dlq, op, submitted, done, buried, requeued, lost, faults, ops>>

----------------------------------------------------------------------------
(* _process_message.                                                       *)

AfterFailure(m) ==
    [m EXCEPT !.pc = IF m.retry >= MaxRetries THEN "bury" ELSE "requeue"]

DispatchSucceeds(s) ==
    /\ msg[s].pc = "run"
    /\ msg' = [msg EXCEPT ![s].pc = "ack"]
    /\ done' = done \union {msg[s].task}
    /\ UNCHANGED <<backlog, status, fetched, dlq, op, submitted, runs, buried, requeued, lost, faults, ops>>

DispatchFails(s) ==
    /\ msg[s].pc = "run"
    /\ msg' = [msg EXCEPT ![s] = AfterFailure(@)]
    /\ UNCHANGED <<backlog, status, fetched, dlq, op, submitted, runs, done, buried, requeued, lost, faults, ops>>

\* Mutant: the permit is released only on the success path.
Ack_LeaksPermit(s) ==
    /\ msg[s].pc = "ack"
    /\ msg' = [msg EXCEPT ![s] = Free]
    /\ UNCHANGED <<backlog, status, fetched, dlq, op, submitted, runs, done, buried, requeued, lost, faults, ops>>

\* XACK after success, and the XACK that follows a retry or a burial; if that
\* last one fails the entry stays pending, but its successor exists.
Ack(s) ==
    /\ msg[s].pc \in {"ack", "lastack"}
    /\ msg' = [msg EXCEPT ![s] = Free]
    /\ UNCHANGED <<backlog, status, fetched, dlq, op, submitted, runs, done, buried, requeued, lost, faults, ops>>

\* The XACK after success is inside the try: its failure counts as the task's.
AckFails(s) ==
    /\ Fault
    /\ msg[s].pc = "ack"
    /\ msg' = [msg EXCEPT ![s] = AfterFailure(@)]
    /\ UNCHANGED <<backlog, status, fetched, dlq, op, submitted, runs, done, buried, requeued, lost, ops>>

\* Mutant: the message is acknowledged and not added again.
Requeue_Forgets(s) ==
    /\ msg[s].pc = "requeue"
    /\ msg' = [msg EXCEPT ![s].pc = "lastack"]
    /\ UNCHANGED <<backlog, status, fetched, dlq, op, submitted, runs, done, buried, requeued, lost, faults, ops>>

Requeue(s) ==
    /\ msg[s].pc = "requeue"
    /\ XAdd([task |-> msg[s].task, retry |-> msg[s].retry + 1], RetryMaxLen)
    /\ msg' = [msg EXCEPT ![s].pc = "lastack"]
    /\ UNCHANGED <<status, fetched, dlq, op, submitted, runs, done, buried, requeued, faults, ops>>

Bury(s) ==
    /\ msg[s].pc = "bury"
    /\ LET t == msg[s].task IN
       /\ dlq' = dlq \union {[task |-> t, serial |-> buried[t]]}
       /\ buried' = [buried EXCEPT ![t] = @ + 1]
    /\ msg' = [msg EXCEPT ![s].pc = "lastack"]
    /\ UNCHANGED <<backlog, status, fetched, op, submitted, runs, done, requeued, lost, faults, ops>>

\* XADD fails in the except branch: the coroutine ends, the entry stays pending.
XAddFails(s) ==
    /\ Fault
    /\ msg[s].pc \in {"requeue", "bury"}
    /\ Lose({msg[s].task}, "redis")
    /\ msg' = [msg EXCEPT ![s] = Free]
    /\ UNCHANGED <<backlog, status, fetched, dlq, op, submitted, runs, done, buried, requeued, ops>>

\* After an hour wait_for cancels the coroutine wherever it is; CancelledError
\* passes "except Exception", so nothing is acknowledged or re-added.
TimesOut(s) ==
    /\ Fault
    /\ msg[s].pc \in {"run", "ack", "requeue", "bury"}
    /\ Lose({msg[s].task}, "timeout")
    /\ msg' = [msg EXCEPT ![s] = Free]
    /\ UNCHANGED <<backlog, status, fetched, dlq, op, submitted, runs, done, buried, requeued, ops>>

----------------------------------------------------------------------------
(* Processes.                                                              *)

Unacknowledged(w) ==
    {msg[s].task : s \in {s \in SlotsOf(w) : msg[s].pc \in {"run", "ack", "requeue", "bury"}}}

Vacate(w) == msg' = [s \in Slots |-> IF Owner[s] = w THEN Free ELSE msg[s]]

Abandon(w, cause) ==
    /\ Lose(Unacknowledged(w) \union TasksIn(fetched[w]), cause)
    /\ Vacate(w)
    /\ fetched' = [fetched EXCEPT ![w] = << >>]
    /\ status' = [status EXCEPT ![w] = "down"]
    /\ UNCHANGED <<backlog, dlq, op, submitted, runs, done, buried, requeued, ops>>

Crash(w) == status[w] # "down" /\ Fault /\ Abandon(w, "crash")

\* The lifespan cancels the worker task.  start() catches the CancelledError
\* and returns, so _run_queue_worker never calls stop(): the rest of the batch
\* is dropped, and what runs has the time the process still lives.
Shutdown(w) ==
    /\ status[w] \in {"up", "stopping"}
    /\ Fault
    /\ status' = [status EXCEPT ![w] = "closing"]
    /\ fetched' = [fetched EXCEPT ![w] = << >>]
    /\ Lose(TasksIn(fetched[w]), "shutdown")
    /\ UNCHANGED <<backlog, msg, dlq, op, submitted, runs, done, buried, requeued, ops>>

\* SIGTERM calls stop(): no new batches, and up to 30 s for what runs.
Stop(w) ==
    /\ status[w] = "up"
    /\ Fault
    /\ status' = [status EXCEPT ![w] = "stopping"]
    /\ UNCHANGED <<backlog, fetched, msg, dlq, op, submitted, runs, done, buried, requeued, lost, ops>>

\* The 30 s are over: what still runs is cancelled.
StopTimesOut(w) ==
    /\ status[w] = "stopping"
    /\ Unacknowledged(w) # {}
    /\ Lose(Unacknowledged(w), "stop")
    /\ Vacate(w)
    /\ UNCHANGED <<backlog, status, fetched, dlq, op, submitted, runs, done, buried, requeued, faults, ops>>

\* A closing process ends, the container runtime ends a stopping one, and it
\* replaces a dead one, under a new consumer name.
Exit(w) ==
    /\ \/ status[w] = "stopping" /\ Abandon(w, "stop")
       \/ status[w] = "closing" /\ Abandon(w, "shutdown")
    /\ UNCHANGED faults

Restart(w) ==
    /\ status[w] = "down"
    /\ status' = [status EXCEPT ![w] = "up"]
    /\ UNCHANGED <<backlog, fetched, msg, dlq, op, submitted, runs, done, buried, requeued, lost, faults, ops>>

----------------------------------------------------------------------------
(* DeadLetterQueue: retry is XRANGE, XADD, XDEL; clear is XDEL.            *)

RetryRead(o, d) ==
    /\ ops < MaxOps
    /\ ops' = ops + 1
    /\ op[o].pc = "idle"
    /\ op' = [op EXCEPT ![o] = [pc |-> "xadd", task |-> d.task, serial |-> d.serial]]
    /\ UNCHANGED <<backlog, status, fetched, msg, dlq, submitted, runs, done, buried, requeued, lost, faults>>

RetryXadd(o) ==
    /\ op[o].pc = "xadd"
    /\ backlog' = Append(backlog, [task |-> op[o].task, retry |-> 0])
    /\ requeued' = [requeued EXCEPT ![op[o].task] = @ + 1]
    /\ op' = [op EXCEPT ![o].pc = "xdel"]
    /\ UNCHANGED <<status, fetched, msg, dlq, submitted, runs, done, buried, lost, faults, ops>>

RetryXdel(o) ==
    /\ op[o].pc = "xdel"
    /\ dlq' = dlq \ {[task |-> op[o].task, serial |-> op[o].serial]}
    /\ op' = [op EXCEPT ![o] = Resting]
    /\ UNCHANGED <<backlog, status, fetched, msg, submitted, runs, done, buried, requeued, lost, faults, ops>>

OperatorCrash(o) ==
    /\ Fault
    /\ op[o].pc # "idle"
    /\ op' = [op EXCEPT ![o] = Resting]
    /\ UNCHANGED <<backlog, status, fetched, msg, dlq, submitted, runs, done, buried, requeued, lost, ops>>

Clear(d) ==
    /\ ops < MaxOps
    /\ ops' = ops + 1
    /\ dlq' = dlq \ {d}
    /\ Lose({d.task}, "clear")
    /\ UNCHANGED <<backlog, status, fetched, msg, op, submitted, runs, done, buried, requeued, faults>>

----------------------------------------------------------------------------
Dispatch(s) == DispatchSucceeds(s) \/ DispatchFails(s)
Settle(s) == Ack(s) \/ Requeue(s) \/ Bury(s)

QueueNext ==
    \/ \E t \in Tasks : Enqueue(t)
    \/ \E w \in Workers :
           \/ ConsumeBatch(w) \/ Crash(w) \/ Shutdown(w) \/ Stop(w)
           \/ StopTimesOut(w) \/ Exit(w) \/ Restart(w)
           \/ \E s \in Slots : StartMessage(w, s)
    \/ \E s \in Slots : Dispatch(s) \/ Settle(s) \/ AckFails(s) \/ XAddFails(s) \/ TimesOut(s)
    \/ \E o \in Operators :
           \/ \E d \in dlq : RetryRead(o, d)
           \/ RetryXadd(o) \/ RetryXdel(o) \/ OperatorCrash(o)
    \/ \E d \in dlq : Clear(d)

QueueSpec == QueueInit /\ [][QueueNext]_queueVars

\* The event loop runs every coroutine, a handler ends one way or the other
\* within its hour, and the container runtime replaces processes.
QueueFairness ==
    /\ \A s \in Slots : WF_queueVars(Dispatch(s)) /\ WF_queueVars(Settle(s))
    /\ \A w \in Workers : /\ WF_queueVars(ConsumeBatch(w))
                          /\ WF_queueVars(\E s \in Slots : StartMessage(w, s))
                          /\ WF_queueVars(Exit(w))
                          /\ WF_queueVars(Restart(w))

QueueFairSpec == QueueSpec /\ QueueFairness

----------------------------------------------------------------------------
(* Properties.                                                             *)

\* An entry of t that a running process will still act on.
Live(t) ==
    \/ t \in TasksIn(backlog)
    \/ \E w \in Workers : t \in TasksIn(fetched[w])
    \/ \E s \in Slots : msg[s].task = t /\ msg[s].pc \in {"run", "ack", "requeue", "bury"}

\* At least once: a submitted task has succeeded, is dead-lettered, is still
\* being worked on, or was lost to a cause the code is exposed to.  No order of
\* acknowledgement, re-adding and burial loses it silently.
LossNeedsACause ==
    \A t \in submitted :
        t \in done \/ Live(t) \/ (\E d \in dlq : d.task = t) \/ lost[t] # {}

\* A handler is started at most MAX_RETRIES + 1 times for each time its task
\* is put on the stream from outside, whatever acknowledgements fail.
RunsBounded == \A t \in Tasks : runs[t] <= (MaxRetries + 1) * (1 + requeued[t])

\* Unless an operator re-adds it, a task never runs in two slots at once: the
\* retry is added after the handler has ended.
NeverConcurrent ==
    \A s1, s2 \in Slots :
        /\ s1 # s2
        /\ msg[s1].pc = "run" /\ msg[s2].pc = "run"
        /\ msg[s1].task = msg[s2].task
        => requeued[msg[s1].task] > 0

\* What the queue promises a handler, although delivery is at least once: it is
\* started a bounded number of times per submission, and never twice at a time,
\* however retries, failed acknowledgements, restarts and redeliveries interleave
\* (QueueWorker._process_message).
RunsAreBounded == QueueTypeOK /\ RunsBounded /\ NeverConcurrent

\* Every submitted task is eventually executed, dead-lettered or lost to a
\* named cause: neither the semaphore, nor a stopping worker, nor a task that
\* always fails holds the queue up for ever.
TasksSettle ==
    \A t \in Tasks : t \in submitted ~> (t \in done \/ buried[t] > 0 \/ lost[t] # {})
=============================================================================
