----------------------------- MODULE Coalescer ------------------------------
(***************************************************************************)
(* RequestCoalescer of the Python engine (app/gateway/coalescer.py): equal *)
(* requests share one call through a future kept in _pending.              *)
(*                                                                         *)
(* Acquiring an asyncio.Lock nobody holds or waits for does not yield, so  *)
(* the two checks of coalesce are one step unless others wait.  The lock   *)
(* is held across an await in one place only: the call a request makes     *)
(* when _max_pending is reached.  Waiters are served first in, first out.  *)
(* A future is named by the request that created it.  The window's sleep   *)
(* is part of the call; statistics are left out.                           *)
(***************************************************************************)
EXTENDS Integers, Sequences, SequencesExt

CONSTANTS
    CoReqs,             \* coroutines that call coalesce
    CoKeys, KeyOf,      \* _compute_key: requests with the same key are equal
    MaxPending,         \* _max_pending
    MaxCancels,         \* bound: cancelled requests
    NoReq

ASSUME CoalescerAssumption ==
    /\ MaxPending \in Nat /\ MaxCancels \in Nat /\ NoReq \notin CoReqs
    /\ KeyOf \in [CoReqs -> CoKeys]

VARIABLES
    pending,     \* _pending: the future of a key
    pendingCount,
    future,      \* the state of the future each request created
    creq,        \* the requests
    lockHolder,  \* who holds _lock across an await
    lockQueue,   \* who waits for it
    abandoned,   \* history: keys whose clean-up was cancelled
    cancels

coVars == <<pending, pendingCount, future, creq, lockHolder, lockQueue, abandoned, cancels>>

----------------------------------------------------------------------------
CoReq == [pc: {"idle", "first", "join", "second", "calling", "holding", "clean", "done"},
          key: CoKeys, fut: CoReqs \union {NoReq}]

CoalescerTypeOK ==
    /\ pending \in [CoKeys -> CoReqs \union {NoReq}]
    /\ pendingCount \in Int /\ pendingCount <= MaxPending
    /\ future \in [CoReqs -> {"none", "open", "value", "error", "cancelled"}]
    /\ creq \in [CoReqs -> CoReq]
    /\ lockHolder \in CoReqs \union {NoReq}
    /\ lockQueue \in Seq(CoReqs)
    /\ abandoned \subseteq CoKeys
    /\ cancels \in 0..MaxCancels

CoInit ==
    /\ pending = [k \in CoKeys |-> NoReq]
    /\ pendingCount = 0
    /\ future = [r \in CoReqs |-> "none"]
    /\ creq = [r \in CoReqs |-> [pc |-> "idle", key |-> KeyOf[r], fut |-> NoReq]]
    /\ lockHolder = NoReq
    /\ lockQueue = <<>>
    /\ abandoned = {}
    /\ cancels = 0

LockFree == lockHolder = NoReq /\ lockQueue = <<>>
Moves(r, pc) == creq' = [creq EXCEPT ![r].pc = pc]

----------------------------------------------------------------------------
AtLimit == pendingCount >= MaxPending

\* No such key is pending: make the call without coalescing, under the lock, or
\* register a future.
Register(r, waiting) ==
    LET k == creq[r].key IN
    /\ pending[k] = NoReq
    /\ lockQueue' = waiting
    /\ \/ /\ AtLimit
          /\ Moves(r, "holding") /\ lockHolder' = r
          /\ UNCHANGED <<pending, pendingCount, future>>
       \/ /\ ~AtLimit
          /\ creq' = [creq EXCEPT ![r].pc = "calling", ![r].fut = r]
          /\ pending' = [pending EXCEPT ![k] = r]
          /\ pendingCount' = pendingCount + 1
          /\ future' = [future EXCEPT ![r] = "open"]
          /\ UNCHANGED lockHolder

\* A check finds the key: the first check awaits the future, the second goes on to
\* make the call itself, with the other request's future.
Finds(r, pc, waiting) ==
    /\ pending[creq[r].key] # NoReq
    /\ creq' = [creq EXCEPT ![r].pc = pc, ![r].fut = pending[creq[r].key]]
    /\ lockQueue' = waiting
    /\ UNCHANGED <<pending, pendingCount, future, lockHolder>>

\* Between its two checks a request lets those who wait for the lock go first.
Yields(r, waiting) ==
    /\ pending[creq[r].key] = NoReq /\ waiting # <<>>
    /\ Moves(r, "second") /\ lockQueue' = Append(waiting, r)
    /\ UNCHANGED <<pending, pendingCount, future, lockHolder>>

\* Mutant: the entry stays when the request ends.
CleanUp_KeepsEntry(r, waiting, fut) ==
    /\ pendingCount' = pendingCount - 1
    /\ Moves(r, "done")
    /\ future' = fut
    /\ lockQueue' = waiting
    /\ UNCHANGED <<pending, lockHolder>>

\* The finally clause.
CleanUp(r, waiting, fut) ==
    /\ pending' = [pending EXCEPT ![creq[r].key] = NoReq]
    /\ pendingCount' = pendingCount - 1
    /\ Moves(r, "done")
    /\ future' = fut
    /\ lockQueue' = waiting
    /\ UNCHANGED lockHolder

Arrives(r) ==
    /\ creq[r].pc = "idle"
    /\ \/ LockFree /\ (Finds(r, "join", <<>>) \/ Register(r, <<>>))
       \/ /\ ~LockFree
          /\ Moves(r, "first") /\ lockQueue' = Append(lockQueue, r)
          /\ UNCHANGED <<pending, pendingCount, future, lockHolder>>
    /\ UNCHANGED <<abandoned, cancels>>

\* The lock is released and the first waiter's section runs.
Granted(r) ==
    /\ lockHolder = NoReq /\ lockQueue # <<>> /\ Head(lockQueue) = r
    /\ \/ creq[r].pc = "first" /\ (Finds(r, "join", Tail(lockQueue)) \/ Yields(r, Tail(lockQueue)))
       \/ creq[r].pc = "first" /\ Len(lockQueue) = 1 /\ Register(r, <<>>)
       \/ creq[r].pc = "second" /\ (Finds(r, "calling", Tail(lockQueue)) \/ Register(r, Tail(lockQueue)))
       \/ creq[r].pc = "clean" /\ CleanUp(r, Tail(lockQueue), future)
    /\ UNCHANGED <<abandoned, cancels>>

Resolved(f, outcome) == IF future[f] = "open" THEN [future EXCEPT ![f] = outcome] ELSE future

\* The call ends: the future is resolved unless it already is, then the entry is
\* cleaned up, at once or after those who wait for the lock.
Ends(r, outcome) ==
    /\ creq[r].pc = "calling"
    /\ LET fut == Resolved(creq[r].fut, outcome) IN
       \/ LockFree /\ CleanUp(r, <<>>, fut)
       \/ /\ ~LockFree
          /\ future' = fut
          /\ Moves(r, "clean") /\ lockQueue' = Append(lockQueue, r)
          /\ UNCHANGED <<pending, pendingCount, lockHolder>>
    /\ UNCHANGED abandoned

CallEnds(r) == \E o \in {"value", "error"} : Ends(r, o) /\ UNCHANGED cancels

\* The end of the async with block, by return or by cancellation.
Unlock == lockHolder' = NoReq

HeldCallEnds(r) ==
    /\ creq[r].pc = "holding"
    /\ Moves(r, "done") /\ Unlock
    /\ UNCHANGED <<pending, pendingCount, future, lockQueue, abandoned, cancels>>

\* The future a joined request awaits is done.
Joined(r) ==
    /\ creq[r].pc = "join" /\ future[creq[r].fut] # "open"
    /\ Moves(r, "done")
    /\ UNCHANGED <<pending, pendingCount, future, lockHolder, lockQueue, abandoned, cancels>>

\* The request's task is cancelled wherever it awaits.  One that awaits a shared
\* future cancels the future; one that waits for the lock in its finally clause
\* leaves its entry behind.
Cancelled(r) ==
    /\ cancels < MaxCancels /\ cancels' = cancels + 1
    /\ \/ creq[r].pc = "calling" /\ Ends(r, "cancelled")
       \/ /\ creq[r].pc = "holding"
          /\ Moves(r, "done") /\ Unlock
          /\ UNCHANGED <<pending, pendingCount, future, lockQueue, abandoned>>
       \/ /\ creq[r].pc = "join" /\ future[creq[r].fut] = "open"
          /\ Moves(r, "done") /\ future' = [future EXCEPT ![creq[r].fut] = "cancelled"]
          /\ UNCHANGED <<pending, pendingCount, lockHolder, lockQueue, abandoned>>
       \/ /\ creq[r].pc \in {"first", "second", "clean"}
          /\ Moves(r, "done")
          /\ \E i \in 1..Len(lockQueue) : lockQueue[i] = r /\ lockQueue' = RemoveAt(lockQueue, i)
          /\ abandoned' = IF creq[r].pc = "clean" THEN abandoned \union {creq[r].key} ELSE abandoned
          /\ UNCHANGED <<pending, pendingCount, future, lockHolder>>

CoNext == \E r \in CoReqs :
    Arrives(r) \/ Granted(r) \/ CallEnds(r) \/ HeldCallEnds(r) \/ Joined(r) \/ Cancelled(r)

\* Calls are bounded by the provider's time-outs and the event loop runs what is ready.
CoFairness == \A r \in CoReqs :
    /\ WF_coVars(Granted(r)) /\ WF_coVars(CallEnds(r))
    /\ WF_coVars(HeldCallEnds(r)) /\ WF_coVars(Joined(r))

CoSpec == CoInit /\ [][CoNext]_coVars /\ CoFairness

----------------------------------------------------------------------------
\* Every entry of _pending belongs to a request that still has its finally clause
\* to run, so that no later request is answered with an old future; the one way
\* out is a request cancelled while it waits for the lock in that clause.
EntriesHaveARunner == \A k \in CoKeys :
    pending[k] # NoReq =>
        \/ \E r \in CoReqs : creq[r].pc \in {"calling", "clean"} /\ creq[r].key = k /\ creq[r].fut = pending[k]
        \/ k \in abandoned

\* A request whose entry was left behind is joined only after its future is
\* done: whoever waits for a future waits for a call that is still running.
WaitersHaveACall == \A r \in CoReqs :
    (creq[r].pc = "join" /\ future[creq[r].fut] = "open") => creq[creq[r].fut].pc = "calling"

\* Every request that calls coalesce gets a result, an error or its cancellation.
CoalescedRequestsEnd == \A r \in CoReqs : creq[r].pc # "idle" ~> creq[r].pc = "done"
=============================================================================
