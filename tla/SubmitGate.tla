----------------------------- MODULE SubmitGate -----------------------------
(***************************************************************************)
(* How the gateway admits, runs, cancels and bills a conversation turn     *)
(* (POST /submit and POST /cancel): the sessionCancels map, the agentSem   *)
(* semaphore, the goroutine behind an accepted submit, and the contexts    *)
(* that bound it.                                                          *)
(*                                                                         *)
(* One gateway process.  A run is one submit; one map operation, channel   *)
(* operation or statement is one step.  The context of a run is cut when   *)
(* its request handler returns, by a time-out, or by a cancel.             *)
(***************************************************************************)
EXTENDS Integers, FiniteSets

CONSTANTS
    Runs,
    Sessions,
    Users,
    SessionOf,        \* the session_id of each submit (never empty)
    UserOf,           \* the user who submits
    Events,           \* what a stream may carry: subset of {"text", "tokens"}
    Cancels,          \* cancel requests
    CancelUser,       \* the user who cancels
    MaxConcurrency,   \* AgentMaxConcurrency
    FreeLimit,        \* DailyFreeLimit
    UsedToday,        \* free chats a user may have had before the first submit
    StartCredits,
    MaxFaults,        \* bound: failing queries, engine errors and panics
    NoRun, NoSession

ASSUME RunAssumption ==
    /\ IsFiniteSet(Runs)
    /\ SessionOf \in [Runs -> Sessions] /\ UserOf \in [Runs -> Users]
ASSUME CancelAssumption == CancelUser \in [Cancels -> Users]
ASSUME LimitAssumption ==
    MaxConcurrency \in Nat \ {0} /\ FreeLimit \in Nat /\ StartCredits \in Nat /\ MaxFaults \in Nat
ASSUME UsedAssumption == UsedToday \subseteq 0..FreeLimit
ASSUME NoRunAssumption == NoRun \notin Runs /\ NoSession \notin Sessions

VARIABLES
    pc,        \* where each run is
    ctx,       \* its context: "open", or what cut it
    store,     \* its storage context: "open" or "expired"
    text,      \* runs whose stream carried text
    tokens,    \* runs whose stream reported token usage
    entry,     \* sessionCancels
    permits,   \* permits taken from agentSem
    cancel,    \* each cancel request
    replies,   \* messages: runs whose assistant message is stored
    free,      \* free_chat rows of today, per user
    seen,      \* those of them the read replica shows
    lag,       \* history: the rows missed by counts that granted the free quota
    credits,   \* users.credits
    faults

vars == <<pc, ctx, store, text, tokens, entry, permits, cancel, replies,
          free, seen, lag, credits, faults>>

----------------------------------------------------------------------------
\* The steps inside HandleSubmit, and its steps after the claim of a permit.
Handling == {"save", "call", "stream", "reply", "bill", "mark", "deduct"}
Holding == {"register"} \union Handling \union {"unregister", "delete", "release"}
Steps == {"new", "claim", "permit", "refused", "done"} \union Holding
Causes == {"over", "cancel"}    \* over: the request handler returned, or 180 s passed
CancelReq == [pc: {"new", "delete", "cut", "done"},
              session: Sessions \union {NoSession}, run: Runs \union {NoRun}]

TypeOK ==
    /\ pc \in [Runs -> Steps]
    /\ ctx \in [Runs -> {"open"} \union Causes]
    /\ store \in [Runs -> {"open", "expired"}]
    /\ text \in SUBSET Runs
    /\ tokens \in SUBSET Runs
    /\ entry \in [Sessions -> Runs \union {NoRun}]
    /\ permits \in 0..MaxConcurrency
    /\ cancel \in [Cancels -> CancelReq]
    /\ replies \in SUBSET Runs
    /\ free \in [Users -> Nat]
    /\ seen \in [Users -> Nat]
    /\ lag \in [Users -> Nat]
    /\ credits \in [Users -> Nat]
    /\ faults \in Nat

Init ==
    /\ pc = [r \in Runs |-> "new"]
    /\ ctx = [r \in Runs |-> "open"]
    /\ store = [r \in Runs |-> "open"]
    /\ text = {} /\ tokens = {}
    /\ entry = [s \in Sessions |-> NoRun]
    /\ permits = 0
    /\ cancel = [c \in Cancels |-> [pc |-> "new", session |-> NoSession, run |-> NoRun]]
    /\ replies = {}
    /\ free \in [Users -> UsedToday]
    /\ seen \in [Users -> 0..FreeLimit] /\ \A u \in Users : seen[u] <= free[u]
    /\ lag = [u \in Users |-> 0]
    /\ credits = [u \in Users |-> StartCredits]
    /\ faults = 0

Goes(r, step) == pc' = [pc EXCEPT ![r] = step]
Fault == faults < MaxFaults /\ faults' = faults + 1
Store(s, r) == entry' = [entry EXCEPT ![s] = r]
Delete(s) == entry' = [entry EXCEPT ![s] = NoRun]

----------------------------------------------------------------------------
(* The /submit handler.                                                    *)

\* The balance is the one this process has cached, and was loaded from the
\* replica: any balance since the start (here balances only fall).
Balances(u) == credits[u]..StartCredits

\* The free quota is counted on the read replica.
PreCheck(r) ==
    /\ pc[r] = "new"
    /\ LET u == UserOf[r] IN
       \/ seen[u] < FreeLimit /\ Goes(r, "claim")
       \/ /\ seen[u] >= FreeLimit
          /\ \E balance \in Balances(u) : Goes(r, IF balance <= 0 THEN "refused" ELSE "claim")
    /\ UNCHANGED <<ctx, store, text, tokens, entry, permits, cancel, replies, free, seen, lag, credits, faults>>

\* A failing count is taken as an exhausted quota; a failing balance admits.
PreCheckFails(r) ==
    /\ pc[r] = "new"
    /\ Fault
    /\ \/ (\E balance \in Balances(UserOf[r]) : balance <= 0) /\ Goes(r, "refused")
       \/ Goes(r, "claim")
    /\ UNCHANGED <<ctx, store, text, tokens, entry, permits, cancel, replies, free, seen, lag, credits>>

\* sessionCancels.LoadOrStore.
Claim(r) ==
    /\ pc[r] = "claim"
    /\ \/ entry[SessionOf[r]] = NoRun /\ Store(SessionOf[r], r) /\ Goes(r, "permit")
       \/ entry[SessionOf[r]] # NoRun /\ UNCHANGED entry /\ Goes(r, "refused")
    /\ UNCHANGED <<ctx, store, text, tokens, permits, cancel, replies, free, seen, lag, credits, faults>>

\* A non-blocking send to agentSem; without a permit the claim is dropped.
Permit(r) ==
    /\ pc[r] = "permit"
    /\ \/ /\ permits < MaxConcurrency
          /\ permits' = permits + 1
          /\ Goes(r, "register")
          /\ UNCHANGED entry
       \/ /\ permits = MaxConcurrency
          /\ Delete(SessionOf[r])
          /\ Goes(r, "refused")
          /\ UNCHANGED permits
    /\ UNCHANGED <<ctx, store, text, tokens, cancel, replies, free, seen, lag, credits, faults>>

\* The handler has answered 202 and returns: net/http cancels the context of
\* the request, from which the run's context is derived.
HandlerReturns(r) ==
    /\ pc[r] \in Holding
    /\ ctx[r] = "open"
    /\ ctx' = [ctx EXCEPT ![r] = "over"]
    /\ UNCHANGED <<pc, store, text, tokens, entry, permits, cancel, replies, free, seen, lag, credits, faults>>

\* 180 s.
TimesOut(r) ==
    /\ pc[r] \in Holding
    /\ ctx[r] = "open"
    /\ ctx' = [ctx EXCEPT ![r] = "over"]
    /\ UNCHANGED <<pc, store, text, tokens, entry, permits, cancel, replies, free, seen, lag, credits, faults>>

----------------------------------------------------------------------------
(* HandleSubmit, in the goroutine.                                         *)

Register(r) ==
    /\ pc[r] = "register"
    /\ Store(SessionOf[r], r)
    /\ Goes(r, "save")
    /\ UNCHANGED <<ctx, store, text, tokens, permits, cancel, replies, free, seen, lag, credits, faults>>

\* The storage context ends 10 s after the run began.
StoreExpires(r) ==
    /\ pc[r] \in Handling
    /\ store[r] = "open"
    /\ store' = [store EXCEPT ![r] = "expired"]
    /\ UNCHANGED <<pc, ctx, text, tokens, entry, permits, cancel, replies, free, seen, lag, credits, faults>>

\* The user's message, which no later step of the run depends on.
SaveUserMessage(r) ==
    /\ pc[r] = "save"
    /\ Goes(r, "call")
    /\ UNCHANGED <<ctx, store, text, tokens, entry, permits, cancel, replies, free, seen, lag, credits, faults>>

\* The history is read and the engine called with the run's context.
Call(r) ==
    /\ pc[r] = "call"
    /\ Goes(r, IF ctx[r] = "open" THEN "stream" ELSE "unregister")
    /\ UNCHANGED <<ctx, store, text, tokens, entry, permits, cancel, replies, free, seen, lag, credits, faults>>

CallFails(r) ==
    /\ pc[r] = "call"
    /\ Fault
    /\ Goes(r, "unregister")
    /\ UNCHANGED <<ctx, store, text, tokens, entry, permits, cancel, replies, free, seen, lag, credits>>

\* An event of the stream; buffered ones still arrive after a cut.
StreamEvent(r) ==
    /\ pc[r] = "stream"
    /\ \/ "text" \in Events /\ text' = text \union {r} /\ UNCHANGED tokens
       \/ "tokens" \in Events /\ tokens' = tokens \union {r} /\ UNCHANGED text
    /\ UNCHANGED <<pc, ctx, store, entry, permits, cancel, replies, free, seen, lag, credits, faults>>

EngineCloses(r) ==
    /\ pc[r] = "stream"
    /\ Goes(r, "reply")
    /\ UNCHANGED <<ctx, store, text, tokens, entry, permits, cancel, replies, free, seen, lag, credits, faults>>

\* Mutant: the reader waits for the next line and does not watch its context.
StreamCut_Deaf(r) ==
    /\ pc[r] = "stream"
    /\ ctx[r] # "open"
    /\ UNCHANGED vars

StreamCut(r) ==
    /\ pc[r] = "stream"
    /\ ctx[r] # "open"
    /\ Goes(r, "reply")
    /\ UNCHANGED <<ctx, store, text, tokens, entry, permits, cancel, replies, free, seen, lag, credits, faults>>

\* Mutant: the message is written with the context of the run.
SaveAssistantMessage_RunContext(r) ==
    /\ pc[r] = "reply"
    /\ replies' = IF r \in text /\ ctx[r] = "open" THEN replies \union {r} ELSE replies
    /\ Goes(r, "bill")
    /\ UNCHANGED <<ctx, store, text, tokens, entry, permits, cancel, free, seen, lag, credits, faults>>

SaveAssistantMessage(r) ==
    /\ pc[r] = "reply"
    /\ replies' = IF r \in text /\ store[r] = "open" THEN replies \union {r} ELSE replies
    /\ Goes(r, "bill")
    /\ UNCHANGED <<ctx, store, text, tokens, entry, permits, cancel, free, seen, lag, credits, faults>>

Grants(r) ==
    /\ Goes(r, "mark")
    /\ LET u == UserOf[r]  missed == free[u] - seen[u] IN
       lag' = [lag EXCEPT ![u] = IF missed > @ THEN missed ELSE @]

\* Mutant: the last free conversation is counted twice.
Bill_OffByOne(r) ==
    /\ pc[r] = "bill"
    /\ \/ r \notin tokens /\ Goes(r, "unregister") /\ UNCHANGED lag
       \/ r \in tokens /\ store[r] = "open" /\ seen[UserOf[r]] <= FreeLimit /\ Grants(r)
       \/ /\ r \in tokens /\ ~(store[r] = "open" /\ seen[UserOf[r]] <= FreeLimit)
          /\ Goes(r, "deduct") /\ UNCHANGED lag
    /\ UNCHANGED <<ctx, store, text, tokens, entry, permits, cancel, replies, free, seen, credits, faults>>

\* DailyFreeCount with the storage context, on the read replica: an error means
\* no free quota.
Bill(r) ==
    /\ pc[r] = "bill"
    /\ \/ r \notin tokens /\ Goes(r, "unregister") /\ UNCHANGED lag
       \/ r \in tokens /\ store[r] = "open" /\ seen[UserOf[r]] < FreeLimit /\ Grants(r)
       \/ /\ r \in tokens /\ ~(store[r] = "open" /\ seen[UserOf[r]] < FreeLimit)
          /\ Goes(r, "deduct") /\ UNCHANGED lag
    /\ UNCHANGED <<ctx, store, text, tokens, entry, permits, cancel, replies, free, seen, credits, faults>>

\* On the primary.
MarkFreeUsage(r) ==
    /\ pc[r] = "mark"
    /\ free' = IF store[r] = "open" THEN [free EXCEPT ![UserOf[r]] = @ + 1] ELSE free
    /\ Goes(r, "unregister")
    /\ UNCHANGED <<ctx, store, text, tokens, entry, permits, cancel, replies, seen, lag, credits, faults>>

\* The replica catches up with the primary, at its own pace (external).
Replicates(u) ==
    /\ \E n \in seen[u]+1..free[u] : seen' = [seen EXCEPT ![u] = n]
    /\ UNCHANGED <<pc, ctx, store, text, tokens, entry, permits, cancel, replies, free, lag, credits, faults>>

\* Mutant: the deduction lost its AND credits >= $2.
DeductTokens_Unguarded(r) ==
    /\ pc[r] = "deduct"
    /\ credits' = [credits EXCEPT ![UserOf[r]] = @ - 1]
    /\ Goes(r, "unregister")
    /\ UNCHANGED <<ctx, store, text, tokens, entry, permits, cancel, replies, free, seen, lag, faults>>

\* AtomicDeductBalance: without the credits nothing is deducted.
DeductTokens(r) ==
    /\ pc[r] = "deduct"
    /\ credits' = IF credits[UserOf[r]] >= 1 THEN [credits EXCEPT ![UserOf[r]] = @ - 1] ELSE credits
    /\ Goes(r, "unregister")
    /\ UNCHANGED <<ctx, store, text, tokens, entry, permits, cancel, replies, free, seen, lag, faults>>

\* Mutant: a panic skips the deferred calls.
Panics_SkipsDefers(r) ==
    /\ pc[r] \in Handling
    /\ Fault
    /\ Goes(r, "done")
    /\ UNCHANGED <<ctx, store, text, tokens, entry, permits, cancel, replies, free, seen, lag, credits>>

\* Every deferred call runs, and the outermost one recovers.
Panics(r) ==
    /\ pc[r] \in Handling
    /\ Fault
    /\ Goes(r, "unregister")
    /\ UNCHANGED <<ctx, store, text, tokens, entry, permits, cancel, replies, free, seen, lag, credits>>

\* The deferred calls: Delete in HandleSubmit, Delete in the goroutine, and the
\* receive from agentSem.
Unregister(r) ==
    /\ pc[r] = "unregister"
    /\ Delete(SessionOf[r])
    /\ Goes(r, "delete")
    /\ UNCHANGED <<ctx, store, text, tokens, permits, cancel, replies, free, seen, lag, credits, faults>>

DeleteAgain(r) ==
    /\ pc[r] = "delete"
    /\ Delete(SessionOf[r])
    /\ Goes(r, "release")
    /\ UNCHANGED <<ctx, store, text, tokens, permits, cancel, replies, free, seen, lag, credits, faults>>

\* The goroutine ends, and with it what it held of its run.
Release(r) ==
    /\ pc[r] = "release"
    /\ permits' = permits - 1
    /\ Goes(r, "done")
    /\ ctx' = [ctx EXCEPT ![r] = "open"] /\ store' = [store EXCEPT ![r] = "open"]
    /\ text' = text \ {r} /\ tokens' = tokens \ {r}
    /\ UNCHANGED <<entry, cancel, replies, free, seen, lag, credits, faults>>

----------------------------------------------------------------------------
(* handleCancel: Load, compare the user, Delete, call the cancel function. *)

\* Mutant: the owner is not compared.
CancelLoad_AnyUser(c, s) ==
    /\ cancel[c].pc = "new"
    /\ entry[s] # NoRun
    /\ cancel' = [cancel EXCEPT ![c] = [pc |-> "delete", session |-> s, run |-> entry[s]]]
    /\ UNCHANGED <<pc, ctx, store, text, tokens, entry, permits, replies, free, seen, lag, credits, faults>>

CancelLoad(c, s) ==
    /\ cancel[c].pc = "new"
    /\ entry[s] # NoRun
    /\ UserOf[entry[s]] = CancelUser[c]
    /\ cancel' = [cancel EXCEPT ![c] = [pc |-> "delete", session |-> s, run |-> entry[s]]]
    /\ UNCHANGED <<pc, ctx, store, text, tokens, entry, permits, replies, free, seen, lag, credits, faults>>

CancelGoes(c, step) ==
    cancel' = [cancel EXCEPT ![c] = [pc |-> step, session |-> @.session, run |-> @.run]]

CancelDelete(c) ==
    /\ cancel[c].pc = "delete"
    /\ Delete(cancel[c].session)
    /\ CancelGoes(c, "cut")
    /\ UNCHANGED <<pc, ctx, store, text, tokens, permits, replies, free, seen, lag, credits, faults>>

CancelCut(c) ==
    /\ cancel[c].pc = "cut"
    /\ ctx' = [ctx EXCEPT ![cancel[c].run] = IF @ = "open" THEN "cancel" ELSE @]
    /\ CancelGoes(c, "done")
    /\ UNCHANGED <<pc, store, text, tokens, entry, permits, replies, free, seen, lag, credits, faults>>

----------------------------------------------------------------------------
Proceed(r) ==
    \/ Claim(r) \/ Permit(r) \/ Register(r) \/ SaveUserMessage(r) \/ Call(r) \/ StreamCut(r)
    \/ SaveAssistantMessage(r) \/ Bill(r) \/ MarkFreeUsage(r) \/ DeductTokens(r)
    \/ Unregister(r) \/ DeleteAgain(r) \/ Release(r)

Next ==
    \/ \E r \in Runs :
           \/ PreCheck(r) \/ PreCheckFails(r) \/ Proceed(r)
           \/ HandlerReturns(r) \/ TimesOut(r) \/ StoreExpires(r)
           \/ CallFails(r) \/ StreamEvent(r) \/ EngineCloses(r) \/ Panics(r)
    \/ \E c \in Cancels :
           \/ \E s \in Sessions : CancelLoad(c, s)
           \/ CancelDelete(c) \/ CancelCut(c)
    \/ \E u \in Users : Replicates(u)

Spec == Init /\ [][Next]_vars

\* Goroutines run and clocks advance.  Nothing is assumed of the engine, which
\* may stream for ever, nor of users.
Fairness ==
    /\ \A r \in Runs : WF_vars(Proceed(r)) /\ WF_vars(TimesOut(r))
    /\ \A c \in Cancels : WF_vars(CancelDelete(c)) /\ WF_vars(CancelCut(c))

FairSpec == Spec /\ Fairness

----------------------------------------------------------------------------
(* Properties.                                                             *)

\* agentSem counts exactly the runs between admission and their last deferred
\* call, on the panic path too: a permit is neither leaked nor returned twice.
PermitsMatch == permits = Cardinality({r \in Runs : pc[r] \in Holding})

\* handleCancel reads the entry, deletes it and cancels in three steps, while
\* other users may submit under the same session id: a run is only ever
\* cancelled by its own user.
CancelledByOwner ==
    \A r \in Runs : ctx[r] = "cancel" =>
        \E c \in Cancels : cancel[c].run = r /\ cancel[c].pc = "done" /\ CancelUser[c] = UserOf[r]

\* A stream that was cancelled, timed out or left by its client keeps what it
\* produced: unless the run outlives the 10 s of its storage context or panics,
\* its assistant message is stored.
CutRunsKeepTheirReply ==
    \A r \in Runs :
        r \in text /\ pc[r] \in {"unregister", "delete", "release"}
            => r \in replies \/ store[r] = "expired" \/ faults > 0

\* The free quota is counted on the replica and written to the primary in
\* another statement: it is exceeded by at most the number of other runs that may
\* be in between, plus the uses the replica had not yet shown to a count that
\* granted it.
FreeOvershootBounded ==
    \A u \in Users : free[u] <= FreeLimit + MaxConcurrency - 1 + lag[u]

\* Every admitted run ends, whatever the engine does.
RunsEnd == \A r \in Runs : pc[r] \in Holding ~> pc[r] = "done"

\* A session never stays claimed: a refused, cancelled, cut or panicking run
\* leaves it free again, although a cancel frees it early and two runs then store
\* and delete one entry.
SessionIsReleased == \A s \in Sessions : entry[s] # NoRun ~> entry[s] = NoRun
=============================================================================
