--------------------------- MODULE KnowledgeBuild ---------------------------
(***************************************************************************)
(* Knowledge bases of the Python engine: uploading and deleting documents, *)
(* and building a base (app/api/knowledge.py), where the "rag" kind hands  *)
(* a rag_index task to the queue and the worker's handler charges the user *)
(* and activates the base (app/queue/worker.py).                           *)
(*                                                                         *)
(* One statement, transaction or queue operation is one step.  A task      *)
(* follows TaskQueue: it is retried after an exception or a failed         *)
(* acknowledgement, dead-lettered after KbRetries, lost with its process. *)
(***************************************************************************)
EXTENDS Integers, FiniteSets

CONSTANTS
    Bases,
    Users,
    OwnerOf,      \* the user a base belongs to
    Requests,     \* request coroutines of the API
    Builds,       \* bound: ids of rag_index tasks, each used once
    KbRetries,
    StartCredits,
    CostPerDoc,   \* the price of a build, per counted document
    MaxDocs,      \* bound: documents of a base when another is uploaded
    KbMaxFaults,  \* bound: crashes, failing statements and queue operations, lost
                  \* replies, and other deductions from the user's credits
    NoBase

ASSUME BaseAssumption == OwnerOf \in [Bases -> Users]
ASSUME CostAssumption == StartCredits \in Nat /\ CostPerDoc \in Nat
ASSUME BuildBoundAssumption ==
    KbRetries \in Nat /\ MaxDocs \in Nat /\ KbMaxFaults \in Nat
ASSUME NoBaseAssumption == NoBase \notin Bases
ASSUME BuildersAssumption == IsFiniteSet(Requests) /\ IsFiniteSet(Builds)

VARIABLES
    kind,      \* knowledge_bases.type, as created
    kbStatus,    \* knowledge_bases.status, or "deleted"
    count,     \* knowledge_bases.document_count (and total_size_bytes)
    docs,      \* the number of rows in knowledge_documents
    credits,   \* users.credits
    req,       \* each request coroutine
    task,      \* each rag_index task
    claims,    \* history: builds of a base that were let through
    charges,   \* history: builds of a base that were paid for
    spends, kbFaults, lostReplies

kbVars == <<kind, kbStatus, count, docs, credits, req, task, claims, charges,
          spends, kbFaults, lostReplies>>

----------------------------------------------------------------------------
Statuses == {"active", "building", "draft", "error", "deleted"}
ReqSteps == {"idle", "insert", "count", "recount", "credits", "claim", "enqueue", "rollback", "wiki"}
TaskSteps == {"none", "queued", "docs", "txn", "ack", "done", "dead", "gone"}
Request == [pc: ReqSteps, base: Bases \union {NoBase}, cost: Nat]
Build == [pc: TaskSteps, base: Bases \union {NoBase}, cost: Nat, docs: Nat,
          retry: Nat, failed: BOOLEAN]

Quiet == [pc |-> "idle", base |-> NoBase, cost |-> 0]
NoBuild == [pc |-> "none", base |-> NoBase, cost |-> 0, docs |-> 0, retry |-> 0, failed |-> FALSE]

KbTypeOK ==
    /\ kind \in [Bases -> {"rag", "wiki"}]
    /\ kbStatus \in [Bases -> Statuses]
    /\ count \in [Bases -> Nat]
    /\ docs \in [Bases -> Nat]
    /\ credits \in [Users -> Int]
    /\ req \in [Requests -> Request]
    /\ task \in [Builds -> Build]
    /\ claims \in [Bases -> Nat]
    /\ charges \in [Bases -> Nat]
    /\ spends \in Nat /\ kbFaults \in Nat /\ lostReplies \in Nat

\* create_knowledge_base inserts an empty base with status 'active'.
KbInit ==
    /\ kind \in [Bases -> {"rag", "wiki"}]
    /\ kbStatus = [b \in Bases |-> "active"]
    /\ count = [b \in Bases |-> 0]
    /\ docs = [b \in Bases |-> 0]
    /\ credits = [u \in Users |-> StartCredits]
    /\ req = [q \in Requests |-> Quiet]
    /\ task = [t \in Builds |-> NoBuild]
    /\ claims = [b \in Bases |-> 0]
    /\ charges = [b \in Bases |-> 0]
    /\ spends = 0 /\ kbFaults = 0 /\ lostReplies = 0

ReqGoes(q, step, b, cost) == req' = [req EXCEPT ![q] = [pc |-> step, base |-> b, cost |-> cost]]
Ends(q) == req' = [req EXCEPT ![q] = Quiet]
Undisturbed == kbFaults + lostReplies + spends < KbMaxFaults
KbFault == Undisturbed /\ kbFaults' = kbFaults + 1
LosesReply == Undisturbed /\ lostReplies' = lostReplies + 1

\* An UPDATE ... WHERE id = kb_id: no row, no change.
SetStatus(b, s) == kbStatus' = IF kbStatus[b] = "deleted" THEN kbStatus ELSE [kbStatus EXCEPT ![b] = s]

----------------------------------------------------------------------------
(* Documents.                                                              *)

UploadDocument(q, b) ==
    /\ req[q].pc = "idle"
    /\ kbStatus[b] \notin {"building", "deleted"}
    /\ docs[b] < MaxDocs /\ count[b] < MaxDocs
    /\ ReqGoes(q, "insert", b, 0)
    /\ UNCHANGED <<kind, kbStatus, count, docs, credits, task, claims, charges, spends, kbFaults, lostReplies>>

InsertDocument(q) ==
    /\ req[q].pc = "insert"
    /\ LET b == req[q].base IN
       IF kbStatus[b] = "deleted"
       THEN Ends(q) /\ UNCHANGED docs
       ELSE /\ docs' = [docs EXCEPT ![b] = @ + 1]
            /\ ReqGoes(q, "count", b, 0)
    /\ UNCHANGED <<kind, kbStatus, count, credits, task, claims, charges, spends, kbFaults, lostReplies>>

\* document_count = document_count + 1.
CountDocument(q) ==
    /\ req[q].pc = "count"
    /\ LET b == req[q].base IN
       count' = IF kbStatus[b] = "deleted" THEN count ELSE [count EXCEPT ![b] = @ + 1]
    /\ Ends(q)
    /\ UNCHANGED <<kind, kbStatus, docs, credits, task, claims, charges, spends, kbFaults, lostReplies>>

DeleteDoc(q, b) ==
    /\ req[q].pc = "idle"
    /\ kbStatus[b] # "deleted"
    /\ docs[b] > 0
    /\ docs' = [docs EXCEPT ![b] = @ - 1]
    /\ ReqGoes(q, "recount", b, 0)
    /\ UNCHANGED <<kind, kbStatus, count, credits, task, claims, charges, spends, kbFaults, lostReplies>>

\* document_count = (SELECT COUNT(*) ...).
Recount(q) ==
    /\ req[q].pc = "recount"
    /\ LET b == req[q].base IN
       count' = IF kbStatus[b] = "deleted" THEN count ELSE [count EXCEPT ![b] = docs[b]]
    /\ Ends(q)
    /\ UNCHANGED <<kind, kbStatus, docs, credits, task, claims, charges, spends, kbFaults, lostReplies>>

\* The documents go with the base (ON DELETE CASCADE).
DeleteKnowledgeBase(q, b) ==
    /\ req[q].pc = "idle"
    /\ kbStatus[b] # "deleted"
    /\ kbStatus' = [kbStatus EXCEPT ![b] = "deleted"]
    /\ docs' = [docs EXCEPT ![b] = 0]
    /\ UNCHANGED <<kind, count, credits, req, task, claims, charges, spends, kbFaults, lostReplies>>

----------------------------------------------------------------------------
(* build_knowledge_base.                                                   *)

BuildKnowledgeBase(q, b) ==
    /\ req[q].pc = "idle"
    /\ kbStatus[b] # "deleted"
    /\ count[b] > 0
    /\ ReqGoes(q, "credits", b, CostPerDoc * count[b])
    /\ UNCHANGED <<kind, kbStatus, count, docs, credits, task, claims, charges, spends, kbFaults, lostReplies>>

CheckCredits(q) ==
    /\ req[q].pc = "credits"
    /\ IF credits[OwnerOf[req[q].base]] < req[q].cost
       THEN Ends(q)
       ELSE ReqGoes(q, "claim", req[q].base, req[q].cost)
    /\ UNCHANGED <<kind, kbStatus, count, docs, credits, task, claims, charges, spends, kbFaults, lostReplies>>

\* Every claim that succeeds has a task id left to use.
RoomFor(b) ==
    kind[b] = "rag" =>
        Cardinality({q \in Requests : req[q].pc = "enqueue"})
            < Cardinality({t \in Builds : task[t].pc = "none"})

\* Mutant: the claim lost its AND status <> 'building'.
ClaimBuild_Unguarded(q) ==
    /\ req[q].pc = "claim"
    /\ LET b == req[q].base IN
       IF kbStatus[b] = "deleted"
       THEN Ends(q) /\ UNCHANGED <<kbStatus, claims>>
       ELSE /\ RoomFor(b)
            /\ kbStatus' = [kbStatus EXCEPT ![b] = "building"]
            /\ claims' = [claims EXCEPT ![b] = @ + 1]
            /\ ReqGoes(q, IF kind[b] = "rag" THEN "enqueue" ELSE "wiki", b, req[q].cost)
    /\ UNCHANGED <<kind, count, docs, credits, task, charges, spends, kbFaults, lostReplies>>

\* UPDATE ... SET status = 'building' WHERE id AND status <> 'building'.
ClaimBuild(q) ==
    /\ req[q].pc = "claim"
    /\ LET b == req[q].base IN
       IF kbStatus[b] \in {"building", "deleted"}
       THEN Ends(q) /\ UNCHANGED <<kbStatus, claims>>
       ELSE /\ RoomFor(b)
            /\ kbStatus' = [kbStatus EXCEPT ![b] = "building"]
            /\ claims' = [claims EXCEPT ![b] = @ + 1]
            /\ ReqGoes(q, IF kind[b] = "rag" THEN "enqueue" ELSE "wiki", b, req[q].cost)
    /\ UNCHANGED <<kind, count, docs, credits, task, charges, spends, kbFaults, lostReplies>>

Submits(t, b, cost) ==
    /\ task[t].pc = "none"
    /\ task' = [task EXCEPT ![t] = [pc |-> "queued", base |-> b, cost |-> cost,
                                    docs |-> docs[b], retry |-> 0, failed |-> FALSE]]

EnqueueRagBuild(q, t) ==
    /\ req[q].pc = "enqueue"
    /\ Submits(t, req[q].base, req[q].cost)
    /\ Ends(q)
    /\ UNCHANGED <<kind, kbStatus, count, docs, credits, claims, charges, spends, kbFaults, lostReplies>>

EnqueueFails(q) ==
    /\ req[q].pc = "enqueue"
    /\ KbFault
    /\ ReqGoes(q, "rollback", req[q].base, req[q].cost)
    /\ UNCHANGED <<kind, kbStatus, count, docs, credits, task, claims, charges, spends, lostReplies>>

\* Redis took the task, the reply was lost, and the request rolls back.
EnqueueReplyLost(q, t) ==
    /\ req[q].pc = "enqueue"
    /\ LosesReply
    /\ Submits(t, req[q].base, req[q].cost)
    /\ ReqGoes(q, "rollback", req[q].base, req[q].cost)
    /\ UNCHANGED <<kind, kbStatus, count, docs, credits, claims, charges, spends, kbFaults>>

\* The claim is given back, whatever the status is by now.
Rollback(q) ==
    /\ req[q].pc = "rollback"
    /\ SetStatus(req[q].base, "draft")
    /\ Ends(q)
    /\ UNCHANGED <<kind, count, docs, credits, task, claims, charges, spends, kbFaults, lostReplies>>

Charge(b, cost) ==
    /\ credits' = [credits EXCEPT ![OwnerOf[b]] = @ - cost]
    /\ charges' = [charges EXCEPT ![b] = @ + 1]
    /\ SetStatus(b, "active")

\* The wiki transaction deducts without looking at the balance again.
BuildWiki(q) ==
    /\ req[q].pc = "wiki"
    /\ Charge(req[q].base, req[q].cost)
    /\ Ends(q)
    /\ UNCHANGED <<kind, count, docs, task, claims, spends, kbFaults, lostReplies>>

\* A request ends between two of its statements: process crash, lost database
\* connection, or a failing statement.
RequestDies(q) ==
    /\ req[q].pc # "idle"
    /\ KbFault
    /\ Ends(q)
    /\ UNCHANGED <<kind, kbStatus, count, docs, credits, task, claims, charges, spends, lostReplies>>

\* The user spends credits elsewhere (billing.Manager.Deduct).
Spend(u) ==
    /\ Undisturbed
    /\ spends' = spends + 1
    /\ credits[u] >= 1
    /\ credits' = [credits EXCEPT ![u] = @ - 1]
    /\ UNCHANGED <<kind, kbStatus, count, docs, req, task, claims, charges, kbFaults, lostReplies>>

----------------------------------------------------------------------------
(* _handle_rag_index in the queue worker.                                  *)

TaskMoves(t, step) == task' = [task EXCEPT ![t].pc = step]

\* A task that will not run again keeps nothing but its base.
QueueTaskEnds(t, step) ==
    task' = [task EXCEPT ![t] = [NoBuild EXCEPT !.pc = step, !.base = task[t].base]]
Raise(t) ==
    IF task[t].retry >= KbRetries
    THEN QueueTaskEnds(t, "dead")
    ELSE task' = [task EXCEPT ![t] = [@ EXCEPT !.pc = "queued", !.retry = task[t].retry + 1]]

StartIndex(t) ==
    /\ task[t].pc = "queued"
    /\ LET b == task[t].base IN
       \/ (kbStatus[b] = "deleted" \/ task[t].docs = 0) /\ Raise(t)
       \/ kbStatus[b] = "active" /\ task[t].docs > 0 /\ TaskMoves(t, "ack")
       \/ kbStatus[b] \notin {"deleted", "active"} /\ task[t].docs > 0 /\ TaskMoves(t, "docs")
    /\ UNCHANGED <<kind, kbStatus, count, docs, credits, req, claims, charges, spends, kbFaults, lostReplies>>

\* Documents are built one after the other; a missing or failing one is noted.
BuildDocuments(t) ==
    /\ task[t].pc = "docs"
    /\ \E bad \in BOOLEAN :
           /\ docs[task[t].base] < task[t].docs => bad
           /\ task' = [task EXCEPT ![t].pc = "txn", ![t].failed = bad]
    /\ UNCHANGED <<kind, kbStatus, count, docs, credits, req, claims, charges, spends, kbFaults, lostReplies>>

\* One transaction: mark the base failed, or charge and activate, or roll back
\* and raise when the credits do not suffice.
FinishIndex(t) ==
    /\ task[t].pc = "txn"
    /\ LET b == task[t].base IN
       \/ /\ task[t].failed
          /\ SetStatus(b, "error")
          /\ TaskMoves(t, "ack")
          /\ UNCHANGED <<credits, charges>>
       \/ /\ ~task[t].failed
          /\ credits[OwnerOf[b]] >= task[t].cost
          /\ Charge(b, task[t].cost)
          /\ TaskMoves(t, "ack")
       \/ /\ ~task[t].failed
          /\ credits[OwnerOf[b]] < task[t].cost
          /\ Raise(t)
          /\ UNCHANGED <<kbStatus, credits, charges>>
    /\ UNCHANGED <<kind, count, docs, req, claims, spends, kbFaults, lostReplies>>

AckTask(t) ==
    /\ task[t].pc = "ack"
    /\ QueueTaskEnds(t, "done")
    /\ UNCHANGED <<kind, kbStatus, count, docs, credits, req, claims, charges, spends, kbFaults, lostReplies>>

\* The acknowledgement fails after the work is done: the task is retried.
AckReplyLost(t) ==
    /\ task[t].pc = "ack"
    /\ LosesReply
    /\ Raise(t)
    /\ UNCHANGED <<kind, kbStatus, count, docs, credits, req, claims, charges, spends, kbFaults>>

\* A statement of the handler fails: the exception retries the task.
IndexFails(t) ==
    /\ task[t].pc \in {"docs", "txn"}
    /\ KbFault
    /\ Raise(t)
    /\ UNCHANGED <<kind, kbStatus, count, docs, credits, req, claims, charges, spends, lostReplies>>

\* The worker process dies; nobody claims its pending entry (TaskQueue).
WorkerDies(t) ==
    /\ task[t].pc \in {"docs", "txn", "ack"}
    /\ KbFault
    /\ QueueTaskEnds(t, "gone")
    /\ UNCHANGED <<kind, kbStatus, count, docs, credits, req, claims, charges, spends, lostReplies>>

----------------------------------------------------------------------------
Proceed(q) ==
    \/ InsertDocument(q) \/ CountDocument(q) \/ Recount(q) \/ CheckCredits(q)
    \/ ClaimBuild(q) \/ Rollback(q) \/ BuildWiki(q)
    \/ \E t \in Builds : EnqueueRagBuild(q, t)

Work(t) == StartIndex(t) \/ BuildDocuments(t) \/ FinishIndex(t) \/ AckTask(t)

KbNext ==
    \/ \E q \in Requests :
           \/ Proceed(q) \/ EnqueueFails(q) \/ RequestDies(q)
           \/ \E t \in Builds : EnqueueReplyLost(q, t)
           \/ \E b \in Bases : \/ UploadDocument(q, b) \/ DeleteDoc(q, b)
                               \/ DeleteKnowledgeBase(q, b) \/ BuildKnowledgeBase(q, b)
    \/ \E t \in Builds : Work(t) \/ AckReplyLost(t) \/ IndexFails(t) \/ WorkerDies(t)
    \/ \E u \in Users : Spend(u)

KbSpec == KbInit /\ [][KbNext]_kbVars

----------------------------------------------------------------------------
(* Properties.                                                             *)

Pending(t) == task[t].pc \in {"queued", "docs", "txn"}

\* The claim is exclusive: while replies are not lost, a base has at most one
\* build between its claim and its last transaction, in a request or in the
\* queue, and its status says so.
ClaimIsExclusive ==
    lostReplies = 0 => \A b \in Bases :
        LET Holders == {q \in Requests : req[q].base = b /\ req[q].pc \in {"enqueue", "rollback", "wiki"}}
            Running == {t \in Builds : task[t].base = b /\ Pending(t)}
        IN /\ Cardinality(Holders) + Cardinality(Running) <= 1
           /\ Holders # {} \/ Running # {} => kbStatus[b] \in {"building", "deleted"}

\* A build that was let through is paid for at most once, however often its
\* task is retried and wherever processes die; each lost reply of the queue can
\* add one payment.
ChargedOncePerBuild == \A b \in Bases : charges[b] <= claims[b] + lostReplies

\* RAG builds never drive the user's credits below zero, although the balance
\* was checked long before the charge.  (A wiki build charges what it found
\* affordable earlier, so its user's credits may become negative.)
NeverOverdrawn ==
    \A u \in Users : (\A b \in Bases : OwnerOf[b] = u => kind[b] = "rag") => credits[u] >= 0

\* While no process dies and no statement fails, a base that is building has
\* somebody who will end that: the request that claimed it, or a task that is
\* queued, runs, or lies in the dead-letter stream.  No order of uploads,
\* deletions, spending, lost replies and retries strands it.
BuildingHasABuilder ==
    \A b \in Bases : kbStatus[b] = "building" /\ kbFaults = 0 =>
        \/ \E q \in Requests : req[q].base = b /\ req[q].pc \in {"enqueue", "rollback", "wiki"}
        \/ \E t \in Builds : task[t].base = b /\ (Pending(t) \/ task[t].pc = "dead")

\* Builds of a base are exclusive, paid for once, affordable and never abandoned,
\* whatever requests, uploads, deletions and retries of the queue come between the
\* claim and the last transaction (build_knowledge_base, _handle_rag_index).
BuildsAreSafe ==
    KbTypeOK /\ ClaimIsExclusive /\ ChargedOncePerBuild /\ NeverOverdrawn /\ BuildingHasABuilder
=============================================================================
