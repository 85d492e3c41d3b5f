---------------------------- MODULE WorkflowRuns ----------------------------
(***************************************************************************)
(* Workflow instances: submitted over HTTP, executed by a background task, *)
(* kept in a bounded table in memory and in a row (app/api/workflows.py,   *)
(* app/workflow/engine.py); and the traced engine with its edit sessions   *)
(* (app/workflow/tracing_engine.py).  The order of nodes is in TaskGraphs; *)
(* what a node computes is left out but for whether it raises.             *)
(***************************************************************************)
EXTENDS Integers, Sequences, SequencesExt, FiniteSets

CONSTANTS
    Instances, MaxInstances,    \* _MAX_INSTANCES
    GraphSize,                  \* nodes of the graph
    WfCrashes,                  \* bound: restarts of the engine
    WfTenants, WfEditors        \* the tenants of traced runs; edit sessions

ASSUME WorkflowAssumption ==
    /\ MaxInstances \in Nat \ {0} /\ GraphSize \in Nat \ {0} /\ WfCrashes \in Nat
    /\ IsFiniteSet(WfEditors)

VARIABLES
    graphRow,     \* workflow_graphs has the graph
    wfTask,       \* the background tasks: place, nodes to run, status, whether the run took over 24 hours
    wfTable,      \* _instances in the order of _instance_order
    wfRow,        \* workflow_instances
    told,         \* what the last poll of an instance was told
    excused,      \* history: a crash or a failed write explains what is missing
    wfCrashes,
    traced,       \* a traced run of each tenant: nodes started, results, edits applied
    edits         \* _edit_sessions: in the order of creation

wfVars == <<graphRow, wfTask, wfTable, wfRow, told, excused, wfCrashes, traced, edits>>
runVars == <<graphRow, wfTask, wfTable, wfRow, told, excused, wfCrashes>>

Final == {"completed", "error"}
WfTypeOK ==
    /\ graphRow \in BOOLEAN /\ excused \subseteq Instances /\ wfCrashes \in 0..WfCrashes
    /\ wfTask \in [Instances -> [pc: {"none", "ready", "running", "ended", "stored", "lost"},
                                 left: 0..GraphSize, status: {"running"} \union Final, late: BOOLEAN]]
    /\ wfRow \in [Instances -> {"none", "running"} \union Final]
    /\ told \in [Instances -> {"none", "running"} \union Final]
    /\ wfTable \in Seq(Instances) /\ Len(wfTable) <= MaxInstances
    /\ \A t \in WfTenants : traced[t].done \in 0..GraphSize /\ Len(traced[t].results) <= traced[t].done
    /\ \A k \in 1..Len(edits) : edits[k].id \in WfEditors /\ edits[k].tenant \in WfTenants

WfInit ==
    /\ graphRow = FALSE
    /\ wfTask = [i \in Instances |-> [pc |-> "none", left |-> 0, status |-> "running", late |-> FALSE]]
    /\ wfTable = <<>> /\ wfRow = [i \in Instances |-> "none"] /\ told = [i \in Instances |-> "none"]
    /\ excused = {} /\ wfCrashes = 0
    /\ traced = [t \in WfTenants |-> [done |-> 0, started |-> FALSE, results |-> <<>>, applied |-> {}]]
    /\ edits = <<>>

----------------------------------------------------------------------------
\* create_graph and delete_graph: one statement each.
SaveGraph ==
    /\ graphRow' = ~graphRow
    /\ UNCHANGED <<wfTask, wfTable, wfRow, told, excused, wfCrashes, traced, edits>>

\* execute_graph: the stored graph, or the nodes in the request; the row, which may
\* fail to be written, and the task.
ExecuteGraph(i) ==
    /\ wfTask[i].pc = "none"
    /\ \E size \in (IF graphRow THEN {GraphSize} ELSE {0, 1}) :
        wfTask' = [wfTask EXCEPT ![i].pc = "ready", ![i].left = size]
    /\ \/ wfRow' = [wfRow EXCEPT ![i] = "running"] /\ UNCHANGED excused
       \/ excused' = excused \union {i} /\ UNCHANGED wfRow
    /\ UNCHANGED <<graphRow, wfTable, told, wfCrashes, traced, edits>>

\* The oldest instance leaves a full table, running or not.
Inserted(i) == LET all == Append(wfTable, i) IN IF Len(all) > MaxInstances THEN Tail(all) ELSE all
StartInstance(i) ==
    /\ wfTask[i].pc = "ready"
    /\ wfTable' = Inserted(i)
    /\ wfTask' = [wfTask EXCEPT ![i].pc = "running"]
    /\ UNCHANGED <<graphRow, wfRow, told, excused, wfCrashes, traced, edits>>

\* One node: its output, which may be the text of an error, or an exception, which
\* ends the run.  Nothing limits how long a run takes.
RunNode(i) ==
    /\ wfTask[i].pc = "running"
    /\ \/ wfTask[i].left > 0 /\ wfTask' = [wfTask EXCEPT ![i].left = @ - 1]
       \/ \E late \in BOOLEAN :
            wfTask' = [wfTask EXCEPT ![i].pc = "ended", ![i].late = late,
                                     ![i].status = IF wfTask[i].left = 0 THEN "completed" ELSE "error"]
    /\ UNCHANGED <<graphRow, wfTable, wfRow, told, excused, wfCrashes, traced, edits>>

\* The finally of run_workflow calls _persist_workflow_instance, which is defined
\* nowhere, for a run of more than 24 hours: _run_and_store catches the NameError.
StoredStatus(i) == IF wfTask[i].status = "completed" /\ ~wfTask[i].late THEN "completed" ELSE "error"
\* _run_and_store: the final status goes to the row, if it is there and the
\* statement succeeds.
StoreResult(i) ==
    /\ wfTask[i].pc = "ended" /\ wfTask' = [wfTask EXCEPT ![i].pc = "stored"]
    /\ \/ /\ wfRow' = [wfRow EXCEPT ![i] = IF @ = "none" THEN @ ELSE StoredStatus(i)]
          /\ UNCHANGED excused
       \/ excused' = excused \union {i} /\ UNCHANGED wfRow
    /\ UNCHANGED <<graphRow, wfTable, told, wfCrashes, traced, edits>>

\* The process restarts: the table and the tasks are gone.
Restarts ==
    /\ wfCrashes < WfCrashes /\ wfCrashes' = wfCrashes + 1
    /\ LET cut == {i \in Instances : wfTask[i].pc \in {"ready", "running", "ended"}} IN
        /\ wfTask' = [i \in Instances |-> IF i \in cut THEN [wfTask[i] EXCEPT !.pc = "lost"] ELSE wfTask[i]]
        /\ excused' = excused \union cut
    /\ wfTable' = <<>>
    /\ UNCHANGED <<graphRow, wfRow, told, traced, edits>>

\* workflow_status: memory first, then the row.
Status(i) == IF i \in Range(wfTable) THEN wfTask[i].status ELSE wfRow[i]
Poll(i) ==
    /\ wfTask[i].pc # "none" /\ told[i] # Status(i)
    /\ told' = [told EXCEPT ![i] = Status(i)]
    /\ UNCHANGED <<graphRow, wfTask, wfTable, wfRow, excused, wfCrashes, traced, edits>>

----------------------------------------------------------------------------
\* create_edit_session, with the command its owner adds for a node.
CreateEdit(t) ==
    /\ Len(edits) < Cardinality(WfEditors)
    /\ \E id \in WfEditors, n \in 1..GraphSize :
        /\ \A u \in WfTenants : id \notin {a[1] : a \in traced[u].applied}
        /\ \A k \in 1..Len(edits) : edits[k].id # id
        /\ edits' = Append(edits, [id |-> id, tenant |-> t, node |-> n, live |-> TRUE])
    /\ UNCHANGED <<runVars, traced>>

\* The hour of a session is over; get_edit_session removes it when somebody asks.
EditExpires(k) ==
    /\ k <= Len(edits) /\ edits[k].live
    /\ edits' = [edits EXCEPT ![k].live = FALSE]
    /\ UNCHANGED <<runVars, traced>>

\* _check_edit_commands: live sessions of the tenant's run.
MatchingEdits(t) == {k \in 1..Len(edits) : edits[k].live /\ edits[k].tenant = t}
\* A node begins: the first session that matches is taken out, and its command
\* applied if it is for this node.
TracedNodeStart(t) ==
    LET n == traced[t].done + 1
        found == MatchingEdits(t)
        k == CHOOSE k \in found : \A j \in found : k <= j IN
    /\ n <= GraphSize /\ ~traced[t].started
    /\ IF found = {} THEN traced' = [traced EXCEPT ![t].started = TRUE] /\ UNCHANGED edits
       ELSE /\ traced' = [traced EXCEPT ![t].started = TRUE,
                    ![t].applied = @ \union IF edits[k].node = n THEN {<<edits[k].id, n, edits[k].tenant>>} ELSE {}]
            /\ edits' = RemoveAt(edits, k)
    /\ UNCHANGED runVars

\* The node's result, an error too, is recorded, and the run goes on.
TracedNodeEnd(t) ==
    /\ traced[t].started
    /\ \E r \in {"completed", "error"} :
        traced' = [traced EXCEPT ![t].started = FALSE, ![t].done = @ + 1, ![t].results = Append(@, r)]
    /\ UNCHANGED <<runVars, edits>>

InstanceNext == \/ SaveGraph \/ Restarts
                \/ \E i \in Instances : ExecuteGraph(i) \/ StartInstance(i) \/ RunNode(i) \/ StoreResult(i) \/ Poll(i)
TracedNext == \/ \E t \in WfTenants : CreateEdit(t) \/ TracedNodeStart(t) \/ TracedNodeEnd(t)
              \/ \E k \in 1..Cardinality(WfEditors) : EditExpires(k)

\* The event loop runs the tasks; clients poll.
WfFairness == \A i \in Instances :
    WF_wfVars(StartInstance(i) \/ RunNode(i) \/ StoreResult(i)) /\ WF_wfVars(Poll(i))

----------------------------------------------------------------------------
\* Nobody is told an outcome that the instance did not have, from memory or from the
\* row, before or after restarts and evictions, but for the row of a run of more than
\* 24 hours: it says error, whatever became of the instance, and so contradicts what
\* the table said before the instance left it.
OutcomeOf(i, v) == wfTask[i].status \in Final /\ (v = wfTask[i].status \/ (wfTask[i].late /\ v = "error"))
OutcomesAreTrue == \A i \in Instances :
    /\ told[i] \in Final => OutcomeOf(i, told[i])
    /\ Status(i) \in Final => OutcomeOf(i, Status(i))

\* A client that keeps polling is told the outcome in the end and nothing else from
\* then on, although instances leave the table; only a restart during the run or a
\* failed write is an excuse.
InstancesSettle == \A i \in Instances :
    wfTask[i].pc = "ready" ~> (i \in excused \/ [](told[i] \in Final \/ i \in excused))

\* A traced run applies only sessions of its own tenant, each for the node it names
\* and at most once, and every node it passed has a result, failed or not.
EditsStayInTheirRun == \A t \in WfTenants :
    /\ \A a \in traced[t].applied : a[3] = t /\ \A b \in traced[t].applied : a[1] = b[1] => a = b
    /\ Len(traced[t].results) = traced[t].done
=============================================================================
