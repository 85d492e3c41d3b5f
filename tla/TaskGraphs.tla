----------------------------- MODULE TaskGraphs -----------------------------
(***************************************************************************)
(* The orders in which the engine executes graphs: the topological sort of *)
(* workflow nodes (app/workflow/engine.py) and the waves of the agent hub  *)
(* (app/agent/collaboration.py).                                           *)
(*                                                                         *)
(* Nodes are 1..GraphNodes in the order of the graph's list; 0 is an id    *)
(* that edges name and the list lacks.  Edges are pairs in their order.    *)
(***************************************************************************)
EXTENDS Integers, Sequences, SequencesExt, FiniteSets, FiniteSetsExt

CONSTANTS
    GraphNodes,
    MaxEdges            \* bound: edges of the graphs that are tried

ASSUME GraphAssumption == GraphNodes \in Nat \ {0} /\ MaxEdges \in Nat

VARIABLE edges
tgVars == <<edges>>

GraphNode == 1..GraphNodes

----------------------------------------------------------------------------
InDegree(es, n) == Cardinality({i \in 1..Len(es) : es[i][2] = n})
\* The nodes of a set in the list's order.
ListOf(S) ==
    LET list[k \in 0..GraphNodes] ==
            IF k = 0 THEN <<>> ELSE IF k \in S THEN Append(list[k - 1], k) ELSE list[k - 1]
    IN list[GraphNodes]

\* Mutant: a target is queued at the first edge.
Lowered_AtOnce(st, n) ==
    [st EXCEPT !.degree[n] = @ - 1,
               !.queue = IF n \in GraphNode /\ n \notin Range(@) \union Range(st.out) THEN Append(@, n) ELSE @]
\* One edge of the node that was taken: a target without open edges is queued.
Lowered(st, n) ==
    [degree |-> [st.degree EXCEPT ![n] = @ - 1], out |-> st.out,
     queue |-> IF st.degree[n] = 1 /\ n \in GraphNode THEN Append(st.queue, n) ELSE st.queue]

\* A node leaves the queue, and its edges are gone through in their order.
Taken(es, st) ==
    LET lower[k \in 0..Len(es)] ==
            IF k = 0 THEN [degree |-> st.degree, queue |-> Tail(st.queue), out |-> Append(st.out, Head(st.queue))]
            ELSE IF es[k][1] = Head(st.queue) THEN Lowered(lower[k - 1], es[k][2]) ELSE lower[k - 1]
    IN lower[Len(es)]
KahnOrder(es) ==
    LET round[k \in 0..GraphNodes] ==
            IF k = 0
            THEN [degree |-> [n \in 0..GraphNodes |-> InDegree(es, n)],
                  queue |-> ListOf({n \in GraphNode : InDegree(es, n) = 0}), out |-> <<>>]
            ELSE LET st == round[k - 1] IN IF st.queue = <<>> THEN st ELSE Taken(es, st)
    IN round[GraphNodes].out

\* _topological_sort: nodes that no round reached come last, in the list's order.
TopologicalSort(es) == KahnOrder(es) \o ListOf(GraphNode \ Range(KahnOrder(es)))

\* _topological_waves: what remains of a cycle is one last wave.
DependsOn(es, n) == {es[i][1] : i \in {j \in 1..Len(es) : es[j][2] = n}}
ReadyIn(es, done) == {n \in GraphNode \ done : DependsOn(es, n) \subseteq done}
TopologicalWaves(es) ==
    LET wave[k \in 0..GraphNodes] ==
            IF k = 0 THEN <<>>
            ELSE LET before == wave[k - 1]
                     done == UNION Range(before)
                     ready == ReadyIn(es, done) IN
                 IF done = GraphNode THEN before
                 ELSE Append(before, IF ready = {} THEN GraphNode \ done ELSE ready)
    IN wave[GraphNodes]

\* _prev_output: the last predecessor that has an output.
PrevOutput(es, outputs, n) ==
    LET froms == {i \in 1..Len(es) : es[i][2] = n /\ es[i][1] \in outputs} IN
    IF froms = {} THEN 0 ELSE es[Max(froms)][1]

----------------------------------------------------------------------------
TgInit == edges = <<>>
TgNext == Len(edges) < MaxEdges
    /\ \E e \in (0..GraphNodes) \X (0..GraphNodes) : edges' = Append(edges, e)

----------------------------------------------------------------------------
\* The nodes that can run: those no cycle and no unknown node leads to, the least
\* set closed under the removal of nodes with a dependency outside it.
Runnable ==
    LET sound == {S \in SUBSET GraphNode : \A n \in S : DependsOn(edges, n) \subseteq S}
        \* a set that a rank function orders has no cycle
        ranked == {S \in sound : \E rank \in [S -> 1..GraphNodes] :
                      \A n \in S : \A m \in DependsOn(edges, n) : rank[m] < rank[n]}
    IN UNION ranked
PlaceOf(n) == LET s == TopologicalSort(edges) IN CHOOSE k \in 1..Len(s) : s[k] = n
\* Every node is executed exactly once; a node that neither a cycle nor a dangling
\* edge leads to comes after all it depends on and before every node one does, and
\* finds the output of one of its predecessors.
SortIsTopological == edges # <<>> =>
    LET s == TopologicalSort(edges) IN
    /\ Len(s) = GraphNodes /\ Range(s) = GraphNode
    /\ \A n \in Runnable :
        /\ \A m \in DependsOn(edges, n) : PlaceOf(m) < PlaceOf(n)
        /\ \A m \in GraphNode \ Runnable : PlaceOf(n) < PlaceOf(m)
        /\ DependsOn(edges, n) # {} =>
            PrevOutput(edges, {m \in GraphNode : PlaceOf(m) < PlaceOf(n)}, n) \in DependsOn(edges, n)

WaveOf(n) == LET w == TopologicalWaves(edges) IN CHOOSE k \in 1..Len(w) : n \in w[k]
\* The hub's waves hold every subtask once; a runnable one is in the first wave after
\* its dependencies, and all that are behind a cycle or an unknown dependency share
\* the last wave, whatever they depend on.
WavesAreLayers == edges # <<>> =>
    LET w == TopologicalWaves(edges) IN
    /\ \A n \in GraphNode : Cardinality({k \in 1..Len(w) : n \in w[k]}) = 1
    /\ \A n \in Runnable : WaveOf(n) = 1 + Max({0} \union {WaveOf(m) : m \in DependsOn(edges, n)})
    /\ \A n \in GraphNode \ Runnable : WaveOf(n) = Len(w)
=============================================================================
