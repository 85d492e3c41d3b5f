-------------------------- MODULE MemorySummaries ---------------------------
(***************************************************************************)
(* Summaries of a conversation: the session's book-keeping                 *)
(* (app/memory/session_meta.py), the tasks it queues, the consolidation    *)
(* that turns the messages into a summary (consolidator.py, the handlers   *)
(* of app/queue/worker.py), and the store with its vectors and its cached  *)
(* recalls (summary_store.py).  A summary's text is the messages it was    *)
(* made from, here the number of turns stored.  The turns a session counts *)
(* are the runtime's, the messages are the unified executor's: neither     *)
(* waits for the other.                                                    *)
(***************************************************************************)
EXTENDS Integers, FiniteSets

CONSTANTS
    SumCalls,           \* calls of the store in flight: workers, recalls, deletions
    MaxTurns,           \* bound: turns of the session
    SumOps              \* bound: calls started in a behaviour

ASSUME SummaryAssumption == IsFiniteSet(SumCalls) /\ MaxTurns \in Nat /\ SumOps \in Nat

Texts == 1..MaxTurns
SumIds == 1..SumOps
NoRecall == {0}

VARIABLES
    stored,       \* turns of the session whose messages are in unified_messages
    meta,         \* SessionMeta.turn_count, or -1: no meta
    tasks,        \* kinds of task in the queue
    rows,         \* memory_summaries: text -> id, or 0; unique by content_hash
    vectors,      \* the vector index: entries per id
    recalls,      \* memory:l3:query:*: NoRecall or the ids of the answer
    scall,        \* the calls in flight
    sops,
    sexcused,     \* history: the cached answer was put back by a recall that had read before a change
    sdeleted,     \* history: ids whose row was deleted
    sreported     \* history: ids a consolidation reported

smVars == <<stored, meta, tasks, rows, vectors, recalls, scall, sops, sexcused, sdeleted, sreported>>
sessionVars == <<stored, meta>>

IdleSum == [pc |-> "idle", kind |-> "none", text |-> 0, id |-> 0, got |-> {}]
Rows == {rows[t] : t \in Texts} \ {0}
TextOf(i) == CHOOSE t \in Texts : rows[t] = i

SumTypeOK ==
    /\ stored \in 0..MaxTurns /\ meta \in -1..MaxTurns /\ sops \in 0..SumOps
    /\ rows \in [Texts -> SumIds \union {0}] /\ vectors \in [SumIds -> 0..SumOps]
    /\ recalls = NoRecall \/ recalls \subseteq SumIds
    /\ tasks \subseteq {"memory_consolidate", "memory_rollup"}
    /\ sdeleted \subseteq SumIds /\ sreported \subseteq SumIds

SumInit ==
    /\ stored = 0 /\ meta = -1 /\ tasks = {} /\ rows = [t \in Texts |-> 0]
    /\ vectors = [i \in SumIds |-> 0] /\ recalls = NoRecall /\ scall = [c \in SumCalls |-> IdleSum] /\ sops = 0
    /\ sexcused = FALSE /\ sdeleted = {} /\ sreported = {}

storeVars == <<rows, vectors, recalls, scall, sops, sexcused, sdeleted, sreported>>

----------------------------------------------------------------------------
(* The session                                                             *)

\* on_session_start: a fresh meta, over one that is there.
SessionStart == meta' = 0 /\ UNCHANGED <<stored, tasks, storeVars>>

\* on_turn_complete counts the turn and queues a consolidation, or fails to, with a warning;
\* without a meta it does nothing.
TurnComplete ==
    /\ meta \in 0..(MaxTurns - 1) /\ meta' = meta + 1
    /\ tasks' \in {tasks, tasks \union {"memory_consolidate"}}
    /\ UNCHANGED <<stored, storeVars>>

\* The messages of a turn are stored (by the unified executor, for a session of its own id).
StoreMessages == stored < MaxTurns /\ stored' = stored + 1 /\ UNCHANGED <<meta, tasks, storeVars>>

\* on_session_end: a rollup is queued and the meta dropped.
SessionEnd ==
    /\ meta # -1 /\ meta' = -1
    /\ tasks' \in {tasks, tasks \union {"memory_rollup"}}
    /\ UNCHANGED <<stored, storeVars>>

\* SessionMetaStore.get, _cleanup_expired: fifteen idle minutes, or a restart of the engine.
MetaExpires == meta # -1 /\ meta' = -1 /\ UNCHANGED <<stored, tasks, storeVars>>

----------------------------------------------------------------------------
(* Calls begin.                                                            *)

Starts(c, r) == scall[c].pc = "idle" /\ sops < SumOps /\ sops' = sops + 1 /\ scall' = [scall EXCEPT ![c] = r]
quietStore == <<rows, vectors, recalls, sexcused, sdeleted, sreported>>

\* _handle_memory_consolidate, _handle_memory_rollup: all the messages there are now; with
\* none the task is done. The queue may deliver the task again.
HandleTask(c) == \E t \in tasks :
    /\ tasks' \in {tasks, tasks \ {t}}
    /\ Starts(c, IF stored = 0 THEN IdleSum
                 ELSE [IdleSum EXCEPT !.pc = "hash", !.kind = "consolidate", !.text = stored])
    /\ UNCHANGED <<sessionVars, quietStore>>

\* recall, search and memory_search; delete_summary; MemoryService.save_summary, which gives no range.
Recall(c) ==
    Starts(c, [IdleSum EXCEPT !.pc = "look", !.kind = "recall"]) /\ UNCHANGED <<sessionVars, tasks, quietStore>>
Delete(c) ==
    /\ \E i \in Rows : Starts(c, [IdleSum EXCEPT !.pc = "del", !.kind = "delete", !.id = i])
    /\ UNCHANGED <<sessionVars, tasks, quietStore>>
Save(c) == /\ stored > 0
           /\ Starts(c, [IdleSum EXCEPT !.pc = "insert", !.kind = "save", !.text = stored])
           /\ UNCHANGED <<sessionVars, tasks, quietStore>>

----------------------------------------------------------------------------
(* Consolidator.consolidate and SummaryStore.save_summary                  *)

Moves(c, r) == scall' = [scall EXCEPT ![c] = r] /\ UNCHANGED <<sessionVars, tasks, sops>>
At(c, pc) == scall[c].pc = pc

\* consolidate: the same text summarised before is reported as it is (near duplicates are
\* never found: the rows carry no embedding); a failed look counts as not found.
LookupHash(c) ==
    LET r == scall[c]
        i == rows[r.text]
    IN /\ At(c, "hash")
       /\ \/ i # 0 /\ Moves(c, IdleSum) /\ sreported' = sreported \union {i}
          \/ Moves(c, [r EXCEPT !.pc = "insert"]) /\ UNCHANGED sreported
       /\ UNCHANGED <<rows, vectors, recalls, sexcused, sdeleted>>

\* save_summary: INSERT ... ON CONFLICT DO NOTHING; a conflict looks for the row that is there.
\* A row's id is fresh (here: a number no row had).
InsertRow(c) ==
    LET r == scall[c]
        i == CHOOSE n \in SumIds : n \notin Rows \union sdeleted
    IN /\ At(c, "insert")
       /\ IF rows[r.text] = 0
          THEN /\ rows' = [rows EXCEPT ![r.text] = i]
               /\ Moves(c, [r EXCEPT !.pc = "vector", !.id = i])
          ELSE Moves(c, [r EXCEPT !.pc = "exist"]) /\ UNCHANGED rows
       /\ UNCHANGED <<vectors, recalls, sexcused, sdeleted, sreported>>

\* save_summary: the row that was in the way may be gone by now, then nothing was saved.
FindExisting(c) ==
    LET r == scall[c]
        i == rows[r.text]
    IN /\ At(c, "exist")
       /\ Moves(c, IF i = 0 \/ r.kind = "save" THEN IdleSum ELSE [r EXCEPT !.pc = "check", !.id = i])
       /\ UNCHANGED quietStore

\* _milvus_insert: fail-soft, and skipped without an embedding.
InsertVector(c) ==
    LET r == scall[c] IN
    /\ At(c, "vector")
    /\ vectors' \in {vectors, [vectors EXCEPT ![r.id] = @ + 1]}
    /\ Moves(c, [r EXCEPT !.pc = "drop"])
    /\ UNCHANGED <<rows, recalls, sexcused, sdeleted, sreported>>

\* _invalidate_query_cache: every cached answer goes; a Redis error is a warning.
DropRecalls(c) ==
    LET r == scall[c] IN
    /\ At(c, "drop")
    /\ \/ recalls' = NoRecall /\ sexcused' = FALSE
       \/ recalls' = recalls /\ sexcused' = (recalls # NoRecall)
    /\ Moves(c, IF r.kind = "consolidate" THEN [r EXCEPT !.pc = "check"] ELSE IdleSum)
    /\ UNCHANGED <<rows, vectors, sdeleted, sreported>>

\* SummaryStore.insert: the row is read again; a missing one is an error.  Its own insertion of
\* a vector needs an embedding, which no caller gives: Consolidator.consolidate passes the one
\* of its embedder, and the worker's Consolidator has none.
CheckRow(c) ==
    LET i == scall[c].id IN
    /\ At(c, "check") /\ Moves(c, IdleSum)
    /\ sreported' = IF i \in Rows THEN sreported \union {i} ELSE sreported
    /\ UNCHANGED <<rows, vectors, recalls, sexcused, sdeleted>>

\* delete_summary: the row goes, its vector stays.
DeleteRow(c) ==
    LET r == scall[c] IN
    /\ At(c, "del")
    /\ IF r.id \in Rows
       THEN /\ rows' = [rows EXCEPT ![TextOf(r.id)] = 0]
            /\ sdeleted' = sdeleted \union {r.id} /\ Moves(c, [r EXCEPT !.pc = "drop"])
       ELSE Moves(c, IdleSum) /\ UNCHANGED <<rows, sdeleted>>
    /\ UNCHANGED <<vectors, recalls, sexcused, sreported>>

----------------------------------------------------------------------------
(* SummaryStore.recall                                                     *)

\* The cached answer, else a search of the vectors, or of the rows without an embedding;
\* ranking and the token budget keep some of what was found.
Search(c) ==
    /\ At(c, "look")
    /\ IF recalls # NoRecall THEN Moves(c, IdleSum)
       ELSE \E found \in {Rows, {i \in SumIds : vectors[i] > 0}} : \E got \in SUBSET found :
               Moves(c, IF got = {} THEN IdleSum ELSE [scall[c] EXCEPT !.pc = "keep", !.got = got])
    /\ UNCHANGED quietStore

\* _set_query_cache
KeepAnswer(c) ==
    LET got == scall[c].got IN
    /\ At(c, "keep") /\ Moves(c, IdleSum) /\ recalls' = got
    /\ sexcused' = \E i \in got : i \notin Rows /\ vectors[i] = 0
    /\ UNCHANGED <<rows, vectors, sdeleted, sreported>>

\* The cached answer's five minutes are over.
AnswerExpires == /\ recalls # NoRecall /\ recalls' = NoRecall /\ sexcused' = FALSE
                 /\ UNCHANGED <<sessionVars, tasks, rows, vectors, scall, sops, sdeleted, sreported>>

SummariesNext ==
    \/ SessionStart \/ TurnComplete \/ StoreMessages \/ SessionEnd \/ MetaExpires \/ AnswerExpires
    \/ \E c \in SumCalls :
          \/ HandleTask(c) \/ Recall(c) \/ Delete(c) \/ Save(c) \/ LookupHash(c) \/ InsertRow(c) \/ FindExisting(c)
          \/ InsertVector(c) \/ DropRecalls(c) \/ CheckRow(c) \/ DeleteRow(c) \/ Search(c) \/ KeepAnswer(c)

----------------------------------------------------------------------------
(* Properties                                                              *)

\* However many workers summarise the same messages, and however often a task is delivered, a
\* summary has one row and at most one vector (ON CONFLICT in save_summary).
VectorsOnce == \A i \in SumIds : vectors[i] <= 1

\* A deleted summary is in a cached answer only through its vector, which nobody deletes, while
\* its deletion is at work, or after a recall put back what it had read (delete_summary,
\* _set_query_cache).
GoneFromRecall ==
    recalls # NoRecall =>
        \A i \in recalls : i \in Rows \/ vectors[i] > 0 \/ sexcused \/ \E c \in SumCalls : At(c, "drop") /\ scall[c].kind = "delete"

\* A consolidation reports a row that is there when it does, though deletions run between its
\* insert and its answer (SummaryStore.insert reads the row again).
ReportedWasThere == [][sreported' \ sreported \subseteq Rows]_smVars
=============================================================================
