------------------------------ MODULE DocIndex ------------------------------
(***************************************************************************)
(* The vectors of one document.  RAGBuilder (app/rag/builder.py) parses,   *)
(* chunks, embeds and stores it for the queue's rag_index and embed_batch  *)
(* tasks and for the streaming endpoint, in Milvus or in pgvector;         *)
(* RAGRetriever (app/rag/retriever.py) keeps an index of its own, which is *)
(* the one that knowledge-base searches read.  Each statement and each     *)
(* call handed to a thread is a step; a cancelled coroutine does not take  *)
(* its call back from the thread.                                          *)
(***************************************************************************)
EXTENDS Integers, FiniteSets

CONSTANTS
    Indexers,      \* builds of the document, each made once
    TextSizes,     \* lengths of the parsed text
    ChunkSize, ChunkOverlap

\* The settings 1000 and 200; _chunk_text_simple would not end otherwise.
ASSUME ChunkAssumption ==
    ChunkSize \in Nat \ {0} /\ ChunkOverlap \in Nat /\ ChunkOverlap < ChunkSize /\ TextSizes \subseteq Nat \ {0}

VARIABLES
    ixRows,    \* each index: the vectors of the document
    ixEmptied, \* history: what happened last to Milvus's vectors is a deletion
    ixBuild,   \* each build
    ixDoc      \* knowledge_documents.status, or "none" when the row is gone

ixVars == <<ixRows, ixEmptied, ixBuild, ixDoc>>

----------------------------------------------------------------------------
(* Chunks, as half-open ranges of characters.                              *)

Chunk(start, n) == [from |-> start, to |-> IF start + ChunkSize < n THEN start + ChunkSize ELSE n]

\* The next chunk starts ChunkOverlap before the end of the last one, which is
\* behind the end of the text when that one was cut short.
SimpleChunks(n) ==
    {Chunk(s, n) : s \in {k * (ChunkSize - ChunkOverlap) : k \in 0..n} \cap 0..(n - 1)}

\* Stops with the chunk that reaches the end of the text.
SplitText(n) ==
    LET step == ChunkSize - ChunkOverlap IN
    {Chunk(s, n) : s \in {x \in {k * step : k \in 0..n} \cap 0..(n - 1) : x = 0 \/ x - step + ChunkSize < n}}

ChunksOf(kind, n) == IF kind = "index" THEN SplitText(n) ELSE SimpleChunks(n)

----------------------------------------------------------------------------
Stores == {"milvus", "pgvector", "shared"}
\* A rag_index task; a stream or an embed_batch task, which do not touch the
\* document's row; RAGRetriever.index_document.
Kinds == {"task", "stream", "index"}
StoresFor(kind) == IF kind = "index" THEN {"shared"} ELSE {"milvus", "pgvector"}
Over == {"idle", "complete", "failed", "gone"}
Steps == Over \union {"parse", "embed", "clear", "insert", "flush", "report", "error", "late", "lateclear"}

Rest == [pc |-> "idle", kind |-> "task", db |-> "milvus", size |-> 0, got |-> {},
         seen |-> {}, alone |-> FALSE]

InFlight == {b \in Indexers : ixBuild[b].pc \notin Over}
RowsOf(b) == {[by |-> b, chunk |-> c] : c \in ixBuild[b].got}

\* What a query of the store can answer, if it asks for enough and all scores
\* reach its threshold.
Found(db) == {r.chunk : r \in ixRows[db]}

DocTypeOK ==
    /\ ixDoc \in {"pending", "processing", "completed", "error", "none"} /\ ixEmptied \in BOOLEAN
    /\ \A b \in Indexers : /\ ixBuild[b].pc \in Steps /\ ixBuild[b].kind \in Kinds
                           /\ ixBuild[b].db \in StoresFor(ixBuild[b].kind)
                           /\ ixBuild[b].size \in TextSizes \union {0}
                           /\ ixBuild[b].got \subseteq ChunksOf(ixBuild[b].kind, ixBuild[b].size)
    /\ \A db \in Stores : \A r \in ixRows[db] : r.by \in Indexers /\ r.chunk \in ixBuild[r.by].got

DocInit ==
    /\ ixRows = [db \in Stores |-> {}] /\ ixEmptied = FALSE
    /\ ixBuild = [b \in Indexers |-> Rest]
    /\ ixDoc = "pending"

Is(b, step) == ixBuild[b].pc = step
Goes(b, step) == ixBuild' = [ixBuild EXCEPT ![b].pc = step]
IsTask(b) == ixBuild[b].kind = "task"
\* An UPDATE of the document's row, if there is one.
Marks(s) == ixDoc' = IF ixDoc = "none" THEN "none" ELSE s

\* From here on, no build that began earlier has been alone.
BeginBuild(b, kind, db) ==
    /\ Is(b, "idle")
    /\ db \in StoresFor(kind)
    /\ ixBuild' = [x \in Indexers |->
           IF x = b THEN [Rest EXCEPT !.kind = kind, !.db = db, !.alone = InFlight = {},
                              !.pc = IF kind = "task" /\ ixDoc = "none" THEN "failed" ELSE "parse"]
                    ELSE [ixBuild[x] EXCEPT !.alone = FALSE]]
    /\ ixDoc' = IF kind = "task" /\ ixDoc # "none" THEN "processing" ELSE ixDoc
    /\ UNCHANGED <<ixRows, ixEmptied>>

\* An empty text, or one no parser reads, ends the build.
Parse(b) ==
    /\ Is(b, "parse")
    /\ \/ \E n \in TextSizes : ixBuild' = [ixBuild EXCEPT ![b].pc = "embed", ![b].size = n]
       \/ Goes(b, "error")
    /\ UNCHANGED <<ixRows, ixEmptied, ixDoc>>

\* Chunks whose embedding fails are left out; index_document gives up instead.
ComputeEmbeddings(b) ==
    /\ Is(b, "embed")
    /\ LET all == ChunksOf(ixBuild[b].kind, ixBuild[b].size) IN
       \E got \in IF ixBuild[b].kind = "index" THEN {{}, all} ELSE SUBSET all :
           ixBuild' = [ixBuild EXCEPT ![b].got = got,
                           ![b].pc = IF got = {} THEN "error"
                                     ELSE IF ixBuild[b].db = "shared" THEN "insert" ELSE "clear"]
    /\ UNCHANGED <<ixRows, ixEmptied, ixDoc>>

\* Mutant: the vectors of an earlier build stay, as _store_with_interface leaves them.
ClearMilvus_Keeps(b) ==
    /\ Is(b, "clear") /\ ixBuild[b].db = "milvus"
    /\ Goes(b, "insert")
    /\ UNCHANGED <<ixRows, ixEmptied, ixDoc>>

\* collection.delete of the document's vectors, in a thread.
ClearMilvus(b) ==
    /\ ixBuild[b].pc \in {"clear", "lateclear"} /\ ixBuild[b].db = "milvus"
    /\ ixRows' = [ixRows EXCEPT !["milvus"] = {}] /\ ixEmptied' = TRUE
    /\ Goes(b, IF Is(b, "clear") THEN "insert" ELSE "gone")
    /\ UNCHANGED ixDoc

\* Mutant: no transaction is around DELETE and INSERT.
ClearPg_Autocommit(b) ==
    /\ Is(b, "clear") /\ ixBuild[b].db = "pgvector"
    /\ ixRows' = [ixRows EXCEPT !["pgvector"] = {}]
    /\ ixBuild' = [ixBuild EXCEPT ![b].pc = "insert"]
    /\ UNCHANGED <<ixEmptied, ixDoc>>

\* The DELETE of the transaction: what is committed now will be gone with it,
\* whatever others commit meanwhile.
ClearPg(b) ==
    /\ Is(b, "clear") /\ ixBuild[b].db = "pgvector"
    /\ ixBuild' = [ixBuild EXCEPT ![b].pc = "insert", ![b].seen = ixRows["pgvector"]]
    /\ UNCHANGED <<ixRows, ixEmptied, ixDoc>>

\* The rows of the build are there at once.
Insert(b) ==
    /\ ixBuild[b].pc \in {"insert", "late"}
    /\ ixRows' = [ixRows EXCEPT ![ixBuild[b].db] = (@ \ ixBuild[b].seen) \union RowsOf(b)]
    /\ ixEmptied' = (ixEmptied /\ ixBuild[b].db # "milvus")
    /\ Goes(b, IF Is(b, "late") THEN "gone" ELSE IF ixBuild[b].db = "pgvector" THEN "report" ELSE "flush")
    /\ UNCHANGED ixDoc

Flush(b) == Is(b, "flush") /\ Goes(b, "report") /\ UNCHANGED <<ixRows, ixEmptied, ixDoc>>

\* A database call raises: the transaction is rolled back, Milvus keeps what it has.
StoreFails(b) ==
    /\ ixBuild[b].pc \in {"clear", "insert", "flush"}
    /\ Goes(b, "error")
    /\ UNCHANGED <<ixRows, ixEmptied, ixDoc>>

\* The "complete" event; the worker then marks the document.
Completes(b) ==
    /\ Is(b, "report")
    /\ Goes(b, "complete")
    /\ IF IsTask(b) THEN Marks("completed") ELSE UNCHANGED ixDoc
    /\ UNCHANGED <<ixRows, ixEmptied>>

\* The "error" event, which only the worker writes down.
Errs(b) ==
    /\ Is(b, "error")
    /\ Goes(b, "failed")
    /\ IF IsTask(b) THEN Marks("error") ELSE UNCHANGED ixDoc
    /\ UNCHANGED <<ixRows, ixEmptied>>

\* A stream's reader leaves, or a worker is stopped: a deletion or an insertion that Milvus's
\* thread has begun goes on without its coroutine.
Cancelled(b) ==
    /\ b \in InFlight /\ ixBuild[b].pc \notin {"late", "lateclear"}
    /\ \/ Goes(b, "gone")
       \/ Is(b, "insert") /\ ixBuild[b].db # "pgvector" /\ Goes(b, "late")
       \/ Is(b, "clear") /\ ixBuild[b].db = "milvus" /\ Goes(b, "lateclear")
    /\ UNCHANGED <<ixRows, ixEmptied, ixDoc>>

\* delete_doc of the API forgets the row and leaves the vectors.
RemoveDoc == ixDoc # "none" /\ ixDoc' = "none" /\ UNCHANGED <<ixRows, ixEmptied, ixBuild>>

\* EnhancedKnowledgeBase.delete_document: with Milvus there it fails after the
\* deletion (it awaits a result that is none), without it only the row goes.
DeleteDocument ==
    /\ ixDoc # "none"
    /\ \/ /\ ixRows["shared"] # {}
          /\ ixRows' = [ixRows EXCEPT !["shared"] = {}]
          /\ UNCHANGED ixDoc
       \/ ixDoc' = "none" /\ UNCHANGED ixRows
    /\ UNCHANGED <<ixEmptied, ixBuild>>

DocNext ==
    \/ \E b \in Indexers :
           \/ \E kind \in Kinds, db \in Stores : BeginBuild(b, kind, db)
           \/ Parse(b) \/ ComputeEmbeddings(b) \/ ClearMilvus(b) \/ ClearPg(b) \/ Insert(b)
           \/ Flush(b) \/ StoreFails(b) \/ Completes(b) \/ Errs(b) \/ Cancelled(b)
    \/ RemoveDoc \/ DeleteDocument

----------------------------------------------------------------------------
(* Properties.                                                             *)

\* A document built again is not there twice: after a build that completed, and
\* that no other build overlapped or followed, its store finds exactly the
\* chunks it embedded, each one once.  (What a cancelled build's thread has still
\* to delete or insert overlaps.)
RebuiltReplaces ==
    \A b \in Indexers :
        Is(b, "complete") /\ ixBuild[b].alone /\ ixBuild[b].db # "shared" =>
            /\ Found(ixBuild[b].db) = ixBuild[b].got
            /\ Cardinality(ixRows[ixBuild[b].db]) = Cardinality(ixBuild[b].got)

\* A document that pgvector has vectors of never loses them to a build that
\* fails, is cancelled or is still going on.  (Milvus deletes first.)
PgKeepsDocuments == [][ixRows["pgvector"] # {} => ixRows'["pgvector"] # {}]_ixVars

\* A document marked completed has vectors somewhere, unless the last that happened
\* to Milvus's is the deletion of a build that has not come to its own insertion, or
\* never will: it failed or was cancelled in between, or its thread deleted late, even
\* after another build's insertion (_store_milvus_direct).
CompletedIsFound == ixDoc = "completed" => ixEmptied \/ \E db \in Stores : ixRows[db] # {}

\* Whatever both ways of chunking cut, any passage no longer than the overlap
\* and one more character is within one chunk, and no chunk of the retriever's is
\* within another.  (Looked at when a first build comes to its text.)
PassagesAreWhole ==
    (\E b \in Indexers : Is(b, "parse") /\ InFlight = {b}) =>
        \A n \in 1..(4 * ChunkSize) :
            /\ \A kind \in Kinds : \A i \in 0..(n - 1) :
                   \E c \in ChunksOf(kind, n) :
                       c.from <= i /\ (IF i + ChunkOverlap + 1 < n THEN i + ChunkOverlap + 1 ELSE n) <= c.to
            /\ \A c, d \in SplitText(n) : c.from <= d.from /\ d.to <= c.to => c = d
=============================================================================
