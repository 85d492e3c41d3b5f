------------------------------ MODULE MCStores ------------------------------
(***************************************************************************)
(* Small instances of the engine's stores and caches that share no state:  *)
(* knowledge bases with their builds, the vectors of a document, the       *)
(* profile card, the summaries, the skill files and the skill manager, the *)
(* rate windows, the semantic cache and the context window.  Each          *)
(* behaviour is about one of them.                                         *)
(***************************************************************************)
EXTENDS KnowledgeBuild, MemoryCard, MemorySummaries, SkillStore, SkillManager,
        RateWindow, SemanticCache, DocIndex, ContextWindow, TLC

CONSTANTS Parts, c1, c2, u, a1, a2, b1

\* What is in flight in a part is interchangeable, so are the users who have
\* skills, and all parts use the same two values for them; so are a base's tasks.
CallSymmetry == Permutations({c1, c2}) \union Permutations(Builds)

\* All the conflicts of a second have one id.
SameHash == [x \in CardItems \X Owners |-> 0]
OwnerIsUser == [b \in Bases |-> u]
FourRequests == {[model |-> "m1", prompt |-> a1, temperature |-> 0], [model |-> "m1", prompt |-> a1, temperature |-> 1],
           [model |-> "m2", prompt |-> a2, temperature |-> 0], [model |-> "m1", prompt |-> b1, temperature |-> 0]}
TwoClasses == [p \in {a1, a2, b1} |-> IF p = b1 THEN "b" ELSE "a"]
SecondAndMinute == <<1, 2>>
Limits == <<1, 2>>
ThreeKinds == {[role |-> "system", tokens |-> 1], [role |-> "user", tokens |-> 1], [role |-> "user", tokens |-> 8]}

VARIABLE part

mmVars == <<mcVars, smVars>>
skVars == <<ssVars, mgVars>>
gwVars == <<rwVars, scVars>>
txVars == <<ixVars, cwVars>>
Init ==
    /\ part \in Parts
    /\ KbInit /\ (part # "bases" => kind = [b \in Bases |-> "rag"])
    /\ CardInit /\ SumInit /\ StoreInit /\ ManagerInit /\ RwInit /\ ScInit /\ DocInit /\ WindowInit
Next ==
    /\ UNCHANGED part
    /\ \/ part = "card" /\ CardNext /\ UNCHANGED <<smVars, skVars, gwVars, txVars, kbVars>>
       \/ part = "summaries" /\ SummariesNext /\ UNCHANGED <<mcVars, skVars, gwVars, txVars, kbVars>>
       \/ part = "store" /\ StoreNext /\ UNCHANGED <<mmVars, mgVars, gwVars, txVars, kbVars>>
       \/ part = "manager" /\ ManagerNext /\ UNCHANGED <<mmVars, ssVars, gwVars, txVars, kbVars>>
       \/ part = "rate" /\ RwNext /\ UNCHANGED <<mmVars, skVars, scVars, txVars, kbVars>>
       \/ part = "cache" /\ ScNext /\ UNCHANGED <<mmVars, skVars, rwVars, txVars, kbVars>>
       \/ part = "vectors" /\ DocNext /\ UNCHANGED <<mmVars, skVars, gwVars, cwVars, kbVars>>
       \/ part = "window" /\ WindowNext /\ UNCHANGED <<mmVars, skVars, gwVars, ixVars, kbVars>>
       \/ part = "bases" /\ KbNext /\ UNCHANGED <<mmVars, skVars, gwVars, txVars>>
Spec == Init /\ [][Next]_<<part, mmVars, skVars, gwVars, txVars, kbVars>>

\* What the engine remembers stays true: the cached card and the recalled summaries
\* differ from their tables only in the openings named by their properties, a reported
\* conflict waits unless another one shares its id, and a compressed conversation keeps its newest messages and
\* leaves its middle in a summary or on its way to the memory service (get_profile,
\* delete_summary, compress).
MemoryIsSound ==
    /\ part = "card" => CardTypeOK /\ StaleCardIsExplained /\ ToldConflictsWait /\ ClearAllClears
    /\ part = "summaries" => SumTypeOK /\ VectorsOnce /\ GoneFromRecall
    /\ part = "window" => WindowTypeOK /\ NewestAreKept /\ FitsOrIsOneMessage /\ MiddleIsSomewhere

\* A skill is the one its user saved and left on, unless a write was cut short or a skill
\* named by the file's path went over it, a call goes to the server its registration named, and no execution leaves a child process or a redirected
\* stdout behind, save the cancelled and the overlapping ones (SkillStore,
\* SkillManager.execute_skill).
SkillsAreSound ==
    /\ part = "store" => StoreTypeOK /\ OffStaysOff /\ SavedIsKept
    /\ part = "manager" => ManagerTypeOK /\ CalledWhatWasNamed /\ ChildrenHaveParents /\ StdoutComesBack

\* What is built can be found: the chunks of a text cover it, a rebuilt document is
\* there once, and a completed one has vectors unless a deletion came last at Milvus
\* (RAGBuilder.build_document).
IndexIsSound == part = "vectors" =>
    DocTypeOK /\ RebuiltReplaces /\ CompletedIsFound /\ PassagesAreWhole

\* Counts and answers taken between awaits bound what passes: a window overshoots by
\* no more than the other requests in progress allow, and a cached answer was given
\* by the same model to a prompt of the same class (allow, lookup).
CachesAreSound ==
    /\ part = "rate" => RateTypeOK /\ OvershootBounded
    /\ part = "cache" => SemanticCacheTypeOK /\ ServedForTheQuestion /\ L1WithinCapacity

\* No step takes back what was confirmed, reported or stored: a confirmed value gives
\* way only to a writer that read before, a reported summary has its row, and the
\* rows of a document in pgvector stay until the new ones commit (upsert_item,
\* SummaryStore.insert, _store_pgvector).
NothingIsTakenBack == ConfirmedStays /\ ReportedWasThere /\ PgKeepsDocuments
=============================================================================
