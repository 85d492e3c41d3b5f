---------------------------- MODULE SubmitProofs ----------------------------
(***************************************************************************)
(* The safety of SubmitGate for any number of runs, sessions, users,       *)
(* cancels, permits and faults.                                            *)
(***************************************************************************)
EXTENDS SubmitGate, FiniteSetTheorems, TLAPS

Held == {r \in Runs : pc[r] \in Holding}
Marking(u) == {r \in Runs : pc[r] = "mark" /\ UserOf[r] = u}

\* TypeOK, with nothing said of the range of permits.
Types ==
    /\ pc \in [Runs -> Steps]
    /\ ctx \in [Runs -> {"open"} \union Causes]
    /\ store \in [Runs -> {"open", "expired"}]
    /\ text \in SUBSET Runs
    /\ tokens \in SUBSET Runs
    /\ entry \in [Sessions -> Runs \union {NoRun}]
    /\ permits \in Int
    /\ cancel \in [Cancels -> CancelReq]
    /\ replies \in SUBSET Runs
    /\ free \in [Users -> Nat]
    /\ seen \in [Users -> Nat]
    /\ lag \in [Users -> Nat]
    /\ credits \in [Users -> Nat]
    /\ faults \in Nat

\* The semaphore is never over-full.
PermitsFit == permits <= MaxConcurrency

\* A cancel request that has found its entry belongs to the user of that run.
CancelsAreChecked ==
    \A c \in Cancels : cancel[c].pc \in {"delete", "cut", "done"} =>
        cancel[c].run \in Runs /\ UserOf[cancel[c].run] = CancelUser[c]

\* What is marked and what is about to be marked fit the bound together: whoever
\* decides to mark has seen a count below the limit and holds a permit.
QuotaReserved ==
    \A u \in Users : free[u] + Cardinality(Marking(u)) <= FreeLimit + MaxConcurrency - 1 + lag[u]

Stored(r) == r \in text => r \in replies \/ store[r] = "expired" \/ faults > 0

\* Text appears only in the stream, and is stored on the way out of it.
RepliesInv ==
    \A r \in Runs :
        /\ pc[r] \in {"new", "claim", "permit", "register", "save", "call", "refused"}
               => r \notin text
        /\ pc[r] \in {"bill", "mark", "deduct", "unregister", "delete", "release"}
               => Stored(r)

----------------------------------------------------------------------------
USE RunAssumption, CancelAssumption, LimitAssumption, UsedAssumption, NoRunAssumption

\* The next-state relation, one disjunct per action.
LEMMA NextCases ==
    ASSUME Next
    PROVE  \/ \E r \in Runs : PreCheck(r)
           \/ \E r \in Runs : PreCheckFails(r)
           \/ \E r \in Runs : Claim(r)
           \/ \E r \in Runs : Permit(r)
           \/ \E r \in Runs : Register(r)
           \/ \E r \in Runs : HandlerReturns(r)
           \/ \E r \in Runs : TimesOut(r)
           \/ \E r \in Runs : StoreExpires(r)
           \/ \E r \in Runs : SaveUserMessage(r)
           \/ \E r \in Runs : Call(r)
           \/ \E r \in Runs : CallFails(r)
           \/ \E r \in Runs : Panics(r)
           \/ \E r \in Runs : StreamEvent(r)
           \/ \E r \in Runs : EngineCloses(r)
           \/ \E r \in Runs : StreamCut(r)
           \/ \E r \in Runs : SaveAssistantMessage(r)
           \/ \E r \in Runs : Bill(r)
           \/ \E r \in Runs : MarkFreeUsage(r)
           \/ \E r \in Runs : DeductTokens(r)
           \/ \E r \in Runs : Unregister(r)
           \/ \E r \in Runs : DeleteAgain(r)
           \/ \E r \in Runs : Release(r)
           \/ \E c \in Cancels, s \in Sessions : CancelLoad(c, s)
           \/ \E c \in Cancels : CancelDelete(c)
           \/ \E c \in Cancels : CancelCut(c)
           \/ \E u \in Users : Replicates(u)
BY Zenon DEF Next, Proceed

\* Every action keeps the types; for permits this says no more than Int.
LEMMA StepTypes == ASSUME Types, [Next]_vars PROVE Types'
<1> USE DEF Types, Steps, Holding, Handling, Causes
<1>1. CASE UNCHANGED vars
  BY <1>1 DEF vars
<1>2. ASSUME NEW r \in Runs, PreCheck(r) PROVE Types'
  BY <1>2 DEF PreCheck, Goes
<1>3. ASSUME NEW r \in Runs, PreCheckFails(r) PROVE Types'
  BY <1>3 DEF PreCheckFails, Goes, Fault
<1>4. ASSUME NEW r \in Runs, Claim(r) PROVE Types'
  <2>1. CASE entry[SessionOf[r]] = NoRun
    BY <1>4, <2>1 DEF Claim, Goes, Store
  <2>2. CASE entry[SessionOf[r]] # NoRun
    BY <1>4, <2>2 DEF Claim, Goes, Store
  <2> QED BY <2>1, <2>2
<1>5. ASSUME NEW r \in Runs, Permit(r) PROVE Types'
  <2>1. CASE permits < MaxConcurrency
    BY <1>5, <2>1 DEF Permit, Goes, Delete
  <2>2. CASE ~(permits < MaxConcurrency)
    BY <1>5, <2>2 DEF Permit, Goes, Delete
  <2> QED BY <2>1, <2>2
<1>6. ASSUME NEW r \in Runs, Register(r) PROVE Types'
  BY <1>6 DEF Register, Goes, Store
<1>7. ASSUME NEW r \in Runs, HandlerReturns(r) PROVE Types'
  BY <1>7 DEF HandlerReturns
<1>8. ASSUME NEW r \in Runs, TimesOut(r) PROVE Types'
  BY <1>8 DEF TimesOut
<1>9. ASSUME NEW r \in Runs, StoreExpires(r) PROVE Types'
  BY <1>9 DEF StoreExpires
<1>10. ASSUME NEW r \in Runs, SaveUserMessage(r) PROVE Types'
  BY <1>10 DEF SaveUserMessage, Goes
<1>11. ASSUME NEW r \in Runs, Call(r) PROVE Types'
  BY <1>11 DEF Call, Goes
<1>12. ASSUME NEW r \in Runs, CallFails(r) PROVE Types'
  BY <1>12 DEF CallFails, Goes, Fault
<1>13. ASSUME NEW r \in Runs, Panics(r) PROVE Types'
  BY <1>13 DEF Panics, Goes, Fault
<1>14. ASSUME NEW r \in Runs, StreamEvent(r) PROVE Types'
  BY <1>14 DEF StreamEvent
<1>15. ASSUME NEW r \in Runs, EngineCloses(r) PROVE Types'
  BY <1>15 DEF EngineCloses, Goes
<1>16. ASSUME NEW r \in Runs, StreamCut(r) PROVE Types'
  BY <1>16 DEF StreamCut, Goes
<1>17. ASSUME NEW r \in Runs, SaveAssistantMessage(r) PROVE Types'
  BY <1>17 DEF SaveAssistantMessage, Goes
<1>18. ASSUME NEW r \in Runs, Bill(r) PROVE Types'
  BY <1>18 DEF Bill, Grants, Goes
<1>19. ASSUME NEW r \in Runs, MarkFreeUsage(r) PROVE Types'
  BY <1>19 DEF MarkFreeUsage, Goes
<1>20. ASSUME NEW r \in Runs, DeductTokens(r) PROVE Types'
  BY <1>20 DEF DeductTokens, Goes
<1>21. ASSUME NEW r \in Runs, Unregister(r) PROVE Types'
  BY <1>21 DEF Unregister, Goes, Delete
<1>22. ASSUME NEW r \in Runs, DeleteAgain(r) PROVE Types'
  BY <1>22 DEF DeleteAgain, Goes, Delete
<1>23. ASSUME NEW r \in Runs, Release(r) PROVE Types'
  BY <1>23 DEF Release, Goes
<1>24. ASSUME NEW c \in Cancels, NEW s \in Sessions, CancelLoad(c, s) PROVE Types'
  BY <1>24 DEF CancelLoad, CancelReq
<1>25. ASSUME NEW c \in Cancels, CancelDelete(c) PROVE Types'
  <2>1. cancel[c] \in CancelReq
    OBVIOUS
  <2> QED BY <1>25, <2>1 DEF CancelDelete, CancelGoes, CancelReq, Delete
<1>26. ASSUME NEW c \in Cancels, CancelCut(c) PROVE Types'
  <2>1. cancel[c] \in CancelReq
    OBVIOUS
  <2> QED BY <1>26, <2>1 DEF CancelCut, CancelGoes, CancelReq
<1>27. ASSUME NEW u \in Users, Replicates(u) PROVE Types'
  BY <1>27 DEF Replicates
<1> QED
  BY NextCases, <1>1, <1>2, <1>3, <1>4, <1>5, <1>6, <1>7, <1>8, <1>9, <1>10, <1>11, <1>12, <1>13,
     <1>14, <1>15, <1>16, <1>17, <1>18, <1>19, <1>20, <1>21, <1>22, <1>23, <1>24, <1>25, <1>26, <1>27, Zenon

\* How a step moves the semaphore: not at all, by the run that is admitted, by
\* the run that is released, or by a run that stays on its side of it.
Stays(r, step) ==
    /\ Goes(r, step) /\ UNCHANGED permits
    /\ pc[r] \in Holding <=> step \in Holding
Admits(r) ==
    /\ pc[r] = "permit" /\ Goes(r, "register")
    /\ permits < MaxConcurrency /\ permits' = permits + 1
SemaphoreStep ==
    \/ UNCHANGED <<pc, permits>>
    \/ \E r \in Runs : Admits(r)
    \/ \E r \in Runs : Release(r)
    \/ \E r \in Runs, step \in Steps : Stays(r, step)

LEMMA SemaphoreSteps == ASSUME Types, [Next]_vars PROVE SemaphoreStep
<1> USE DEF SemaphoreStep
<1>0. ASSUME NEW r \in Runs, NEW step \in Steps, Stays(r, step) PROVE SemaphoreStep
  BY <1>0, Zenon
<1>1. CASE UNCHANGED vars
  BY <1>1 DEF vars
<1>2. ASSUME NEW r \in Runs, PreCheck(r) PROVE SemaphoreStep
  <2>1. Stays(r, "refused") \/ Stays(r, "claim")
    BY <1>2 DEF PreCheck, Stays, Goes, Steps, Holding, Handling
  <2> QED BY <1>0, <2>1 DEF Steps, Holding, Handling
<1>3. ASSUME NEW r \in Runs, PreCheckFails(r) PROVE SemaphoreStep
  <2>1. Stays(r, "refused") \/ Stays(r, "claim")
    BY <1>3 DEF PreCheckFails, Stays, Goes, Steps, Holding, Handling
  <2> QED BY <1>0, <2>1 DEF Steps, Holding, Handling
<1>4. ASSUME NEW r \in Runs, Claim(r) PROVE SemaphoreStep
  <2>1. Stays(r, "refused") \/ Stays(r, "permit")
    BY <1>4 DEF Claim, Stays, Goes, Steps, Holding, Handling
  <2> QED BY <1>0, <2>1 DEF Steps, Holding, Handling
<1>5. ASSUME NEW r \in Runs, Permit(r) PROVE SemaphoreStep
  <2>1. CASE permits < MaxConcurrency
    <3>1. Admits(r)
      BY <1>5, <2>1 DEF Permit, Admits
    <3> QED BY <3>1
  <2>2. CASE ~(permits < MaxConcurrency)
    <3>1. Stays(r, "refused") /\ "refused" \in Steps
      BY <1>5, <2>2 DEF Permit, Stays, Steps, Holding, Handling
    <3> QED BY <1>0, <3>1
  <2> QED BY <2>1, <2>2
<1>6. ASSUME NEW r \in Runs, Register(r) PROVE SemaphoreStep
  <2>1. Stays(r, "save") /\ "save" \in Steps
    BY <1>6 DEF Register, Stays, Steps, Holding, Handling
  <2> QED BY <1>0, <2>1
<1>7. ASSUME NEW r \in Runs, HandlerReturns(r) PROVE SemaphoreStep
  BY <1>7 DEF HandlerReturns
<1>8. ASSUME NEW r \in Runs, TimesOut(r) PROVE SemaphoreStep
  BY <1>8 DEF TimesOut
<1>9. ASSUME NEW r \in Runs, StoreExpires(r) PROVE SemaphoreStep
  BY <1>9 DEF StoreExpires
<1>10. ASSUME NEW r \in Runs, SaveUserMessage(r) PROVE SemaphoreStep
  <2>1. Stays(r, "call") /\ "call" \in Steps
    BY <1>10 DEF SaveUserMessage, Stays, Steps, Holding, Handling
  <2> QED BY <1>0, <2>1
<1>11. ASSUME NEW r \in Runs, Call(r) PROVE SemaphoreStep
  <2>1. Stays(r, "stream") \/ Stays(r, "unregister")
    BY <1>11 DEF Call, Stays, Steps, Holding, Handling
  <2> QED BY <1>0, <2>1 DEF Steps, Holding, Handling
<1>12. ASSUME NEW r \in Runs, CallFails(r) PROVE SemaphoreStep
  <2>1. Stays(r, "unregister") /\ "unregister" \in Steps
    BY <1>12 DEF CallFails, Stays, Steps, Holding, Handling
  <2> QED BY <1>0, <2>1
<1>13. ASSUME NEW r \in Runs, Panics(r) PROVE SemaphoreStep
  <2>1. Stays(r, "unregister") /\ "unregister" \in Steps
    BY <1>13 DEF Panics, Stays, Steps, Holding, Handling
  <2> QED BY <1>0, <2>1
<1>14. ASSUME NEW r \in Runs, StreamEvent(r) PROVE SemaphoreStep
  BY <1>14 DEF StreamEvent
<1>15. ASSUME NEW r \in Runs, EngineCloses(r) PROVE SemaphoreStep
  <2>1. Stays(r, "reply") /\ "reply" \in Steps
    BY <1>15 DEF EngineCloses, Stays, Steps, Holding, Handling
  <2> QED BY <1>0, <2>1
<1>16. ASSUME NEW r \in Runs, StreamCut(r) PROVE SemaphoreStep
  <2>1. Stays(r, "reply") /\ "reply" \in Steps
    BY <1>16 DEF StreamCut, Stays, Steps, Holding, Handling
  <2> QED BY <1>0, <2>1
<1>17. ASSUME NEW r \in Runs, SaveAssistantMessage(r) PROVE SemaphoreStep
  <2>1. Stays(r, "bill") /\ "bill" \in Steps
    BY <1>17 DEF SaveAssistantMessage, Stays, Steps, Holding, Handling
  <2> QED BY <1>0, <2>1
<1>18. ASSUME NEW r \in Runs, Bill(r) PROVE SemaphoreStep
  <2>1. Stays(r, "unregister") \/ Stays(r, "mark") \/ Stays(r, "deduct")
    BY <1>18 DEF Bill, Grants, Stays, Steps, Holding, Handling
  <2> QED BY <1>0, <2>1 DEF Steps, Holding, Handling
<1>19. ASSUME NEW r \in Runs, MarkFreeUsage(r) PROVE SemaphoreStep
  <2>1. Stays(r, "unregister") /\ "unregister" \in Steps
    BY <1>19 DEF MarkFreeUsage, Stays, Steps, Holding, Handling
  <2> QED BY <1>0, <2>1
<1>20. ASSUME NEW r \in Runs, DeductTokens(r) PROVE SemaphoreStep
  <2>1. Stays(r, "unregister") /\ "unregister" \in Steps
    BY <1>20 DEF DeductTokens, Stays, Steps, Holding, Handling
  <2> QED BY <1>0, <2>1
<1>21. ASSUME NEW r \in Runs, Unregister(r) PROVE SemaphoreStep
  <2>1. Stays(r, "delete") /\ "delete" \in Steps
    BY <1>21 DEF Unregister, Stays, Steps, Holding, Handling
  <2> QED BY <1>0, <2>1
<1>22. ASSUME NEW r \in Runs, DeleteAgain(r) PROVE SemaphoreStep
  <2>1. Stays(r, "release") /\ "release" \in Steps
    BY <1>22 DEF DeleteAgain, Stays, Steps, Holding, Handling
  <2> QED BY <1>0, <2>1
<1>23. ASSUME NEW r \in Runs, Release(r) PROVE SemaphoreStep
  BY <1>23
<1>24. ASSUME NEW c \in Cancels, NEW s \in Sessions, CancelLoad(c, s) PROVE SemaphoreStep
  BY <1>24 DEF CancelLoad
<1>25. ASSUME NEW c \in Cancels, CancelDelete(c) PROVE SemaphoreStep
  BY <1>25 DEF CancelDelete
<1>26. ASSUME NEW c \in Cancels, CancelCut(c) PROVE SemaphoreStep
  BY <1>26 DEF CancelCut
<1>27. ASSUME NEW u \in Users, Replicates(u) PROVE SemaphoreStep
  BY <1>27 DEF Replicates
<1> QED
  BY NextCases, <1>1, <1>2, <1>3, <1>4, <1>5, <1>6, <1>7, <1>8, <1>9, <1>10, <1>11, <1>12, <1>13,
     <1>14, <1>15, <1>16, <1>17, <1>18, <1>19, <1>20, <1>21, <1>22, <1>23, <1>24, <1>25, <1>26, <1>27, Zenon

\* The runs that hold a permit are finitely many, so that they can be counted.
LEMMA HeldIsFinite == IsFiniteSet(Held) /\ Cardinality(Held) \in Nat
<1>1. Held \subseteq Runs
  BY DEF Held
<1> QED BY <1>1, FS_Subset, FS_CardinalityType

\* agentSem counts the runs that hold a permit, and is never over-full.
LEMMA StepPermits ==
    ASSUME Types, PermitsMatch, PermitsFit, [Next]_vars
    PROVE  PermitsMatch' /\ PermitsFit'
<1>1. permits = Cardinality(Held)
  BY DEF PermitsMatch, Held
<1>2. SUFFICES permits' = Cardinality(Held') /\ permits' <= MaxConcurrency
  BY DEF PermitsMatch, PermitsFit, Held
<1>3. CASE UNCHANGED <<pc, permits>>
  BY <1>1, <1>3 DEF Held, PermitsFit
<1>4. ASSUME NEW r \in Runs, Admits(r)
      PROVE permits' = Cardinality(Held') /\ permits' <= MaxConcurrency
  <2>1. Held' = Held \union {r} /\ r \notin Held
    BY <1>4 DEF Admits, Goes, Held, Types, Holding, Handling
  <2>2. Cardinality(Held') = Cardinality(Held) + 1
    BY <2>1, HeldIsFinite, FS_AddElement
  <2> QED BY <1>1, <1>4, <2>2 DEF Admits, Types
<1>5. ASSUME NEW r \in Runs, Release(r)
      PROVE permits' = Cardinality(Held') /\ permits' <= MaxConcurrency
  <2>1. Held' = Held \ {r} /\ r \in Held
    BY <1>5 DEF Release, Goes, Held, Types, Holding, Handling
  <2>2. Cardinality(Held') = Cardinality(Held) - 1
    BY <2>1, HeldIsFinite, FS_RemoveElement
  <2> QED BY <1>1, <1>5, <2>2 DEF Release, Types, PermitsFit
<1>6. ASSUME NEW r \in Runs, NEW step \in Steps, Stays(r, step)
      PROVE permits' = Cardinality(Held') /\ permits' <= MaxConcurrency
  <2>1. Held' = Held
    BY <1>6 DEF Stays, Goes, Held, Types
  <2> QED BY <1>1, <1>6, <2>1 DEF Stays, PermitsFit
<1> QED BY SemaphoreSteps, <1>3, <1>4, <1>5, <1>6 DEF SemaphoreStep

\* Only handleCancel moves a cancel request, and only its last step cancels a
\* context: every other step leaves the cancelled contexts as they are.
CutsElsewhere ==
    /\ UNCHANGED cancel
    /\ \A r \in Runs : ctx'[r] = "cancel" => ctx[r] = "cancel"

LEMMA CancelSteps ==
    ASSUME Types, [Next]_vars
    PROVE  \/ CutsElsewhere
           \/ \E c \in Cancels, s \in Sessions : CancelLoad(c, s)
           \/ \E c \in Cancels : CancelDelete(c)
           \/ \E c \in Cancels : CancelCut(c)
<1> USE DEF CutsElsewhere, Types
<1>1. CASE UNCHANGED vars
  BY <1>1 DEF vars
<1>2. ASSUME NEW r \in Runs, PreCheck(r) PROVE CutsElsewhere
  BY <1>2 DEF PreCheck
<1>3. ASSUME NEW r \in Runs, PreCheckFails(r) PROVE CutsElsewhere
  BY <1>3 DEF PreCheckFails
<1>4. ASSUME NEW r \in Runs, Claim(r) PROVE CutsElsewhere
  BY <1>4 DEF Claim
<1>5. ASSUME NEW r \in Runs, Permit(r) PROVE CutsElsewhere
  BY <1>5 DEF Permit
<1>6. ASSUME NEW r \in Runs, Register(r) PROVE CutsElsewhere
  BY <1>6 DEF Register
<1>7. ASSUME NEW r \in Runs, HandlerReturns(r) PROVE CutsElsewhere
  BY <1>7 DEF HandlerReturns
<1>8. ASSUME NEW r \in Runs, TimesOut(r) PROVE CutsElsewhere
  BY <1>8 DEF TimesOut
<1>9. ASSUME NEW r \in Runs, StoreExpires(r) PROVE CutsElsewhere
  BY <1>9 DEF StoreExpires
<1>10. ASSUME NEW r \in Runs, SaveUserMessage(r) PROVE CutsElsewhere
  BY <1>10 DEF SaveUserMessage
<1>11. ASSUME NEW r \in Runs, Call(r) PROVE CutsElsewhere
  BY <1>11 DEF Call
<1>12. ASSUME NEW r \in Runs, CallFails(r) PROVE CutsElsewhere
  BY <1>12 DEF CallFails
<1>13. ASSUME NEW r \in Runs, Panics(r) PROVE CutsElsewhere
  BY <1>13 DEF Panics
<1>14. ASSUME NEW r \in Runs, StreamEvent(r) PROVE CutsElsewhere
  BY <1>14 DEF StreamEvent
<1>15. ASSUME NEW r \in Runs, EngineCloses(r) PROVE CutsElsewhere
  BY <1>15 DEF EngineCloses
<1>16. ASSUME NEW r \in Runs, StreamCut(r) PROVE CutsElsewhere
  BY <1>16 DEF StreamCut
<1>17. ASSUME NEW r \in Runs, SaveAssistantMessage(r) PROVE CutsElsewhere
  BY <1>17 DEF SaveAssistantMessage
<1>18. ASSUME NEW r \in Runs, Bill(r) PROVE CutsElsewhere
  BY <1>18 DEF Bill, Grants
<1>19. ASSUME NEW r \in Runs, MarkFreeUsage(r) PROVE CutsElsewhere
  BY <1>19 DEF MarkFreeUsage
<1>20. ASSUME NEW r \in Runs, DeductTokens(r) PROVE CutsElsewhere
  BY <1>20 DEF DeductTokens
<1>21. ASSUME NEW r \in Runs, Unregister(r) PROVE CutsElsewhere
  BY <1>21 DEF Unregister
<1>22. ASSUME NEW r \in Runs, DeleteAgain(r) PROVE CutsElsewhere
  BY <1>22 DEF DeleteAgain
<1>23. ASSUME NEW r \in Runs, Release(r) PROVE CutsElsewhere
  BY <1>23 DEF Release
<1>27. ASSUME NEW u \in Users, Replicates(u) PROVE CutsElsewhere
  BY <1>27 DEF Replicates
<1> QED
  BY NextCases, <1>1, <1>2, <1>3, <1>4, <1>5, <1>6, <1>7, <1>8, <1>9, <1>10, <1>11, <1>12, <1>13,
     <1>14, <1>15, <1>16, <1>17, <1>18, <1>19, <1>20, <1>21, <1>22, <1>23, <1>27, Zenon

\* A cancel only ever reaches a run of its own user.
LEMMA StepCancels ==
    ASSUME Types, CancelsAreChecked, CancelledByOwner, [Next]_vars
    PROVE  CancelsAreChecked' /\ CancelledByOwner'
<1>1. CASE CutsElsewhere
  BY <1>1 DEF CutsElsewhere, CancelsAreChecked, CancelledByOwner
<1>2. ASSUME NEW c \in Cancels, NEW s \in Sessions, CancelLoad(c, s)
      PROVE CancelsAreChecked' /\ CancelledByOwner'
  <2>1. cancel'[c] = [pc |-> "delete", session |-> s, run |-> entry[s]]
    BY <1>2 DEF CancelLoad, Types
  <2>2. cancel[c].pc = "new" /\ \A d \in Cancels \ {c} : cancel'[d] = cancel[d]
    BY <1>2 DEF CancelLoad, Types
  <2>3. entry[s] \in Runs /\ UserOf[entry[s]] = CancelUser[c] /\ ctx' = ctx
    BY <1>2 DEF CancelLoad, Types
  <2>4. CancelsAreChecked'
    BY <2>1, <2>2, <2>3 DEF CancelsAreChecked
  <2>5. CancelledByOwner'
    BY <2>2, <2>3 DEF CancelledByOwner
  <2> QED BY <2>4, <2>5
<1>3. ASSUME NEW c \in Cancels, CancelDelete(c) PROVE CancelsAreChecked' /\ CancelledByOwner'
  <2>1. cancel'[c] = [pc |-> "cut", session |-> cancel[c].session, run |-> cancel[c].run]
    BY <1>3 DEF CancelDelete, CancelGoes, Types
  <2>2. cancel[c].pc = "delete" /\ \A d \in Cancels \ {c} : cancel'[d] = cancel[d]
    BY <1>3 DEF CancelDelete, CancelGoes, Types
  <2>3. ctx' = ctx
    BY <1>3 DEF CancelDelete
  <2>4. CancelsAreChecked'
    BY <2>1, <2>2 DEF CancelsAreChecked
  <2>5. CancelledByOwner'
    BY <2>2, <2>3 DEF CancelledByOwner
  <2> QED BY <2>4, <2>5
<1>4. ASSUME NEW c \in Cancels, CancelCut(c) PROVE CancelsAreChecked' /\ CancelledByOwner'
  <2>1. cancel'[c] = [pc |-> "done", session |-> cancel[c].session, run |-> cancel[c].run]
    BY <1>4 DEF CancelCut, CancelGoes, Types
  <2>2. cancel[c].pc = "cut" /\ \A d \in Cancels \ {c} : cancel'[d] = cancel[d]
    BY <1>4 DEF CancelCut, CancelGoes, Types
  <2>3. cancel[c].run \in Runs /\ UserOf[cancel[c].run] = CancelUser[c]
    BY <2>2 DEF CancelsAreChecked
  <2>4. \A r \in Runs \ {cancel[c].run} : ctx'[r] = ctx[r]
    BY <1>4 DEF CancelCut, Types
  <2>5. CancelsAreChecked'
    BY <2>1, <2>2, <2>3 DEF CancelsAreChecked
  <2>6. ASSUME NEW r \in Runs, ctx'[r] = "cancel"
        PROVE \E d \in Cancels : cancel'[d].run = r /\ cancel'[d].pc = "done" /\ CancelUser[d] = UserOf[r]
    <3>1. CASE r = cancel[c].run
      BY <2>1, <2>3, <3>1
    <3>2. CASE r # cancel[c].run
      BY <2>2, <2>4, <2>6, <3>2 DEF CancelledByOwner
    <3> QED BY <3>1, <3>2
  <2>7. CancelledByOwner'
    BY <2>6 DEF CancelledByOwner
  <2> QED BY <2>5, <2>7
<1> QED BY CancelSteps, <1>1, <1>2, <1>3, <1>4

----------------------------------------------------------------------------
\* How a step moves the free quota: a run decides to use it, a run uses it, or
\* no run joins those that are about to.
QuotaKept ==
    UNCHANGED <<free, lag>> /\ \A r \in Runs : pc'[r] = "mark" => pc[r] = "mark"
Decides(r) ==
    /\ pc[r] = "bill" /\ Goes(r, "mark")
    /\ free[UserOf[r]] < FreeLimit + lag'[UserOf[r]]
    /\ \A u \in Users : lag'[u] >= lag[u]
    /\ UNCHANGED <<free, permits>>

LEMMA QuotaSteps ==
    ASSUME Types, [Next]_vars
    PROVE  QuotaKept \/ (\E r \in Runs : Decides(r)) \/ (\E r \in Runs : MarkFreeUsage(r))
<1> USE DEF QuotaKept, Types
<1>1. CASE UNCHANGED vars
  BY <1>1 DEF vars
<1>2. ASSUME NEW r \in Runs, PreCheck(r) PROVE QuotaKept
  BY <1>2 DEF PreCheck, Goes
<1>3. ASSUME NEW r \in Runs, PreCheckFails(r) PROVE QuotaKept
  BY <1>3 DEF PreCheckFails, Goes
<1>4. ASSUME NEW r \in Runs, Claim(r) PROVE QuotaKept
  BY <1>4 DEF Claim, Goes
<1>5. ASSUME NEW r \in Runs, Permit(r) PROVE QuotaKept
  BY <1>5 DEF Permit, Goes
<1>6. ASSUME NEW r \in Runs, Register(r) PROVE QuotaKept
  BY <1>6 DEF Register, Goes
<1>7. ASSUME NEW r \in Runs, HandlerReturns(r) PROVE QuotaKept
  BY <1>7 DEF HandlerReturns
<1>8. ASSUME NEW r \in Runs, TimesOut(r) PROVE QuotaKept
  BY <1>8 DEF TimesOut
<1>9. ASSUME NEW r \in Runs, StoreExpires(r) PROVE QuotaKept
  BY <1>9 DEF StoreExpires
<1>10. ASSUME NEW r \in Runs, SaveUserMessage(r) PROVE QuotaKept
  BY <1>10 DEF SaveUserMessage, Goes
<1>11. ASSUME NEW r \in Runs, Call(r) PROVE QuotaKept
  BY <1>11 DEF Call, Goes
<1>12. ASSUME NEW r \in Runs, CallFails(r) PROVE QuotaKept
  BY <1>12 DEF CallFails, Goes
<1>13. ASSUME NEW r \in Runs, Panics(r) PROVE QuotaKept
  BY <1>13 DEF Panics, Goes
<1>14. ASSUME NEW r \in Runs, StreamEvent(r) PROVE QuotaKept
  BY <1>14 DEF StreamEvent
<1>15. ASSUME NEW r \in Runs, EngineCloses(r) PROVE QuotaKept
  BY <1>15 DEF EngineCloses, Goes
<1>16. ASSUME NEW r \in Runs, StreamCut(r) PROVE QuotaKept
  BY <1>16 DEF StreamCut, Goes
<1>17. ASSUME NEW r \in Runs, SaveAssistantMessage(r) PROVE QuotaKept
  BY <1>17 DEF SaveAssistantMessage, Goes
<1>18. ASSUME NEW r \in Runs, Bill(r) PROVE QuotaKept \/ Decides(r)
  <2>1. CASE Grants(r)
    <3> DEFINE u == UserOf[r]
    <3>1. u \in Users /\ seen[u] \in Nat /\ free[u] \in Nat /\ lag[u] \in Nat
      OBVIOUS
    <3>2. lag' = [lag EXCEPT ![u] = IF free[u] - seen[u] > @ THEN free[u] - seen[u] ELSE @]
      BY <2>1 DEF Grants
    <3>3. lag'[u] = IF free[u] - seen[u] > lag[u] THEN free[u] - seen[u] ELSE lag[u]
      BY <3>1, <3>2
    <3>4. \A v \in Users \ {u} : lag'[v] = lag[v]
      BY <3>2
    <3>5. pc[r] = "bill" /\ Goes(r, "mark") /\ UNCHANGED <<free, permits>>
      BY <1>18, <2>1 DEF Bill, Grants
    <3>6. seen[u] < FreeLimit
      BY <1>18, <2>1 DEF Bill, Grants, Goes
    <3>7. free[u] < FreeLimit + lag'[u] /\ lag'[u] >= lag[u]
      BY <3>1, <3>3, <3>6
    <3>8. \A v \in Users : lag'[v] >= lag[v]
      BY <3>4, <3>7
    <3> QED BY <3>5, <3>7, <3>8 DEF Decides
  <2>2. CASE ~Grants(r)
    BY <1>18, <2>2 DEF Bill, Goes
  <2> QED BY <2>1, <2>2
<1>20. ASSUME NEW r \in Runs, DeductTokens(r) PROVE QuotaKept
  BY <1>20 DEF DeductTokens, Goes
<1>21. ASSUME NEW r \in Runs, Unregister(r) PROVE QuotaKept
  BY <1>21 DEF Unregister, Goes
<1>22. ASSUME NEW r \in Runs, DeleteAgain(r) PROVE QuotaKept
  BY <1>22 DEF DeleteAgain, Goes
<1>23. ASSUME NEW r \in Runs, Release(r) PROVE QuotaKept
  BY <1>23 DEF Release, Goes
<1>24. ASSUME NEW c \in Cancels, NEW s \in Sessions, CancelLoad(c, s) PROVE QuotaKept
  BY <1>24 DEF CancelLoad
<1>25. ASSUME NEW c \in Cancels, CancelDelete(c) PROVE QuotaKept
  BY <1>25 DEF CancelDelete
<1>26. ASSUME NEW c \in Cancels, CancelCut(c) PROVE QuotaKept
  BY <1>26 DEF CancelCut
<1>27. ASSUME NEW u \in Users, Replicates(u) PROVE QuotaKept
  BY <1>27 DEF Replicates
<1> QED
  BY NextCases, <1>1, <1>2, <1>3, <1>4, <1>5, <1>6, <1>7, <1>8, <1>9, <1>10, <1>11, <1>12, <1>13,
     <1>14, <1>15, <1>16, <1>17, <1>18, <1>20, <1>21, <1>22, <1>23, <1>24, <1>25, <1>26, <1>27, Zenon

LEMMA MarkingIsFinite ==
    ASSUME NEW u PROVE IsFiniteSet(Marking(u)) /\ Cardinality(Marking(u)) \in Nat
<1>1. Marking(u) \subseteq Runs
  BY DEF Marking
<1> QED BY <1>1, FS_Subset, FS_CardinalityType

\* A run that decides to use the quota holds a permit and has seen a count below
\* the limit, from which the true one differs by at most lag; a run that uses it leaves those that are about to.
LEMMA StepQuota ==
    ASSUME Types, PermitsMatch, PermitsFit, QuotaReserved, [Next]_vars
    PROVE  QuotaReserved'
<1> SUFFICES ASSUME NEW u \in Users
             PROVE free'[u] + Cardinality(Marking(u)') <= FreeLimit + MaxConcurrency - 1 + lag'[u]
  BY DEF QuotaReserved
<1>0. lag[u] \in Nat /\ lag'[u] \in Nat
  BY StepTypes DEF Types
<1>1. free[u] \in Nat /\ IsFiniteSet(Marking(u)) /\ Cardinality(Marking(u)) \in Nat
  BY MarkingIsFinite DEF Types
<1>2. free[u] + Cardinality(Marking(u)) <= FreeLimit + MaxConcurrency - 1 + lag[u]
  BY DEF QuotaReserved
<1>3. CASE QuotaKept
  <2>1. Marking(u)' \subseteq Marking(u)
    BY <1>3 DEF QuotaKept, Marking
  <2>2. Cardinality(Marking(u)') <= Cardinality(Marking(u)) /\ Cardinality(Marking(u)') \in Nat
    BY <1>1, <2>1, FS_Subset, FS_CardinalityType
  <2> QED BY <1>0, <1>1, <1>2, <1>3, <2>2 DEF QuotaKept
<1>4. ASSUME NEW r \in Runs, Decides(r)
      PROVE free'[u] + Cardinality(Marking(u)') <= FreeLimit + MaxConcurrency - 1 + lag'[u]
  <2>1. CASE UserOf[r] = u
    <3>1. Marking(u)' \subseteq Held
      BY <1>4 DEF Decides, Goes, Marking, Held, Types, Holding, Handling
    <3>2. Cardinality(Marking(u)') <= Cardinality(Held) /\ Cardinality(Marking(u)') \in Nat
      BY <3>1, HeldIsFinite, FS_Subset, FS_CardinalityType
    <3>3. Cardinality(Held) <= MaxConcurrency
      BY DEF PermitsMatch, PermitsFit, Held
    <3>4. free'[u] = free[u] /\ free[u] < FreeLimit + lag'[u]
      BY <1>4, <2>1 DEF Decides
    <3> QED BY <1>0, <1>1, <3>2, <3>3, <3>4, HeldIsFinite
  <2>2. CASE UserOf[r] # u
    <3>1. Marking(u)' = Marking(u)
      BY <1>4, <2>2 DEF Decides, Goes, Marking, Types
    <3>2. free'[u] = free[u] /\ lag'[u] >= lag[u]
      BY <1>4 DEF Decides
    <3> QED BY <1>0, <1>1, <1>2, <3>1, <3>2
  <2> QED BY <2>1, <2>2
<1>5. ASSUME NEW r \in Runs, MarkFreeUsage(r)
      PROVE free'[u] + Cardinality(Marking(u)') <= FreeLimit + MaxConcurrency - 1 + lag'[u]
  <2>1. CASE UserOf[r] = u
    <3>1. Marking(u)' = Marking(u) \ {r} /\ r \in Marking(u)
      BY <1>5, <2>1 DEF MarkFreeUsage, Goes, Marking, Types
    <3>2. Cardinality(Marking(u)') = Cardinality(Marking(u)) - 1
      BY ZenonT(60), <1>1, <3>1, FS_RemoveElement
    <3>3. free'[u] = free[u] + 1 \/ free'[u] = free[u]
      BY <1>5, <2>1 DEF MarkFreeUsage, Types
    <3>4. lag' = lag
      BY <1>5 DEF MarkFreeUsage
    <3> QED BY <1>0, <1>1, <1>2, <3>2, <3>3, <3>4
  <2>2. CASE UserOf[r] # u
    <3>1. Marking(u)' = Marking(u)
      BY <1>5, <2>2 DEF MarkFreeUsage, Goes, Marking, Types
    <3>2. free'[u] = free[u] /\ lag' = lag
      BY <1>5, <2>2 DEF MarkFreeUsage, Types
    <3> QED BY <1>2, <3>1, <3>2
  <2> QED BY <2>1, <2>2
<1> QED BY QuotaSteps, <1>3, <1>4, <1>5

----------------------------------------------------------------------------
\* Text is stored between the stream and the way out.
LEMMA StepReplies == ASSUME Types, RepliesInv, [Next]_vars PROVE RepliesInv'
<1> USE DEF RepliesInv, Stored, Types, Holding, Handling
<1>1. CASE UNCHANGED vars
  BY <1>1 DEF vars
<1>2. ASSUME NEW r \in Runs, PreCheck(r) PROVE RepliesInv'
  BY <1>2 DEF PreCheck, Goes
<1>3. ASSUME NEW r \in Runs, PreCheckFails(r) PROVE RepliesInv'
  BY <1>3 DEF PreCheckFails, Goes, Fault
<1>4. ASSUME NEW r \in Runs, Claim(r) PROVE RepliesInv'
  BY <1>4 DEF Claim, Goes
<1>5. ASSUME NEW r \in Runs, Permit(r) PROVE RepliesInv'
  BY <1>5 DEF Permit, Goes
<1>6. ASSUME NEW r \in Runs, Register(r) PROVE RepliesInv'
  BY <1>6 DEF Register, Goes
<1>7. ASSUME NEW r \in Runs, HandlerReturns(r) PROVE RepliesInv'
  BY <1>7 DEF HandlerReturns
<1>8. ASSUME NEW r \in Runs, TimesOut(r) PROVE RepliesInv'
  BY <1>8 DEF TimesOut
<1>9. ASSUME NEW r \in Runs, StoreExpires(r) PROVE RepliesInv'
  BY <1>9 DEF StoreExpires
<1>10. ASSUME NEW r \in Runs, SaveUserMessage(r) PROVE RepliesInv'
  BY <1>10 DEF SaveUserMessage, Goes
<1>11. ASSUME NEW r \in Runs, Call(r) PROVE RepliesInv'
  BY <1>11 DEF Call, Goes
<1>12. ASSUME NEW r \in Runs, CallFails(r) PROVE RepliesInv'
  BY <1>12 DEF CallFails, Goes, Fault
<1>13. ASSUME NEW r \in Runs, Panics(r) PROVE RepliesInv'
  BY <1>13 DEF Panics, Goes, Fault
<1>14. ASSUME NEW r \in Runs, StreamEvent(r) PROVE RepliesInv'
  BY <1>14 DEF StreamEvent
<1>15. ASSUME NEW r \in Runs, EngineCloses(r) PROVE RepliesInv'
  BY <1>15 DEF EngineCloses, Goes
<1>16. ASSUME NEW r \in Runs, StreamCut(r) PROVE RepliesInv'
  BY <1>16 DEF StreamCut, Goes
<1>17. ASSUME NEW r \in Runs, SaveAssistantMessage(r) PROVE RepliesInv'
  BY <1>17 DEF SaveAssistantMessage, Goes
<1>18. ASSUME NEW r \in Runs, Bill(r) PROVE RepliesInv'
  BY <1>18 DEF Bill, Grants, Goes
<1>19. ASSUME NEW r \in Runs, MarkFreeUsage(r) PROVE RepliesInv'
  BY <1>19 DEF MarkFreeUsage, Goes
<1>20. ASSUME NEW r \in Runs, DeductTokens(r) PROVE RepliesInv'
  BY <1>20 DEF DeductTokens, Goes
<1>21. ASSUME NEW r \in Runs, Unregister(r) PROVE RepliesInv'
  BY <1>21 DEF Unregister, Goes
<1>22. ASSUME NEW r \in Runs, DeleteAgain(r) PROVE RepliesInv'
  BY <1>22 DEF DeleteAgain, Goes
<1>23. ASSUME NEW r \in Runs, Release(r) PROVE RepliesInv'
  BY <1>23 DEF Release, Goes
<1>24. ASSUME NEW c \in Cancels, NEW s \in Sessions, CancelLoad(c, s) PROVE RepliesInv'
  BY <1>24 DEF CancelLoad
<1>25. ASSUME NEW c \in Cancels, CancelDelete(c) PROVE RepliesInv'
  BY <1>25 DEF CancelDelete
<1>26. ASSUME NEW c \in Cancels, CancelCut(c) PROVE RepliesInv'
  BY <1>26 DEF CancelCut
<1>27. ASSUME NEW u \in Users, Replicates(u) PROVE RepliesInv'
  BY <1>27 DEF Replicates
<1> QED
  BY NextCases, <1>1, <1>2, <1>3, <1>4, <1>5, <1>6, <1>7, <1>8, <1>9, <1>10, <1>11, <1>12, <1>13,
     <1>14, <1>15, <1>16, <1>17, <1>18, <1>19, <1>20, <1>21, <1>22, <1>23, <1>24, <1>25, <1>26, <1>27, Zenon

----------------------------------------------------------------------------
\* The inductive invariant.
IInv ==
    /\ Types /\ PermitsMatch /\ PermitsFit
    /\ CancelsAreChecked /\ CancelledByOwner
    /\ QuotaReserved /\ RepliesInv

LEMMA InitIInv == ASSUME Init PROVE IInv
<1> USE DEF Init
<1>1. Types
  <2>1. free \in [Users -> Nat] /\ seen \in [Users -> Nat] /\ lag \in [Users -> Nat]
    <3>1. 0..FreeLimit \subseteq Nat /\ UsedToday \subseteq Nat
      OBVIOUS
    <3> QED BY <3>1
  <2>2. cancel \in [Cancels -> CancelReq]
    BY DEF CancelReq
  <2> QED BY <2>1, <2>2 DEF Types, Steps
<1>2. PermitsMatch /\ PermitsFit
  <2>1. {r \in Runs : pc[r] \in Holding} = {}
    BY DEF Holding, Handling
  <2>2. permits = 0
    OBVIOUS
  <2>3. PermitsMatch
    BY <2>1, <2>2, FS_EmptySet, Zenon DEF PermitsMatch
  <2>4. PermitsFit
    BY <2>2 DEF PermitsFit
  <2> QED BY <2>3, <2>4
<1>3. CancelsAreChecked /\ CancelledByOwner
  BY DEF CancelsAreChecked, CancelledByOwner
<1>4. QuotaReserved
  <2>1. \A u \in Users : Marking(u) = {}
    BY DEF Marking
  <2>2. ASSUME NEW u \in Users
        PROVE free[u] + Cardinality(Marking(u)) <= FreeLimit + MaxConcurrency - 1 + lag[u]
    <3>1. Marking(u) = {} /\ Cardinality({}) = 0
      BY <2>1, FS_EmptySet
    <3>2. Cardinality(Marking(u)) = 0
      BY <3>1, Zenon
    <3>3. free[u] \in 0..FreeLimit /\ lag[u] = 0
      OBVIOUS
    <3> QED BY <3>2, <3>3
  <2> QED BY <2>2 DEF QuotaReserved
<1>5. RepliesInv
  BY DEF RepliesInv
<1> QED BY <1>1, <1>2, <1>3, <1>4, <1>5 DEF IInv

LEMMA NextIInv == ASSUME IInv, [Next]_vars PROVE IInv'
BY StepTypes, StepPermits, StepCancels, StepQuota, StepReplies DEF IInv

LEMMA Invariance == Spec => []IInv
BY InitIInv, NextIInv, PTL DEF Spec

\* The types of SubmitGate: in particular agentSem stays within its capacity
\* and no user's credits are overdrawn.
THEOREM TypeCorrect == Spec => []TypeOK
<1>1. ASSUME IInv PROVE TypeOK
  <2>1. permits \in Nat
    BY <1>1, HeldIsFinite DEF IInv, PermitsMatch, Held
  <2> QED BY <1>1, <2>1 DEF IInv, Types, PermitsFit, TypeOK
<1> QED BY Invariance, <1>1, PTL

\* A permit is neither leaked nor returned twice, whatever panics, fails, is cut
\* or is cancelled.
THEOREM PermitsAreCounted == Spec => []PermitsMatch
<1>1. ASSUME IInv PROVE PermitsMatch
  BY <1>1 DEF IInv
<1> QED BY Invariance, <1>1, PTL

\* handleCancel never cancels the run of another user, although it reads, deletes
\* and cancels in three steps.
THEOREM CancelsReachOwnRuns == Spec => []CancelledByOwner
<1>1. ASSUME IInv PROVE CancelledByOwner
  BY <1>1 DEF IInv
<1> QED BY Invariance, <1>1, PTL

\* The daily free quota is exceeded by less than the capacity of agentSem, plus
\* what the read replica hid from a count that granted it.
THEOREM FreeQuotaNearlyHolds == Spec => []FreeOvershootBounded
<1>1. ASSUME IInv PROVE FreeOvershootBounded
  <2> SUFFICES ASSUME NEW u \in Users PROVE free[u] <= FreeLimit + MaxConcurrency - 1 + lag[u]
    BY DEF FreeOvershootBounded
  <2>1. free[u] \in Nat /\ lag[u] \in Nat /\ Cardinality(Marking(u)) \in Nat
    BY <1>1, MarkingIsFinite DEF IInv, Types
  <2>2. free[u] + Cardinality(Marking(u)) <= FreeLimit + MaxConcurrency - 1 + lag[u]
    BY <1>1 DEF IInv, QuotaReserved
  <2> QED BY <2>1, <2>2
<1> QED BY Invariance, <1>1, PTL

\* What a stream produced is stored although its context is cut.
THEOREM CutRepliesAreStored == Spec => []CutRunsKeepTheirReply
<1>1. ASSUME IInv PROVE CutRunsKeepTheirReply
  BY <1>1 DEF IInv, RepliesInv, Stored, CutRunsKeepTheirReply
<1> QED BY Invariance, <1>1, PTL
=============================================================================
