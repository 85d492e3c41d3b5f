--------------------------- MODULE GatewayProofs ----------------------------
(***************************************************************************)
(* The safety of the gateway's parts for any number of coroutines,         *)
(* providers, keys and requests, any threshold and any limit.              *)
(***************************************************************************)
EXTENDS MCGatewayParts, DataLemmas

----------------------------------------------------------------------------
(* The router's calls.                                                     *)

CallState(c) ==
    /\ c \in Call
    /\ c.pc # "idle" => c.provider \in Providers
    /\ c.pc = "deduct" => c.kind # "embed"
CallsShape == CallsTypeOK /\ \A q \in Calls : CallState(call[q])

\* The calls that were given a provider and not yet sent, and the breakers that
\* turn calls away.
Waiting(p) == {q \in Calls : call[q].pc = "check" /\ call[q].provider = p}
Shut(p) == breaker[p].state = "open" /\ ~breaker[p].cool

\* What a shut breaker has let pass since it opened, and may still let pass,
\* leaves out the call whose failure opened it.
ShedInv ==
    \A p \in Providers :
        IF Shut(p) THEN late[p] + Cardinality(Waiting(p)) <= Cardinality(Calls) - 1 ELSE late[p] = 0

\* The calls that passed the budget and have not deducted.
InFlight(c) == c.kind # "embed" /\ c.pc \in {"calling", "store", "deduct"}
Committed == {q \in Calls : InFlight(call[q])}
BudgetInv ==
    Limit >= MaxTokens /\ Limit > 0 =>
        used + Cardinality(Committed) * MaxActual <= Limit - MaxTokens + Cardinality(Calls) * MaxActual

----------------------------------------------------------------------------
(* The coalescer.                                                          *)

CoReqState(c) == c \in CoReq /\ (c.pc \in {"join", "calling", "clean"} => c.fut \in CoReqs)
Futures == [CoReqs -> {"none", "open", "value", "error", "cancelled"}]
Runner(k) == \E r \in CoReqs :
    creq[r].pc \in {"calling", "clean"} /\ creq[r].key = k /\ creq[r].fut = pending[k]

\* An open future is in the hands of the request that made it.
FuturesHaveACall ==
    \A f \in CoReqs : future[f] = "open" => creq[f].pc = "calling" /\ creq[f].fut = f

\* All but the history and the bound.
CoCore ==
    /\ pending \in [CoKeys -> CoReqs \union {NoReq}]
    /\ pendingCount \in Int /\ pendingCount <= MaxPending
    /\ future \in Futures
    /\ creq \in [CoReqs -> CoReq] /\ \A r \in CoReqs : CoReqState(creq[r])
    /\ lockHolder \in CoReqs \union {NoReq} /\ lockQueue \in Seq(CoReqs)
    /\ \A k \in CoKeys : pending[k] # NoReq => Runner(k) \/ k \in abandoned
    /\ FuturesHaveACall
CoInv == CoCore /\ abandoned \subseteq CoKeys /\ cancels \in 0..MaxCancels

----------------------------------------------------------------------------
(* The key pool.                                                           *)

\* Entries whose status shows an open breaker.
Visible == {e \in KeyEntry : e.state = "open" => e.status # "active"}
KpInv ==
    /\ pool \in Seq(Visible) /\ Len(pool) <= MaxEntries
    /\ getter \in [Getters -> Getter]
    /\ edits \in 0..MaxEdits /\ keyFailures \in 0..MaxKeyFailures

----------------------------------------------------------------------------
USE CandidatesAssumption, GatewayLimitAssumption, CallsAssumption, NoProviderAssumption,
    CoalescerAssumption, KeyPoolAssumption

AnswerStep(q) ==
    Succeeds(q) \/ Fails(q) \/ Disconnects(q) \/ Stores(q) \/ StoreFails(q)
    \/ Deduct(q) \/ DeductFails(q) \/ CheckFails(q)
SelectStep(q) ==
    \E k \in Kinds : (\E h \in Providers : SelectHinted(q, h, k)) \/ (\E m \in Models : Select(q, m, k))

LEMMA CallsCases ==
    ASSUME CallsNext
    PROVE  \/ \E p \in Providers : Cools(p)
           \/ \E q \in Calls : AnswerStep(q) \/ SelectStep(q) \/ BudgetCheck(q)
           \/ ResetBudget
<1>1. ASSUME NEW p \in Providers, Hinted(p) PROVE \E q \in Calls : SelectStep(q)
  BY <1>1 DEF Hinted, SelectStep
<1>2. ASSUME NEW q \in Calls, NEW m \in Models, NEW k \in Kinds, Select(q, m, k)
      PROVE  SelectStep(q)
  BY <1>2 DEF SelectStep
<1> QED BY <1>1, <1>2 DEF CallsNext, AnswerStep

LEMMA IdleState == CallState(Idle) /\ Idle.pc = "idle" /\ ~InFlight(Idle)
BY DEF CallState, Idle, Call, Kinds, InFlight

LEMMA CallBecomes ==
    ASSUME CallsShape, NEW q \in Calls, NEW c, call' = [call EXCEPT ![q] = c]
    PROVE  \A x \in Calls : call'[x] = IF x = q THEN c ELSE call[x]
BY DEF CallsShape, CallsTypeOK

LEMMA AccountsMoves ==
    ASSUME CallsShape, NEW q \in Calls, call[q].pc # "idle", NEW n \in 0..MaxActual, Accounts(q, n)
    PROVE  \E c : /\ CallState(c) /\ c.pc \in {"idle", "deduct"}
                  /\ InFlight(c) => call[q].kind # "embed"
                  /\ call' = [call EXCEPT ![q] = c]
<1>1. CallState(call[q]) /\ call[q] \in Call
  BY DEF CallsShape, CallState
<1>2. CASE call[q].kind # "embed" /\ n > 0
  <2> DEFINE c == [call[q] EXCEPT !.pc = "deduct", !.tokens = n]
  <2>1. /\ c.pc = "deduct" /\ c.kind = call[q].kind /\ c.provider = call[q].provider /\ c \in Call
    BY <1>1 DEF Call
  <2>2. call' = [call EXCEPT ![q] = c]
    BY <1>2 DEF Accounts
  <2> HIDE DEF c
  <2>3. CallState(c)
    BY <1>1, <1>2, <2>1 DEF CallState
  <2> QED BY <1>2, <2>1, <2>2, <2>3
<1>3. CASE ~(call[q].kind # "embed" /\ n > 0)
  <2>1. call' = [call EXCEPT ![q] = Idle]
    BY <1>3 DEF Accounts
  <2> QED BY <2>1, IdleState
<1> QED BY <1>2, <1>3

LEMMA ReportedTokens ==
    ASSUME NEW q \in Calls, NEW n \in 0..MaxActual PROVE Reported(q, n) \in 0..MaxActual
BY DEF Reported

\* An answer takes a call away from its check, and commits nothing.
LEMMA AnswerMoves ==
    ASSUME CallsShape, NEW q \in Calls, AnswerStep(q)
    PROVE  \E c : /\ CallState(c) /\ c.pc # "check"
                  /\ InFlight(c) => InFlight(call[q])
                  /\ call' = [call EXCEPT ![q] = c]
<1>0. CallState(call[q]) /\ call[q] \in Call /\ call[q].tokens \in 0..MaxActual
  BY DEF CallsShape, CallState, Call
<1>1. ASSUME NEW n \in 0..MaxActual, Accounts(q, n), call[q].pc \in {"calling", "store"}
      PROVE  \E c : /\ CallState(c) /\ c.pc # "check"
                    /\ InFlight(c) => InFlight(call[q])
                    /\ call' = [call EXCEPT ![q] = c]
  <2>1. PICK c : /\ CallState(c) /\ c.pc \in {"idle", "deduct"}
                 /\ InFlight(c) => call[q].kind # "embed"
                 /\ call' = [call EXCEPT ![q] = c]
    BY <1>1, AccountsMoves
  <2>2. c.pc # "check" /\ (InFlight(c) => InFlight(call[q]))
    BY <1>1, <2>1 DEF InFlight
  <2> QED BY <2>1, <2>2
<1>2. CASE Succeeds(q)
  <2>1. CASE \E n \in 0..MaxActual : Accounts(q, n)
    BY <1>1, <1>2, <2>1 DEF Succeeds
  <2>2. ASSUME NEW n \in 0..MaxActual, call[q].kind # "embed",
               call' = [call EXCEPT ![q].pc = "store", ![q].tokens = n]
        PROVE  \E c : /\ CallState(c) /\ c.pc # "check"
                      /\ InFlight(c) => InFlight(call[q])
                      /\ call' = [call EXCEPT ![q] = c]
    <3> DEFINE c == [call[q] EXCEPT !.pc = "store", !.tokens = n]
    <3>1. c.pc = "store" /\ c.kind = call[q].kind /\ c.provider = call[q].provider /\ c \in Call
      BY <1>0 DEF Call
    <3>2. call' = [call EXCEPT ![q] = c] /\ call[q].pc = "calling"
      BY <1>2, <2>2 DEF Succeeds, CallsShape, CallsTypeOK
    <3> HIDE DEF c
    <3>3. CallState(c) /\ InFlight(call[q])
      BY <1>0, <2>2, <3>1, <3>2 DEF CallState, InFlight
    <3> QED BY <3>1, <3>2, <3>3
  <2> QED BY <1>2, <2>1, <2>2 DEF Succeeds
<1>3. CASE Fails(q)
  BY <1>1, <1>3, ReportedTokens DEF Fails
<1>4. CASE Disconnects(q)
  <2>1. PICK n \in 0..MaxActual : Accounts(q, Reported(q, n)) /\ call[q].pc \in {"calling", "store"}
    BY <1>0, <1>4 DEF Disconnects
  <2> QED BY <1>1, <2>1, ReportedTokens
<1>5. CASE Stores(q)
  BY <1>0, <1>1, <1>5 DEF Stores
<1>6. CASE StoreFails(q)
  BY <1>0, <1>1, <1>6, ReportedTokens DEF StoreFails
<1>7. CASE Deduct(q) \/ DeductFails(q) \/ CheckFails(q)
  <2>1. call' = [call EXCEPT ![q] = Idle]
    BY <1>7 DEF Deduct, DeductFails, CheckFails, CallOver
  <2> QED BY <2>1, IdleState
<1> QED BY <1>2, <1>3, <1>4, <1>5, <1>6, <1>7 DEF AnswerStep

\* A selection gives the call a provider whose breaker lets it through.
LEMMA SelectMoves ==
    ASSUME CallsShape, NEW q \in Calls, SelectStep(q)
    PROVE  \E c, asked :
               /\ CallState(c) /\ c.pc \in {"check", "calling"} /\ ~InFlight(c) /\ ~Shut(c.provider)
               /\ asked \subseteq Providers /\ call' = [call EXCEPT ![q] = c]
               /\ breaker' = [x \in Providers |-> IF x \in asked THEN Asked(breaker[x]) ELSE breaker[x]]
               /\ UNCHANGED <<used, late, faults>>
<1>1. ASSUME NEW p \in Providers, NEW asked \in SUBSET Providers, NEW k \in Kinds,
             Allows(breaker[p]), Chooses(q, p, asked, k)
      PROVE  \E c, A :
               /\ CallState(c) /\ c.pc \in {"check", "calling"} /\ ~InFlight(c) /\ ~Shut(c.provider)
               /\ A \subseteq Providers /\ call' = [call EXCEPT ![q] = c]
               /\ breaker' = [x \in Providers |-> IF x \in A THEN Asked(breaker[x]) ELSE breaker[x]]
               /\ UNCHANGED <<used, late, faults>>
  <2> DEFINE c == [pc |-> IF k = "embed" THEN "calling" ELSE "check",
                   provider |-> p, kind |-> k, tokens |-> 0]
  <2>1. c.pc \in {"check", "calling"} /\ c.provider = p /\ ~InFlight(c) /\ c \in Call
    BY DEF Call, InFlight
  <2>2. /\ call' = [call EXCEPT ![q] = c]
        /\ breaker' = [x \in Providers |-> IF x \in asked THEN Asked(breaker[x]) ELSE breaker[x]]
        /\ UNCHANGED <<used, late, faults>>
    BY <1>1 DEF Chooses
  <2> HIDE DEF c
  <2>3. CallState(c) /\ ~Shut(c.provider)
    BY <1>1, <2>1 DEF CallState, Shut, Allows
  <2> QED BY <2>1, <2>2, <2>3
<1>2. ASSUME NEW k \in Kinds, NEW h \in Providers, SelectHinted(q, h, k)
      PROVE  Allows(breaker[h]) /\ {h} \in SUBSET Providers /\ Chooses(q, h, {h}, k)
  BY <1>2 DEF SelectHinted
<1>3. ASSUME NEW k \in Kinds, NEW m \in Models, Select(q, m, k)
      PROVE  \E p \in Providers : /\ Allows(breaker[p]) /\ CandidatesOf[m] \in SUBSET Providers
                                  /\ Chooses(q, p, CandidatesOf[m], k)
  BY <1>3 DEF Select
<1>4. CASE \E k \in Kinds, h \in Providers : SelectHinted(q, h, k)
  BY <1>1, <1>2, <1>4
<1>5. CASE \E k \in Kinds, m \in Models : Select(q, m, k)
  BY <1>1, <1>3, <1>5
<1> QED BY <1>4, <1>5 DEF SelectStep

LEMMA BreakerTypes ==
    ASSUME NEW b \in Breaker
    PROVE  RecordFailure(b) \in Breaker /\ RecordSuccess(b) \in Breaker /\ Asked(b) \in Breaker
<1> DEFINE n == IF b.fails < FailureThreshold THEN b.fails + 1 ELSE b.fails
<1>1. b.fails \in 0..FailureThreshold /\ b.state \in {"closed", "open", "half_open"} /\ b.cool \in BOOLEAN
  BY DEF Breaker
<1>2. n \in 0..FailureThreshold
  BY <1>1
<1>3. RecordFailure(b) = [state |-> IF n = FailureThreshold THEN "open" ELSE b.state, fails |-> n, cool |-> FALSE]
  BY DEF RecordFailure
<1> HIDE DEF n
<1>4. RecordFailure(b) \in Breaker
  BY <1>1, <1>2, <1>3 DEF Breaker
<1>5. RecordSuccess(b) \in Breaker
  <2> DEFINE s == IF b.state = "half_open" THEN "closed" ELSE b.state
  <2>1. s \in {"closed", "open", "half_open"} /\ 0 \in 0..FailureThreshold
    BY <1>1
  <2>2. RecordSuccess(b) = [b EXCEPT !.fails = 0, !.state = s]
    BY DEF RecordSuccess
  <2> HIDE DEF s
  <2>3. [b EXCEPT !.fails = 0, !.state = s] \in Breaker
    BY <2>1 DEF Breaker
  <2> QED BY <2>2, <2>3
<1>6. Asked(b) \in Breaker
  BY DEF Asked, Breaker
<1> QED BY <1>4, <1>5, <1>6

LEMMA FailureTypes ==
    ASSUME CallsShape, NEW p \in Providers, FailureAt(p)
    PROVE  breaker' \in [Providers -> Breaker] /\ late' \in [Providers -> Nat]
<1>1. breaker[p] \in Breaker
  BY DEF CallsShape, CallsTypeOK
<1>2. RecordFailure(breaker[p]) \in Breaker
  BY <1>1, BreakerTypes
<1> QED BY <1>2 DEF FailureAt, CallsShape, CallsTypeOK

LEMMA ShapeOfCalls ==
    ASSUME CallsShape, NEW q \in Calls, NEW c, CallState(c), call' = [call EXCEPT ![q] = c]
    PROVE  call' \in [Calls -> Call] /\ \A x \in Calls : CallState(call'[x])
<1>1. \A x \in Calls : call'[x] = IF x = q THEN c ELSE call[x]
  BY CallBecomes
<1>2. \A x \in Calls : CallState(call'[x])
  BY <1>1 DEF CallsShape
<1> QED BY <1>2 DEF CallState, CallsShape, CallsTypeOK

LEMMA CallsShapeStep ==
    ASSUME CallsShape, [CallsNext]_callsVars
    PROVE  CallsShape'
<1>1. CASE UNCHANGED callsVars
  BY <1>1 DEF callsVars, CallsShape, CallsTypeOK
<1>2. ASSUME NEW p \in Providers, Cools(p) PROVE CallsShape'
  <2>1. [breaker[p] EXCEPT !.cool = TRUE] \in Breaker
    <3>1. breaker[p] \in Breaker
      BY DEF CallsShape, CallsTypeOK
    <3> QED BY <3>1 DEF Breaker
  <2> QED BY <1>2, <2>1 DEF Cools, CallsShape, CallsTypeOK
<1>3. ASSUME NEW q \in Calls, AnswerStep(q) PROVE CallsShape'
  <2>1. PICK c : CallState(c) /\ call' = [call EXCEPT ![q] = c]
    BY <1>3, AnswerMoves
  <2>2. call' \in [Calls -> Call] /\ \A x \in Calls : CallState(call'[x])
    BY <2>1, ShapeOfCalls
  <2>3. call[q] \in Call /\ (call[q].pc # "idle" => call[q].provider \in Providers)
    BY DEF CallsShape, CallState
  <2>4. breaker' \in [Providers -> Breaker] /\ late' \in [Providers -> Nat]
    <3>1. CASE Fails(q) \/ StoreFails(q)
      <4>1. call[q].provider \in Providers /\ FailureAt(call[q].provider)
        BY <2>3, <3>1 DEF Fails, StoreFails
      <4> QED BY <4>1, FailureTypes
    <3>2. CASE Succeeds(q)
      <4>1. /\ call[q].provider \in Providers /\ late' = late
            /\ breaker' = [breaker EXCEPT ![call[q].provider] = RecordSuccess(breaker[call[q].provider])]
        BY <2>3, <3>2 DEF Succeeds
      <4>2. RecordSuccess(breaker[call[q].provider]) \in Breaker
        BY <4>1, BreakerTypes DEF CallsShape, CallsTypeOK
      <4> QED BY <4>1, <4>2 DEF CallsShape, CallsTypeOK
    <3>3. CASE UNCHANGED <<breaker, late>>
      BY <3>3 DEF CallsShape, CallsTypeOK
    <3> QED BY <1>3, <3>1, <3>2, <3>3 DEF AnswerStep, Disconnects, Stores, Deduct, DeductFails, CheckFails
  <2>5. used' \in Nat
    BY <1>3, <2>3 DEF AnswerStep, Succeeds, Fails, StoreFails, Disconnects, Stores, Deduct, DeductFails,
       CheckFails, CallsShape, CallsTypeOK, Call
  <2>6. faults' \in Nat
    BY <1>3 DEF AnswerStep, Succeeds, Fails, StoreFails, Disconnects, Stores, Deduct, DeductFails,
       CheckFails, CallsShape, CallsTypeOK, Fault
  <2> QED BY <2>2, <2>4, <2>5, <2>6 DEF CallsShape, CallsTypeOK
<1>4. ASSUME NEW q \in Calls, SelectStep(q) PROVE CallsShape'
  <2>1. PICK c, asked :
            /\ CallState(c) /\ call' = [call EXCEPT ![q] = c]
            /\ breaker' = [x \in Providers |-> IF x \in asked THEN Asked(breaker[x]) ELSE breaker[x]]
            /\ UNCHANGED <<used, late, faults>>
    BY <1>4, SelectMoves
  <2>2. call' \in [Calls -> Call] /\ \A x \in Calls : CallState(call'[x])
    BY <2>1, ShapeOfCalls
  <2>3. breaker' \in [Providers -> Breaker]
    BY <2>1, BreakerTypes DEF CallsShape, CallsTypeOK
  <2> QED BY <2>1, <2>2, <2>3 DEF CallsShape, CallsTypeOK
<1>5. ASSUME NEW q \in Calls, BudgetCheck(q) PROVE CallsShape'
  <2>1. CallState(call[q]) /\ call[q].provider \in Providers /\ UNCHANGED <<breaker, used, faults>>
    BY <1>5 DEF CallsShape, CallState, BudgetCheck
  <2>2. CASE CallOver(q) /\ late' = late
    <3>1. call' \in [Calls -> Call] /\ \A x \in Calls : CallState(call'[x])
      BY <2>2, IdleState, ShapeOfCalls DEF CallOver
    <3> QED BY <2>1, <2>2, <3>1 DEF CallsShape, CallsTypeOK
  <2>3. CASE Sends(q)
    <3> DEFINE c == [call[q] EXCEPT !.pc = "calling"]
    <3>1. CallState(c) /\ call' = [call EXCEPT ![q] = c]
      BY <2>1, <2>3 DEF CallState, Call, Sends
    <3> HIDE DEF c
    <3>2. call' \in [Calls -> Call] /\ \A x \in Calls : CallState(call'[x])
      BY <3>1, ShapeOfCalls
    <3>3. late' \in [Providers -> Nat]
      BY <2>1, <2>3 DEF Sends, CallsShape, CallsTypeOK
    <3> QED BY <2>1, <3>2, <3>3 DEF CallsShape, CallsTypeOK
  <2> QED BY <1>5, <2>2, <2>3 DEF BudgetCheck
<1>6. CASE ResetBudget
  BY <1>6 DEF ResetBudget, Fault, CallsShape, CallsTypeOK
<1>7. CASE CallsNext
  BY <1>2, <1>3, <1>4, <1>5, <1>6, <1>7, CallsCases
<1> QED BY <1>1, <1>7

LEMMA CallsShapeInit == ASSUME CallsInit PROVE CallsShape
BY IdleState DEF CallsInit, CallsShape, CallsTypeOK, CallState, Breaker

----------------------------------------------------------------------------
(* An open breaker sheds.                                                  *)

LEMMA WaitingCount ==
    ASSUME NEW S \in SUBSET Calls
    PROVE  /\ IsFiniteSet(S) /\ Cardinality(S) \in Nat /\ Cardinality(S) <= Cardinality(Calls)
           /\ Cardinality(Calls) \in Nat /\ Cardinality(Calls) >= 1
           /\ \A q \in Calls \ S : Cardinality(S) <= Cardinality(Calls) - 1
           /\ \A q \in S : Cardinality(S \ {q}) = Cardinality(S) - 1
           /\ \A T \in SUBSET S : Cardinality(T) \in Nat /\ Cardinality(T) <= Cardinality(S)
<1>1. IsFiniteSet(Calls) /\ IsFiniteSet(S) /\ Cardinality(S) <= Cardinality(Calls)
  BY FS_Subset
<1>2. Cardinality(S) \in Nat /\ Cardinality(Calls) \in Nat
  BY <1>1, FS_CardinalityType
<1>3. Cardinality(Calls) # 0
  BY <1>1, FS_EmptySet
<1>4. ASSUME NEW q \in Calls \ S PROVE Cardinality(S) <= Cardinality(Calls) - 1
  <2>1. S \in SUBSET (Calls \ {q}) /\ IsFiniteSet(Calls \ {q})
    BY <1>1, FS_RemoveElement
  <2>2. Cardinality(S) <= Cardinality(Calls \ {q})
    BY <2>1, FS_Subset
  <2>3. Cardinality(Calls \ {q}) = Cardinality(Calls) - 1
    BY <1>1, FS_RemoveElement
  <2> QED BY <2>2, <2>3
<1>5. ASSUME NEW q \in S PROVE Cardinality(S \ {q}) = Cardinality(S) - 1
  BY <1>1, FS_RemoveElement
<1>6. ASSUME NEW T \in SUBSET S PROVE Cardinality(T) \in Nat /\ Cardinality(T) <= Cardinality(S)
  <2>1. IsFiniteSet(T) /\ Cardinality(T) <= Cardinality(S)
    BY <1>1, FS_Subset
  <2> QED BY <2>1, FS_CardinalityType
<1> QED BY <1>1, <1>2, <1>3, <1>4, <1>5, <1>6

LEMMA ShedStep ==
    ASSUME CallsShape, ShedInv, [CallsNext]_callsVars
    PROVE  ShedInv'
<1>0. \A p \in Providers : breaker[p] \in Breaker /\ late[p] \in Nat
  BY DEF CallsShape, CallsTypeOK
<1>1. CASE UNCHANGED callsVars
  BY <1>1 DEF callsVars, ShedInv, Shut, Waiting
<1>2. ASSUME NEW p \in Providers, Cools(p) PROVE ShedInv'
  <2> SUFFICES ASSUME NEW x \in Providers
               PROVE  IF Shut(x)' THEN late'[x] + Cardinality(Waiting(x)') <= Cardinality(Calls) - 1
                      ELSE late'[x] = 0
    BY DEF ShedInv
  <2>1. Waiting(x)' = Waiting(x)
    BY <1>2 DEF Cools, Waiting
  <2>2. CASE x = p
    BY <1>0, <1>2, <2>2 DEF Cools, Shut, CallsShape, CallsTypeOK, Breaker
  <2>3. CASE x # p
    <3>1. breaker'[x] = breaker[x] /\ late'[x] = late[x]
      BY <1>2, <2>3 DEF Cools, CallsShape, CallsTypeOK
    <3> QED BY <2>1, <3>1 DEF ShedInv, Shut
  <2> QED BY <2>2, <2>3
<1>3. ASSUME NEW q \in Calls, AnswerStep(q) PROVE ShedInv'
  <2> SUFFICES ASSUME NEW x \in Providers
               PROVE  IF Shut(x)' THEN late'[x] + Cardinality(Waiting(x)') <= Cardinality(Calls) - 1
                      ELSE late'[x] = 0
    BY DEF ShedInv
  <2>1. PICK c : c.pc # "check" /\ call' = [call EXCEPT ![q] = c]
    BY <1>3, AnswerMoves
  <2>2. Waiting(x)' \subseteq Waiting(x) /\ q \notin Waiting(x)'
    <3>1. \A y \in Calls : call'[y] = IF y = q THEN c ELSE call[y]
      BY <2>1, CallBecomes
    <3> QED BY <2>1, <3>1 DEF Waiting
  <2>3. /\ Cardinality(Waiting(x)') <= Cardinality(Waiting(x))
        /\ Cardinality(Waiting(x)') <= Cardinality(Calls) - 1
        /\ Cardinality(Waiting(x)) \in Nat /\ Cardinality(Waiting(x)') \in Nat /\ Cardinality(Calls) \in Nat
    <3>1. Waiting(x) \in SUBSET Calls /\ Waiting(x)' \in SUBSET Calls
      BY <2>2 DEF Waiting
    <3> QED BY <2>2, <3>1, WaitingCount
  <2>4. IF Shut(x) THEN late[x] + Cardinality(Waiting(x)) <= Cardinality(Calls) - 1 ELSE late[x] = 0
    BY DEF ShedInv
  <2>5. CASE Fails(q) \/ StoreFails(q)
    <3>1. PICK p \in Providers : p = call[q].provider
      BY <2>5 DEF Fails, StoreFails, CallsShape, CallState
    <3>2. FailureAt(p)
      BY <2>5, <3>1 DEF Fails, StoreFails
    <3>3. CASE x = p
      <4>1. CASE breaker[x].state = "open"
        <5>1. late'[x] = late[x]
          BY <3>2, <3>3, <4>1 DEF FailureAt
        <5>2. breaker'[x] = RecordFailure(breaker[x])
          BY <3>2, <3>3 DEF FailureAt, CallsShape, CallsTypeOK
        <5>3. Shut(x)'
          BY <4>1, <5>2 DEF Shut, RecordFailure
        <5> QED BY <1>0, <2>3, <2>4, <5>1, <5>3
      <4>2. CASE breaker[x].state # "open"
        <5>1. late'[x] = 0
          BY <3>2, <3>3, <4>2 DEF FailureAt, CallsShape, CallsTypeOK
        <5> QED BY <2>3, <5>1
      <4> QED BY <4>1, <4>2
    <3>4. CASE x # p
      <4>1. breaker'[x] = breaker[x] /\ late'[x] = late[x]
        BY <3>2, <3>4 DEF FailureAt, CallsShape, CallsTypeOK
      <4> QED BY <1>0, <2>3, <2>4, <4>1 DEF Shut
    <3> QED BY <3>3, <3>4
  <2>6. CASE ~(Fails(q) \/ StoreFails(q))
    <3>1. late' = late
      BY <1>3, <2>6 DEF AnswerStep, Succeeds, Disconnects, Stores, Deduct, DeductFails, CheckFails
    <3>2. Shut(x)' <=> Shut(x)
      <4>1. CASE Succeeds(q)
        <5>1. PICK p \in Providers : p = call[q].provider
          BY <4>1 DEF Succeeds, CallsShape, CallState
        <5>2. breaker' = [breaker EXCEPT ![p] = RecordSuccess(breaker[p])]
          BY <4>1, <5>1 DEF Succeeds
        <5>3. breaker'[x] = IF x = p THEN RecordSuccess(breaker[x]) ELSE breaker[x]
          BY <5>2 DEF CallsShape, CallsTypeOK
        <5>4. RecordSuccess(breaker[x]).cool = breaker[x].cool
              /\ (RecordSuccess(breaker[x]).state = "open" <=> breaker[x].state = "open")
          BY <1>0 DEF RecordSuccess, Breaker
        <5> QED BY <5>3, <5>4 DEF Shut
      <4>2. CASE ~Succeeds(q)
        <5>1. breaker' = breaker
          BY <1>3, <2>6, <4>2 DEF AnswerStep, Disconnects, Stores, Deduct, DeductFails, CheckFails
        <5> QED BY <5>1 DEF Shut
      <4> QED BY <4>1, <4>2
    <3> QED BY <1>0, <2>3, <2>4, <3>1, <3>2
  <2> QED BY <2>5, <2>6
<1>4. ASSUME NEW q \in Calls, SelectStep(q) PROVE ShedInv'
  <2> SUFFICES ASSUME NEW x \in Providers
               PROVE  IF Shut(x)' THEN late'[x] + Cardinality(Waiting(x)') <= Cardinality(Calls) - 1
                      ELSE late'[x] = 0
    BY DEF ShedInv
  <2>1. PICK c, asked :
            /\ ~Shut(c.provider) /\ call' = [call EXCEPT ![q] = c]
            /\ breaker' = [y \in Providers |-> IF y \in asked THEN Asked(breaker[y]) ELSE breaker[y]]
            /\ UNCHANGED <<used, late, faults>>
    BY <1>4, SelectMoves
  <2>2. Shut(x)' <=> Shut(x)
    <3>1. breaker'[x] = Asked(breaker[x]) \/ breaker'[x] = breaker[x]
      BY <2>1
    <3> QED BY <1>0, <3>1 DEF Shut, Asked, Breaker
  <2>3. CASE Shut(x)
    <3>1. c.provider # x
      BY <2>1, <2>3
    <3>2. Waiting(x)' \subseteq Waiting(x)
      BY <2>1, <3>1, CallBecomes DEF Waiting
    <3>3. Waiting(x) \in SUBSET Calls
      BY DEF Waiting
    <3>4. /\ Cardinality(Waiting(x)') <= Cardinality(Waiting(x)) /\ Cardinality(Calls) \in Nat
          /\ Cardinality(Waiting(x)) \in Nat /\ Cardinality(Waiting(x)') \in Nat
      BY <3>2, <3>3, WaitingCount
    <3>5. late[x] + Cardinality(Waiting(x)) <= Cardinality(Calls) - 1 /\ late'[x] = late[x]
      BY <2>1, <2>3 DEF ShedInv
    <3> QED BY <1>0, <2>2, <2>3, <3>4, <3>5
  <2>4. CASE ~Shut(x)
    BY <2>1, <2>2, <2>4 DEF ShedInv
  <2> QED BY <2>3, <2>4
<1>5. ASSUME NEW q \in Calls, BudgetCheck(q) PROVE ShedInv'
  <2> SUFFICES ASSUME NEW x \in Providers
               PROVE  IF Shut(x)' THEN late'[x] + Cardinality(Waiting(x)') <= Cardinality(Calls) - 1
                      ELSE late'[x] = 0
    BY DEF ShedInv
  <2>1. PICK p \in Providers : p = call[q].provider /\ call[q].pc = "check"
    BY <1>5 DEF BudgetCheck, CallsShape, CallState
  <2>2. PICK c : c.pc # "check" /\ call' = [call EXCEPT ![q] = c]
    <3>1. CASE CallOver(q)
      BY <3>1, IdleState DEF CallOver
    <3>2. CASE Sends(q)
      <4> DEFINE c == [call[q] EXCEPT !.pc = "calling"]
      <4>1. c.pc = "calling" /\ call' = [call EXCEPT ![q] = c]
        BY <3>2 DEF Sends, CallsShape, CallState, Call
      <4> QED BY <4>1
    <3> QED BY <1>5, <3>1, <3>2 DEF BudgetCheck
  <2>3. /\ Waiting(x)' = Waiting(x) \ {q}
        /\ q \in Waiting(p)
    <3>1. \A y \in Calls : call'[y] = IF y = q THEN c ELSE call[y]
      BY <2>2, CallBecomes
    <3> QED BY <2>1, <2>2, <3>1 DEF Waiting
  <2>4. /\ Cardinality(Waiting(x)) \in Nat /\ Cardinality(Waiting(x)') \in Nat
        /\ Cardinality(Waiting(x)') <= Cardinality(Waiting(x)) /\ Cardinality(Calls) \in Nat
        /\ x = p => Cardinality(Waiting(x)') = Cardinality(Waiting(x)) - 1
    <3>1. Waiting(x) \in SUBSET Calls /\ Waiting(x)' \in SUBSET Waiting(x)
      BY <2>3 DEF Waiting
    <3> QED BY <2>3, <3>1, WaitingCount
  <2>5. (Shut(x)' <=> Shut(x)) /\ late'[x] = IF Shut(x) /\ x = p /\ Sends(q) THEN late[x] + 1 ELSE late[x]
    <3>1. breaker' = breaker
      BY <1>5 DEF BudgetCheck
    <3>2. CASE Sends(q)
      BY <2>1, <3>1, <3>2 DEF Sends, Shut, CallsShape, CallsTypeOK
    <3>3. CASE ~Sends(q)
      BY <1>5, <3>1, <3>3 DEF BudgetCheck, Shut
    <3> QED BY <3>2, <3>3
  <2>6. IF Shut(x) THEN late[x] + Cardinality(Waiting(x)) <= Cardinality(Calls) - 1 ELSE late[x] = 0
    BY DEF ShedInv
  <2> QED BY <1>0, <2>4, <2>5, <2>6
<1>6. CASE ResetBudget
  BY <1>6 DEF ResetBudget, ShedInv, Shut, Waiting
<1>7. CASE CallsNext
  BY <1>2, <1>3, <1>4, <1>5, <1>6, <1>7, CallsCases
<1> QED BY <1>1, <1>7

----------------------------------------------------------------------------
(* The budget.                                                             *)

LEMMA Committing ==
    ASSUME NEW n \in Nat, NEW m \in Nat, n <= m
    PROVE  n * MaxActual \in Nat /\ m * MaxActual \in Nat /\ n * MaxActual <= m * MaxActual
           /\ (n + 1) * MaxActual = n * MaxActual + MaxActual
OBVIOUS

LEMMA BudgetStep ==
    ASSUME CallsShape, BudgetInv, [CallsNext]_callsVars
    PROVE  BudgetInv'
<1> SUFFICES ASSUME Limit >= MaxTokens, Limit > 0
             PROVE  used' + Cardinality(Committed') * MaxActual <=
                        Limit - MaxTokens + Cardinality(Calls) * MaxActual
  BY DEF BudgetInv
<1>0. /\ used + Cardinality(Committed) * MaxActual <= Limit - MaxTokens + Cardinality(Calls) * MaxActual
      /\ used \in Nat
  BY DEF BudgetInv, CallsShape, CallsTypeOK
<1>1. /\ Committed \in SUBSET Calls /\ Committed' \in SUBSET Calls
      /\ Cardinality(Committed) \in Nat /\ Cardinality(Committed') \in Nat
      /\ Cardinality(Calls) \in Nat /\ Cardinality(Committed') <= Cardinality(Calls)
  <2>1. Committed \in SUBSET Calls /\ Committed' \in SUBSET Calls
    BY DEF Committed
  <2> QED BY <2>1, WaitingCount
<1>2. /\ Cardinality(Committed) * MaxActual \in Nat /\ Cardinality(Committed') * MaxActual \in Nat
      /\ Cardinality(Calls) * MaxActual \in Nat
      /\ Cardinality(Committed') * MaxActual <= Cardinality(Calls) * MaxActual
  BY <1>1, Committing
\* Nobody commits: the count of the committed does not grow.
<1>3. ASSUME used' <= used, used' \in Nat, Committed' \subseteq Committed
      PROVE  used' + Cardinality(Committed') * MaxActual <=
                 Limit - MaxTokens + Cardinality(Calls) * MaxActual
  <2>1. Cardinality(Committed') <= Cardinality(Committed)
    BY <1>1, <1>3, WaitingCount
  <2>2. Cardinality(Committed') * MaxActual <= Cardinality(Committed) * MaxActual
    BY <1>1, <2>1, Committing
  <2> QED BY <1>0, <1>2, <1>3, <2>2
<1>4. CASE UNCHANGED callsVars
  <2>1. Committed' = Committed /\ used' = used
    BY <1>4 DEF callsVars, Committed
  <2> QED BY <1>0, <2>1
<1>5. ASSUME NEW p \in Providers, Cools(p)
      PROVE  used' + Cardinality(Committed') * MaxActual <=
                 Limit - MaxTokens + Cardinality(Calls) * MaxActual
  <2>1. Committed' = Committed /\ used' = used
    BY <1>5 DEF Cools, Committed
  <2> QED BY <1>0, <2>1
<1>6. ASSUME NEW q \in Calls, AnswerStep(q)
      PROVE  used' + Cardinality(Committed') * MaxActual <=
                 Limit - MaxTokens + Cardinality(Calls) * MaxActual
  <2>1. PICK c : (InFlight(c) => InFlight(call[q])) /\ call' = [call EXCEPT ![q] = c]
    BY <1>6, AnswerMoves
  <2>2. \A x \in Calls : call'[x] = IF x = q THEN c ELSE call[x]
    BY <2>1, CallBecomes
  <2>3. Committed' \subseteq Committed
    BY <2>1, <2>2 DEF Committed
  <2>4. CASE Deduct(q)
    <3>1. call[q].pc = "deduct" /\ used' = used + call[q].tokens /\ call' = [call EXCEPT ![q] = Idle]
      BY <2>4 DEF Deduct, CallOver
    <3>2. call[q].tokens \in 0..MaxActual
      BY DEF CallsShape, CallState, Call
    <3>3. q \notin Committed'
      <4>1. call'[q] = Idle
        BY <3>1 DEF CallsShape, CallsTypeOK
      <4> QED BY <4>1, IdleState DEF Committed
    <3>4. CASE call[q].kind # "embed"
      <4>1. q \in Committed
        BY <3>1, <3>4 DEF Committed, InFlight
      <4>2. Cardinality(Committed \ {q}) = Cardinality(Committed) - 1
        BY <1>1, <4>1, WaitingCount
      <4>3. Committed' \in SUBSET (Committed \ {q}) /\ Committed \ {q} \in SUBSET Calls
        BY <1>1, <2>3, <3>3
      <4>4. Cardinality(Committed') + 1 <= Cardinality(Committed)
        <5>1. Cardinality(Committed') <= Cardinality(Committed \ {q})
          BY <4>3, WaitingCount
        <5> QED BY <1>1, <4>2, <5>1
      <4>5. Cardinality(Committed') * MaxActual + MaxActual <= Cardinality(Committed) * MaxActual
        <5>1. (Cardinality(Committed') + 1) * MaxActual <= Cardinality(Committed) * MaxActual
          BY <1>1, <4>4, Committing
        <5>2. (Cardinality(Committed') + 1) * MaxActual = Cardinality(Committed') * MaxActual + MaxActual
          BY <1>1, Committing
        <5> QED BY <5>1, <5>2
      <4> QED BY <1>0, <1>2, <3>1, <3>2, <4>5
    <3>5. CASE call[q].kind = "embed"
      BY <3>1, <3>5 DEF CallsShape, CallState
    <3> QED BY <3>4, <3>5
  <2>5. CASE ~Deduct(q)
    <3>1. used' = used
      BY <1>6, <2>5 DEF AnswerStep, Succeeds, Fails, StoreFails, Disconnects, Stores, DeductFails, CheckFails
    <3> QED BY <1>0, <1>3, <2>3, <3>1
  <2> QED BY <2>4, <2>5
<1>7. ASSUME NEW q \in Calls, SelectStep(q)
      PROVE  used' + Cardinality(Committed') * MaxActual <=
                 Limit - MaxTokens + Cardinality(Calls) * MaxActual
  <2>1. PICK c : ~InFlight(c) /\ call' = [call EXCEPT ![q] = c] /\ used' = used
    BY <1>7, SelectMoves
  <2>2. \A x \in Calls : call'[x] = IF x = q THEN c ELSE call[x]
    BY <2>1, CallBecomes
  <2>3. Committed' \subseteq Committed
    BY <2>1, <2>2 DEF Committed
  <2> QED BY <1>0, <1>3, <2>1, <2>3
<1>8. ASSUME NEW q \in Calls, BudgetCheck(q)
      PROVE  used' + Cardinality(Committed') * MaxActual <=
                 Limit - MaxTokens + Cardinality(Calls) * MaxActual
  <2>1. used' = used
    BY <1>8 DEF BudgetCheck
  <2>2. CASE used + MaxTokens > Limit
    <3>1. call' = [call EXCEPT ![q] = Idle]
      BY <1>8, <2>2 DEF BudgetCheck, CallOver
    <3>2. \A x \in Calls : call'[x] = IF x = q THEN Idle ELSE call[x]
      BY <3>1, CallBecomes
    <3>3. Committed' \subseteq Committed
      BY <3>2, IdleState DEF Committed
    <3> QED BY <1>0, <1>3, <2>1, <3>3
  <2>3. CASE ~(used + MaxTokens > Limit)
    BY <1>0, <1>2, <2>1, <2>3
  <2> QED BY <2>2, <2>3
<1>9. CASE ResetBudget
  BY <1>2, <1>9 DEF ResetBudget
<1>10. CASE CallsNext
  BY <1>5, <1>6, <1>7, <1>8, <1>9, <1>10, CallsCases
<1> QED BY <1>4, <1>10

LEMMA CallsInvInit == ASSUME CallsInit PROVE ShedInv /\ BudgetInv
<1>1. ShedInv
  BY DEF CallsInit, ShedInv, Shut
<1>2. Committed = {}
  BY IdleState DEF CallsInit, Committed
<1>3. Cardinality(Committed) = 0 /\ used = 0 /\ Cardinality(Calls) \in Nat
  BY <1>2, FS_EmptySet, FS_CardinalityType DEF CallsInit
<1>4. Cardinality(Calls) * MaxActual \in Nat
  BY <1>3
<1>5. Limit >= MaxTokens => 0 + 0 * MaxActual <= Limit - MaxTokens + Cardinality(Calls) * MaxActual
  BY <1>4
<1> QED BY <1>1, <1>3, <1>5 DEF BudgetInv

LEMMA CallsInvImplies ==
    ASSUME CallsShape, ShedInv, BudgetInv PROVE OpenSheds /\ BudgetOvershootBounded
<1>1. OpenSheds
  <2> SUFFICES ASSUME NEW p \in Providers PROVE late[p] <= Cardinality(Calls) - 1
    BY DEF OpenSheds
  <2>1. Waiting(p) \in SUBSET Calls /\ late[p] \in Nat
    BY DEF Waiting, CallsShape, CallsTypeOK
  <2>2. Cardinality(Waiting(p)) \in Nat /\ Cardinality(Calls) \in Nat /\ Cardinality(Calls) >= 1
    BY <2>1, WaitingCount
  <2> QED BY <2>1, <2>2 DEF ShedInv
<1>2. BudgetOvershootBounded
  <2> SUFFICES ASSUME Limit >= MaxTokens, Limit > 0
               PROVE  used <= Limit - MaxTokens + Cardinality(Calls) * MaxActual
    BY DEF BudgetOvershootBounded
  <2>1. Committed \in SUBSET Calls /\ used \in Nat
    BY DEF Committed, CallsShape, CallsTypeOK
  <2>2. Cardinality(Committed) \in Nat /\ Cardinality(Calls) \in Nat
    BY <2>1, WaitingCount
  <2>3. Cardinality(Committed) * MaxActual \in Nat /\ Cardinality(Calls) * MaxActual \in Nat
    BY <2>2, Committing
  <2>4. used + Cardinality(Committed) * MaxActual <= Limit - MaxTokens + Cardinality(Calls) * MaxActual
    BY DEF BudgetInv
  <2> QED BY <2>1, <2>3, <2>4
<1> QED BY <1>1, <1>2

\* A provider whose breaker is open gets no more calls than were on their way,
\* whatever outcomes of earlier calls come late (GatewayRouter._select, allow).
THEOREM BreakersShed == CallsSpec => []OpenSheds
<1>1. CallsInit => CallsShape /\ ShedInv /\ BudgetInv
  BY CallsShapeInit, CallsInvInit
<1>2. CallsShape /\ ShedInv /\ BudgetInv /\ [CallsNext]_callsVars => (CallsShape /\ ShedInv /\ BudgetInv)'
  BY CallsShapeStep, ShedStep, BudgetStep
<1>3. CallsShape /\ ShedInv /\ BudgetInv => OpenSheds
  BY CallsInvImplies
<1> QED BY <1>1, <1>2, <1>3, PTL DEF CallsSpec

\* The tenant's budget is exceeded by no more than what the coroutines between
\* check and deduction can use, for any limit and any number of them
\* (TokenBudget.check, deduct).
THEOREM OvershootIsBounded == CallsSpec => []BudgetOvershootBounded
<1>1. CallsInit => CallsShape /\ ShedInv /\ BudgetInv
  BY CallsShapeInit, CallsInvInit
<1>2. CallsShape /\ ShedInv /\ BudgetInv /\ [CallsNext]_callsVars => (CallsShape /\ ShedInv /\ BudgetInv)'
  BY CallsShapeStep, ShedStep, BudgetStep
<1>3. CallsShape /\ ShedInv /\ BudgetInv => BudgetOvershootBounded
  BY CallsInvImplies
<1> QED BY <1>1, <1>2, <1>3, PTL DEF CallsSpec

----------------------------------------------------------------------------
(* Coalesced requests.                                                     *)

LEMMA ReqBecomes ==
    ASSUME CoCore, NEW r \in CoReqs, NEW c, CoReqState(c), creq' = [creq EXCEPT ![r] = c]
    PROVE  /\ creq' \in [CoReqs -> CoReq] /\ \A x \in CoReqs : CoReqState(creq'[x])
           /\ \A x \in CoReqs : creq'[x] = IF x = r THEN c ELSE creq[x]
<1>1. \A x \in CoReqs : creq'[x] = IF x = r THEN c ELSE creq[x]
  BY DEF CoCore
<1>2. \A x \in CoReqs : CoReqState(creq'[x])
  BY <1>1 DEF CoCore
<1> QED BY <1>1, <1>2 DEF CoReqState, CoCore

\* A request only opens its own future, and closes it before it moves on.
OpensNothing(r) ==
    /\ future' \in Futures
    /\ \A f \in CoReqs : future'[f] = "open" => future[f] = "open" /\ (creq[r].pc = "calling" => f # r)

LEMMA MoveKeeps ==
    ASSUME CoCore, NEW r \in CoReqs, NEW pc, pc \in {"first", "second", "clean", "done"}, Moves(r, pc),
           creq[r].pc \in {"calling", "clean"} => pc = "clean", pc = "clean" => creq[r].pc = "calling",
           UNCHANGED <<pending, pendingCount, abandoned>>, OpensNothing(r),
           lockHolder' \in CoReqs \union {NoReq}, lockQueue' \in Seq(CoReqs)
    PROVE  CoCore'
<1> DEFINE c == [creq[r] EXCEPT !.pc = pc]
<1>1. CoReqState(creq[r]) /\ creq[r] \in CoReq
  BY DEF CoCore, CoReqState
<1>2. c.pc = pc /\ c.key = creq[r].key /\ c.fut = creq[r].fut /\ c \in CoReq
  BY <1>1 DEF CoReq
<1>3. creq' = [creq EXCEPT ![r] = c]
  BY DEF Moves
<1> HIDE DEF c
<1>4. CoReqState(c)
  BY <1>1, <1>2 DEF CoReqState
<1>5. /\ creq' \in [CoReqs -> CoReq] /\ \A x \in CoReqs : CoReqState(creq'[x])
      /\ \A x \in CoReqs : creq'[x] = IF x = r THEN c ELSE creq[x]
  BY <1>3, <1>4, ReqBecomes
<1>6. \A k \in CoKeys : pending'[k] # NoReq => Runner(k)' \/ k \in abandoned'
  <2> SUFFICES ASSUME NEW k \in CoKeys, Runner(k) PROVE Runner(k)'
    BY DEF CoCore
  <2>1. PICK x \in CoReqs : creq[x].pc \in {"calling", "clean"} /\ creq[x].key = k /\ creq[x].fut = pending[k]
    BY DEF Runner
  <2>2. creq'[x].pc \in {"calling", "clean"} /\ creq'[x].key = k /\ creq'[x].fut = pending'[k]
    BY <1>2, <1>5, <2>1
  <2> QED BY <2>2 DEF Runner
<1>7. FuturesHaveACall'
  <2> SUFFICES ASSUME NEW f \in CoReqs, future'[f] = "open" PROVE creq'[f].pc = "calling" /\ creq'[f].fut = f
    BY DEF FuturesHaveACall
  <2>1. future[f] = "open" /\ creq[f].pc = "calling" /\ creq[f].fut = f /\ f # r
    BY DEF OpensNothing, CoCore, FuturesHaveACall
  <2> QED BY <1>5, <2>1
<1> QED BY <1>5, <1>6, <1>7 DEF CoCore, OpensNothing

LEMMA CleanUpKeeps ==
    ASSUME CoCore, NEW r \in CoReqs, NEW waiting \in Seq(CoReqs),
           creq[r].pc \in {"calling", "clean"}, CleanUp(r, waiting, future'), OpensNothing(r), abandoned' = abandoned
    PROVE  CoCore'
<1> DEFINE c == [creq[r] EXCEPT !.pc = "done"]
<1>1. CoReqState(creq[r]) /\ creq[r] \in CoReq /\ creq[r].key \in CoKeys
  BY DEF CoCore, CoReqState, CoReq
<1>2. c.pc = "done" /\ c \in CoReq /\ CoReqState(c)
  BY <1>1 DEF CoReq, CoReqState
<1>3. creq' = [creq EXCEPT ![r] = c]
  BY DEF CleanUp, Moves
<1> HIDE DEF c
<1>4. /\ creq' \in [CoReqs -> CoReq] /\ \A x \in CoReqs : CoReqState(creq'[x])
      /\ \A x \in CoReqs : creq'[x] = IF x = r THEN c ELSE creq[x]
  BY <1>2, <1>3, ReqBecomes
<1>5. /\ pending' \in [CoKeys -> CoReqs \union {NoReq}] /\ pendingCount' = pendingCount - 1
      /\ lockQueue' = waiting /\ lockHolder' = lockHolder
      /\ \A k \in CoKeys : pending'[k] = IF k = creq[r].key THEN NoReq ELSE pending[k]
  BY DEF CleanUp, CoCore
<1>6. \A k \in CoKeys : pending'[k] # NoReq => Runner(k)' \/ k \in abandoned'
  <2> SUFFICES ASSUME NEW k \in CoKeys, pending'[k] # NoReq PROVE Runner(k)' \/ k \in abandoned
    OBVIOUS
  <2>1. k # creq[r].key /\ pending'[k] = pending[k]
    BY <1>5
  <2>2. CASE Runner(k)
    <3>1. PICK x \in CoReqs : creq[x].pc \in {"calling", "clean"} /\ creq[x].key = k /\ creq[x].fut = pending[k]
      BY <2>2 DEF Runner
    <3>2. creq'[x] = creq[x]
      BY <1>4, <2>1, <3>1
    <3> QED BY <2>1, <3>1, <3>2 DEF Runner
  <2>3. CASE k \in abandoned
    BY <2>3
  <2> QED BY <2>1, <2>2, <2>3 DEF CoCore
<1>7. FuturesHaveACall'
  <2> SUFFICES ASSUME NEW f \in CoReqs, future'[f] = "open" PROVE creq'[f].pc = "calling" /\ creq'[f].fut = f
    BY DEF FuturesHaveACall
  <2>1. future[f] = "open" /\ creq[f].pc = "calling" /\ creq[f].fut = f /\ f # r
    BY DEF OpensNothing, CoCore, FuturesHaveACall
  <2> QED BY <1>4, <2>1
<1>8. pendingCount' \in Int /\ pendingCount' <= MaxPending
  BY <1>5 DEF CoCore
<1> QED BY <1>4, <1>5, <1>6, <1>7, <1>8 DEF CoCore, OpensNothing

LEMMA FindsKeeps ==
    ASSUME CoCore, NEW r \in CoReqs, NEW waiting \in Seq(CoReqs), NEW pc, pc \in {"join", "calling"},
           creq[r].pc \notin {"calling", "clean"}, Finds(r, pc, waiting), abandoned' = abandoned
    PROVE  CoCore'
<1> DEFINE c == [creq[r] EXCEPT !.pc = pc, !.fut = pending[creq[r].key]]
<1>1. CoReqState(creq[r]) /\ creq[r] \in CoReq /\ creq[r].key \in CoKeys
  BY DEF CoCore, CoReqState, CoReq
<1>2. pending[creq[r].key] \in CoReqs
  BY <1>1 DEF Finds, CoCore
<1>3. c.pc = pc /\ c.fut \in CoReqs /\ c \in CoReq
  BY <1>1, <1>2 DEF CoReq
<1>4. creq' = [creq EXCEPT ![r] = c]
  BY DEF Finds, CoCore
<1> HIDE DEF c
<1>5. CoReqState(c)
  BY <1>3 DEF CoReqState
<1>6. /\ creq' \in [CoReqs -> CoReq] /\ \A x \in CoReqs : CoReqState(creq'[x])
      /\ \A x \in CoReqs : creq'[x] = IF x = r THEN c ELSE creq[x]
  BY <1>4, <1>5, ReqBecomes
<1>7. UNCHANGED <<pending, pendingCount, future, lockHolder>> /\ lockQueue' = waiting
  BY DEF Finds
<1>8. \A k \in CoKeys : Runner(k) => Runner(k)'
  <2> SUFFICES ASSUME NEW k \in CoKeys, Runner(k) PROVE Runner(k)'
    OBVIOUS
  <2>1. PICK x \in CoReqs : creq[x].pc \in {"calling", "clean"} /\ creq[x].key = k /\ creq[x].fut = pending[k]
    BY DEF Runner
  <2>2. creq'[x] = creq[x]
    BY <1>6, <2>1
  <2> QED BY <1>7, <2>1, <2>2 DEF Runner
<1>9. FuturesHaveACall'
  <2> SUFFICES ASSUME NEW f \in CoReqs, future[f] = "open" PROVE creq'[f].pc = "calling" /\ creq'[f].fut = f
    BY <1>7 DEF FuturesHaveACall
  <2>1. creq[f].pc = "calling" /\ creq[f].fut = f
    BY DEF CoCore, FuturesHaveACall
  <2> QED BY <1>6, <2>1
<1> QED BY <1>6, <1>7, <1>8, <1>9 DEF CoCore

LEMMA RegisterKeeps ==
    ASSUME CoCore, NEW r \in CoReqs, NEW waiting \in Seq(CoReqs),
           creq[r].pc \notin {"calling", "clean"}, Register(r, waiting), abandoned' = abandoned
    PROVE  CoCore'
<1>1. CoReqState(creq[r]) /\ creq[r] \in CoReq /\ creq[r].key \in CoKeys
  BY DEF CoCore, CoReqState, CoReq
<1>2. future[r] # "open"
  BY DEF CoCore, FuturesHaveACall
<1>3. CASE Moves(r, "holding") /\ lockHolder' = r /\ UNCHANGED <<pending, pendingCount, future>>
  <2> DEFINE c == [creq[r] EXCEPT !.pc = "holding"]
  <2>1. CoReqState(c)
    BY <1>1 DEF CoReq, CoReqState
  <2>2. creq' = [creq EXCEPT ![r] = c]
    BY <1>3 DEF Moves
  <2> HIDE DEF c
  <2>3. /\ creq' \in [CoReqs -> CoReq] /\ \A x \in CoReqs : CoReqState(creq'[x])
        /\ \A x \in CoReqs : creq'[x] = IF x = r THEN c ELSE creq[x]
    BY <2>1, <2>2, ReqBecomes
  <2>4. \A k \in CoKeys : Runner(k) => Runner(k)'
    <3> SUFFICES ASSUME NEW k \in CoKeys, Runner(k) PROVE Runner(k)'
      OBVIOUS
    <3>1. PICK x \in CoReqs : creq[x].pc \in {"calling", "clean"} /\ creq[x].key = k /\ creq[x].fut = pending[k]
      BY DEF Runner
    <3>2. creq'[x] = creq[x]
      BY <2>3, <3>1
    <3> QED BY <1>3, <3>1, <3>2 DEF Runner
  <2>5. FuturesHaveACall'
    <3> SUFFICES ASSUME NEW f \in CoReqs, future[f] = "open" PROVE creq'[f].pc = "calling" /\ creq'[f].fut = f
      BY <1>3 DEF FuturesHaveACall
    <3>1. creq[f].pc = "calling" /\ creq[f].fut = f
      BY DEF CoCore, FuturesHaveACall
    <3> QED BY <2>3, <3>1
  <2>6. lockQueue' = waiting
    BY DEF Register
  <2> QED BY <1>3, <2>3, <2>4, <2>5, <2>6 DEF CoCore
<1>4. CASE ~AtLimit /\ lockHolder' = lockHolder
           /\ creq' = [creq EXCEPT ![r].pc = "calling", ![r].fut = r]
           /\ pending' = [pending EXCEPT ![creq[r].key] = r]
           /\ pendingCount' = pendingCount + 1
           /\ future' = [future EXCEPT ![r] = "open"]
  <2> DEFINE c == [creq[r] EXCEPT !.pc = "calling", !.fut = r]
  <2>0. CoReqState(c)
    BY <1>1 DEF CoReq, CoReqState
  <2>1. c.pc = "calling" /\ c.fut = r /\ c.key = creq[r].key
    BY <1>1 DEF CoReq
  <2>2. creq' = [creq EXCEPT ![r] = c]
    BY <1>4 DEF CoCore
  <2> HIDE DEF c
  <2>3. /\ creq' \in [CoReqs -> CoReq] /\ \A x \in CoReqs : CoReqState(creq'[x])
        /\ \A x \in CoReqs : creq'[x] = IF x = r THEN c ELSE creq[x]
    BY <2>0, <2>2, ReqBecomes
  <2>4. /\ pending' \in [CoKeys -> CoReqs \union {NoReq}]
        /\ \A k \in CoKeys : pending'[k] = IF k = creq[r].key THEN r ELSE pending[k]
    BY <1>4 DEF CoCore
  <2>5. future' \in Futures /\ \A f \in CoReqs : future'[f] = IF f = r THEN "open" ELSE future[f]
    BY <1>4 DEF CoCore, Futures
  <2>6. pendingCount' \in Int /\ pendingCount' <= MaxPending
    BY <1>4 DEF AtLimit, CoCore
  <2>7. \A k \in CoKeys : pending'[k] # NoReq => Runner(k)' \/ k \in abandoned'
    <3> SUFFICES ASSUME NEW k \in CoKeys, pending'[k] # NoReq PROVE Runner(k)' \/ k \in abandoned
      OBVIOUS
    <3>1. CASE k = creq[r].key
      BY <2>1, <2>3, <2>4, <3>1 DEF Runner
    <3>2. CASE k # creq[r].key /\ Runner(k)
      <4>1. PICK x \in CoReqs : creq[x].pc \in {"calling", "clean"} /\ creq[x].key = k /\ creq[x].fut = pending[k]
        BY <3>2 DEF Runner
      <4>2. creq'[x] = creq[x]
        BY <2>3, <4>1
      <4> QED BY <2>4, <3>2, <4>1, <4>2 DEF Runner
    <3>3. CASE k # creq[r].key /\ ~Runner(k)
      BY <2>4, <3>3 DEF CoCore
    <3> QED BY <3>1, <3>2, <3>3
  <2>8. FuturesHaveACall'
    <3> SUFFICES ASSUME NEW f \in CoReqs, future'[f] = "open" PROVE creq'[f].pc = "calling" /\ creq'[f].fut = f
      BY DEF FuturesHaveACall
    <3>1. CASE f = r
      BY <2>1, <2>3, <3>1
    <3>2. CASE f # r
      <4>1. creq[f].pc = "calling" /\ creq[f].fut = f
        BY <2>5, <3>2 DEF CoCore, FuturesHaveACall
      <4> QED BY <2>3, <3>2, <4>1
    <3> QED BY <3>1, <3>2
  <2>9. lockQueue' = waiting
    BY DEF Register
  <2> QED BY <1>4, <2>3, <2>4, <2>5, <2>6, <2>7, <2>8, <2>9 DEF CoCore
<1> QED BY <1>3, <1>4 DEF Register

\* Who waits for the lock.
LEMMA TailOfQueue ==
    ASSUME CoCore, lockQueue # << >> PROVE Tail(lockQueue) \in Seq(CoReqs)
<1>1. lockQueue \in Seq(CoReqs)
  BY DEF CoCore
<1> QED BY <1>1, HeadTailProperties

LEMMA JoinsQueue ==
    ASSUME CoCore, NEW r \in CoReqs, NEW q \in Seq(CoReqs) PROVE Append(q, r) \in Seq(CoReqs)
OBVIOUS

LEMMA ResolvedCloses ==
    ASSUME CoCore, NEW r \in CoReqs, creq[r].pc = "calling", NEW outcome,
           outcome \in {"value", "error", "cancelled"}
    PROVE  /\ Resolved(creq[r].fut, outcome) \in Futures
           /\ \A f \in CoReqs : Resolved(creq[r].fut, outcome)[f] = "open" => future[f] = "open" /\ f # r
<1>1. creq[r].fut \in CoReqs /\ (future[r] = "open" => creq[r].fut = r)
  BY DEF CoCore, CoReqState, FuturesHaveACall
<1> QED BY <1>1 DEF Resolved, CoCore, Futures

LEMMA EndsKeeps ==
    ASSUME CoCore, NEW r \in CoReqs, NEW outcome, outcome \in {"value", "error", "cancelled"},
           Ends(r, outcome)
    PROVE  CoCore' /\ abandoned' = abandoned
<1> DEFINE fut == Resolved(creq[r].fut, outcome)
<1>1. /\ creq[r].pc = "calling" /\ abandoned' = abandoned
      /\ \/ LockFree /\ CleanUp(r, << >>, fut)
         \/ /\ future' = fut /\ Moves(r, "clean") /\ lockQueue' = Append(lockQueue, r)
            /\ UNCHANGED <<pending, pendingCount, lockHolder>>
  BY DEF Ends
<1>2. fut \in Futures /\ \A f \in CoReqs : fut[f] = "open" => future[f] = "open" /\ f # r
  BY <1>1, ResolvedCloses
<1> HIDE DEF fut
<1>3. future' = fut
  BY <1>1 DEF CleanUp
<1>4. OpensNothing(r)
  BY <1>2, <1>3 DEF OpensNothing
<1>5. CASE CleanUp(r, << >>, fut)
  <2>1. << >> \in Seq(CoReqs)
    OBVIOUS
  <2>2. CleanUp(r, << >>, future')
    BY <1>3, <1>5
  <2> QED BY <1>1, <1>4, <2>1, <2>2, CleanUpKeeps
<1>6. CASE /\ Moves(r, "clean") /\ lockQueue' = Append(lockQueue, r)
           /\ UNCHANGED <<pending, pendingCount, lockHolder>>
  <2>1. lockQueue' \in Seq(CoReqs) /\ lockHolder' \in CoReqs \union {NoReq}
    BY <1>6, JoinsQueue DEF CoCore
  <2> QED BY <1>1, <1>4, <1>6, <2>1, MoveKeeps
<1> QED BY <1>1, <1>5, <1>6

LEMMA ArrivesKeeps ==
    ASSUME CoCore, NEW r \in CoReqs, Arrives(r) PROVE CoCore' /\ UNCHANGED <<abandoned, cancels>>
<1>1. creq[r].pc = "idle" /\ UNCHANGED <<abandoned, cancels>> /\ << >> \in Seq(CoReqs)
  BY DEF Arrives
<1>2. CASE Finds(r, "join", << >>)
  BY <1>1, <1>2, FindsKeeps
<1>3. CASE Register(r, << >>)
  BY <1>1, <1>3, RegisterKeeps
<1>4. CASE /\ Moves(r, "first") /\ lockQueue' = Append(lockQueue, r)
           /\ UNCHANGED <<pending, pendingCount, future, lockHolder>>
  <2>1. /\ lockQueue' \in Seq(CoReqs) /\ lockHolder' \in CoReqs \union {NoReq}
    BY <1>4, JoinsQueue DEF CoCore
  <2>2. OpensNothing(r)
    BY <1>1, <1>4 DEF OpensNothing, CoCore
  <2> QED BY <1>1, <1>4, <2>1, <2>2, MoveKeeps
<1> QED BY <1>1, <1>2, <1>3, <1>4 DEF Arrives

LEMMA GrantedKeeps ==
    ASSUME CoCore, NEW r \in CoReqs, Granted(r) PROVE CoCore' /\ UNCHANGED <<abandoned, cancels>>
<1>1. /\ lockQueue # << >> /\ UNCHANGED <<abandoned, cancels>> /\ << >> \in Seq(CoReqs)
      /\ Tail(lockQueue) \in Seq(CoReqs)
  BY TailOfQueue DEF Granted
<1>2. CASE creq[r].pc = "first" /\ Finds(r, "join", Tail(lockQueue))
  BY <1>1, <1>2, FindsKeeps
<1>3. CASE creq[r].pc = "first" /\ Yields(r, Tail(lockQueue))
  <2>1. /\ Moves(r, "second") /\ lockQueue' = Append(Tail(lockQueue), r)
        /\ UNCHANGED <<pending, pendingCount, future, lockHolder>>
    BY <1>3 DEF Yields
  <2>2. lockQueue' \in Seq(CoReqs) /\ lockHolder' \in CoReqs \union {NoReq}
    BY <1>1, <2>1, JoinsQueue DEF CoCore
  <2>3. OpensNothing(r)
    BY <1>3, <2>1 DEF OpensNothing, CoCore
  <2> QED BY <1>1, <1>3, <2>1, <2>2, <2>3, MoveKeeps
<1>4. CASE creq[r].pc = "first" /\ Register(r, << >>)
  BY <1>1, <1>4, RegisterKeeps
<1>5. CASE creq[r].pc = "second" /\ Finds(r, "calling", Tail(lockQueue))
  BY <1>1, <1>5, FindsKeeps
<1>6. CASE creq[r].pc = "second" /\ Register(r, Tail(lockQueue))
  BY <1>1, <1>6, RegisterKeeps
<1>7. CASE creq[r].pc = "clean" /\ CleanUp(r, Tail(lockQueue), future)
  <2>1. OpensNothing(r)
    BY <1>7 DEF OpensNothing, CoCore, CleanUp
  <2>2. CleanUp(r, Tail(lockQueue), future')
    BY <1>7 DEF CleanUp
  <2> QED BY <1>1, <1>7, <2>1, <2>2, CleanUpKeeps
<1> QED BY <1>1, <1>2, <1>3, <1>4, <1>5, <1>6, <1>7 DEF Granted

\* A request that leaves the lock, a joined future or the queue of the lock.
LEMMA LeavesKeeps ==
    ASSUME CoCore, NEW r \in CoReqs, creq[r].pc \in {"holding", "join", "first", "second"}, Moves(r, "done"),
           UNCHANGED <<pending, pendingCount, abandoned>>, lockHolder' \in CoReqs \union {NoReq},
           lockQueue' \in Seq(CoReqs), future' \in Futures,
           \A f \in CoReqs : future'[f] = "open" => future[f] = "open"
    PROVE  CoCore'
<1>1. OpensNothing(r)
  BY DEF OpensNothing
<1> QED BY <1>1, MoveKeeps

LEMMA LeavesQueue ==
    ASSUME CoCore, NEW i \in 1..Len(lockQueue), lockQueue' = RemoveAt(lockQueue, i)
    PROVE  lockQueue' \in Seq(CoReqs)
<1>1. lockQueue \in Seq(CoReqs)
  BY DEF CoCore
<1> QED BY <1>1, RemoveAtSeq

\* One that is cancelled waiting in its finally clause leaves its entry, which
\* is abandoned from then on.
LEMMA AbandonKeeps ==
    ASSUME CoCore, abandoned \subseteq CoKeys, NEW r \in CoReqs, creq[r].pc = "clean", Moves(r, "done"),
           UNCHANGED <<pending, pendingCount, future, lockHolder>>, lockQueue' \in Seq(CoReqs),
           abandoned' = abandoned \union {creq[r].key}
    PROVE  CoCore' /\ abandoned' \subseteq CoKeys
<1> DEFINE c == [creq[r] EXCEPT !.pc = "done"]
<1>1. CoReqState(creq[r]) /\ creq[r] \in CoReq /\ creq[r].key \in CoKeys
  BY DEF CoCore, CoReqState, CoReq
<1>2. CoReqState(c)
  BY <1>1 DEF CoReq, CoReqState
<1>3. creq' = [creq EXCEPT ![r] = c]
  BY DEF Moves
<1> HIDE DEF c
<1>4. /\ creq' \in [CoReqs -> CoReq] /\ \A x \in CoReqs : CoReqState(creq'[x])
      /\ \A x \in CoReqs : creq'[x] = IF x = r THEN c ELSE creq[x]
  BY <1>2, <1>3, ReqBecomes
<1>5. \A k \in CoKeys : pending'[k] # NoReq => Runner(k)' \/ k \in abandoned'
  <2> SUFFICES ASSUME NEW k \in CoKeys, Runner(k), k # creq[r].key PROVE Runner(k)'
    BY DEF CoCore
  <2>1. PICK x \in CoReqs : creq[x].pc \in {"calling", "clean"} /\ creq[x].key = k /\ creq[x].fut = pending[k]
    BY DEF Runner
  <2>2. creq'[x] = creq[x] /\ pending' = pending
    BY <1>4, <2>1
  <2> QED BY <2>1, <2>2 DEF Runner
<1>6. FuturesHaveACall'
  <2> SUFFICES ASSUME NEW f \in CoReqs, future[f] = "open" PROVE creq'[f].pc = "calling" /\ creq'[f].fut = f
    BY DEF FuturesHaveACall
  <2>1. creq[f].pc = "calling" /\ creq[f].fut = f
    BY DEF CoCore, FuturesHaveACall
  <2> QED BY <1>4, <2>1
<1> QED BY <1>1, <1>4, <1>5, <1>6 DEF CoCore

LEMMA CancelledKeeps ==
    ASSUME CoCore, abandoned \subseteq CoKeys, NEW r \in CoReqs, Cancelled(r)
    PROVE  CoCore' /\ abandoned' \subseteq CoKeys
<1>0. CoReqState(creq[r])
  BY DEF CoCore
<1>1. CASE Ends(r, "cancelled")
  BY <1>1, EndsKeeps
<1>2. CASE /\ creq[r].pc = "holding" /\ Moves(r, "done") /\ Unlock
           /\ UNCHANGED <<pending, pendingCount, future, lockQueue, abandoned>>
  BY <1>2, LeavesKeeps DEF Unlock, CoCore
<1>3. CASE /\ creq[r].pc = "join" /\ future[creq[r].fut] = "open"
           /\ Moves(r, "done") /\ future' = [future EXCEPT ![creq[r].fut] = "cancelled"]
           /\ UNCHANGED <<pending, pendingCount, lockHolder, lockQueue, abandoned>>
  <2>1. future' \in Futures /\ \A f \in CoReqs : future'[f] = "open" => future[f] = "open"
    BY <1>3 DEF CoCore, Futures
  <2> QED BY <1>3, <2>1, LeavesKeeps DEF CoCore
<1>4. CASE /\ creq[r].pc \in {"first", "second", "clean"}
           /\ Moves(r, "done")
           /\ \E i \in 1..Len(lockQueue) : lockQueue[i] = r /\ lockQueue' = RemoveAt(lockQueue, i)
           /\ abandoned' = IF creq[r].pc = "clean" THEN abandoned \union {creq[r].key} ELSE abandoned
           /\ UNCHANGED <<pending, pendingCount, future, lockHolder>>
  <2>1. lockQueue' \in Seq(CoReqs)
    BY <1>4, LeavesQueue
  <2>2. CASE creq[r].pc = "clean"
    BY <1>4, <2>1, <2>2, AbandonKeeps
  <2>3. CASE creq[r].pc # "clean"
    BY <1>4, <2>1, <2>3, LeavesKeeps DEF CoCore
  <2> QED BY <2>2, <2>3
<1> QED BY <1>1, <1>2, <1>3, <1>4 DEF Cancelled

LEMMA CoStep ==
    ASSUME CoInv, [CoNext]_coVars
    PROVE  CoInv'
<1>1. CASE UNCHANGED coVars
  BY <1>1 DEF coVars, CoInv, CoCore, Runner, FuturesHaveACall
<1>2. ASSUME NEW r \in CoReqs, Arrives(r) \/ Granted(r) PROVE CoInv'
  BY <1>2, ArrivesKeeps, GrantedKeeps DEF CoInv
<1>3. ASSUME NEW r \in CoReqs, CallEnds(r) PROVE CoInv'
  BY <1>3, EndsKeeps DEF CoInv, CallEnds
<1>4. ASSUME NEW r \in CoReqs, HeldCallEnds(r) \/ Joined(r) PROVE CoInv'
  <2>1. /\ CoCore /\ creq[r].pc \in {"holding", "join"} /\ Moves(r, "done")
        /\ lockHolder' \in {lockHolder, NoReq}
        /\ UNCHANGED <<pending, pendingCount, future, lockQueue, abandoned, cancels>>
    BY <1>4 DEF HeldCallEnds, Joined, Unlock, CoInv
  <2> QED BY <2>1, LeavesKeeps DEF CoInv, CoCore
<1>5. ASSUME NEW r \in CoReqs, Cancelled(r) PROVE CoInv'
  <2>1. cancels < MaxCancels /\ cancels' = cancels + 1 /\ CoCore /\ abandoned \subseteq CoKeys
    BY <1>5 DEF Cancelled, CoInv
  <2>2. cancels' \in 0..MaxCancels
    BY <2>1 DEF CoInv
  <2> QED BY <1>5, <2>1, <2>2, CancelledKeeps DEF CoInv
<1> QED BY <1>1, <1>2, <1>3, <1>4, <1>5 DEF CoNext

LEMMA CoInitInv == ASSUME CoInit PROVE CoInv
<1>1. \A r \in CoReqs : creq[r] \in CoReq /\ CoReqState(creq[r])
  BY DEF CoInit, CoReq, CoReqState
<1>2. creq \in [CoReqs -> CoReq]
  BY <1>1 DEF CoInit
<1>3. lockQueue \in Seq(CoReqs)
  BY DEF CoInit
<1> QED BY <1>1, <1>2, <1>3 DEF CoInit, CoInv, CoCore, Futures, FuturesHaveACall

LEMMA CoInvImplies ==
    ASSUME CoInv PROVE CoalescerTypeOK /\ EntriesHaveARunner /\ WaitersHaveACall
<1>1. CoalescerTypeOK
  BY DEF CoInv, CoCore, CoalescerTypeOK, Futures
<1>2. EntriesHaveARunner
  BY DEF CoInv, CoCore, EntriesHaveARunner, Runner
<1>3. WaitersHaveACall
  BY DEF CoInv, CoCore, CoReqState, FuturesHaveACall, WaitersHaveACall
<1> QED BY <1>1, <1>2, <1>3

\* The future of a coalesced request is never left to nobody: an entry has a
\* request that will take it out or was abandoned by a cancellation, and who
\* awaits an open future waits for a call that runs (RequestCoalescer.coalesce).
THEOREM FuturesAreLookedAfter == CoSpec => [](EntriesHaveARunner /\ WaitersHaveACall)
<1>1. CoInit => CoInv
  BY CoInitInv
<1>2. CoInv /\ [CoNext]_coVars => CoInv'
  BY CoStep
<1>3. CoInv => EntriesHaveARunner /\ WaitersHaveACall
  BY CoInvImplies
<1> QED BY <1>1, <1>2, <1>3, PTL DEF CoSpec

----------------------------------------------------------------------------
(* The key pool.                                                           *)

\* What the breaker and the pool do to an entry leaves its status telling.
LEMMA EntriesStayVisible ==
    ASSUME NEW e \in Visible
    PROVE  /\ Looked(e) \in Visible /\ Activated(e) \in Visible /\ Blamed(e) \in Visible
           /\ [e EXCEPT !.elapsed = TRUE] \in Visible
           /\ \A s \in {"active", "rate_limited", "circuit_open"} : WithStatus(e, s) \in Visible
<1>1. /\ e \in KeyEntry /\ e.fails \in 0..KpThreshold /\ (e.state = "open" => e.status # "active")
  BY DEF Visible, KeyEntry
<1>2. Looked(e) \in Visible
  BY <1>1 DEF Looked, Visible, KeyEntry
<1>3. Activated(e) \in Visible
  <2>0. 0 \in 0..KpThreshold
    OBVIOUS
  <2>1. Succeeded(e) \in KeyEntry /\ Succeeded(e).state = "closed"
    BY <1>1, <2>0 DEF Succeeded, KeyEntry
  <2>2. Activated(e) \in KeyEntry /\ Activated(e).state = "closed"
    BY <2>1 DEF Activated, KeyEntry
  <2> QED BY <2>2 DEF Visible
<1>4. Blamed(e) \in Visible
  <2> DEFINE f == Failed(e)
             n == IF e.fails < KpThreshold THEN e.fails + 1 ELSE e.fails
  <2>1. n \in 0..KpThreshold
    BY <1>1
  <2>2. f = [e EXCEPT !.fails = n, !.elapsed = FALSE, !.state = IF n = KpThreshold THEN "open" ELSE @]
    BY DEF Failed
  <2> HIDE DEF n, f
  <2>3. f \in KeyEntry /\ f.elapsed = FALSE
    BY <1>1, <2>1, <2>2 DEF KeyEntry
  <2> DEFINE b == [f EXCEPT !.status = IF IsOpen(f) THEN "circuit_open" ELSE @]
  <2>4. b \in KeyEntry /\ b.state = f.state /\ (IsOpen(f) => b.status = "circuit_open")
    BY <2>3 DEF KeyEntry
  <2>5. f.state = "open" => IsOpen(f)
    BY <2>3 DEF IsOpen
  <2>6. Blamed(e) = b
    BY DEF Blamed, f
  <2> HIDE DEF b
  <2> QED BY <2>4, <2>5, <2>6 DEF Visible
<1>5. [e EXCEPT !.elapsed = TRUE] \in Visible
  BY <1>1 DEF Visible, KeyEntry
<1>6. \A s \in {"active", "rate_limited", "circuit_open"} : WithStatus(e, s) \in Visible
  <2> TAKE s \in {"active", "rate_limited", "circuit_open"}
  <2>1. CASE s = "active"
    BY <1>3, <2>1 DEF WithStatus
  <2>2. CASE s # "active"
    BY <1>1, <2>2 DEF WithStatus, Visible, KeyEntry
  <2> QED BY <2>1, <2>2
<1> QED BY <1>2, <1>3, <1>4, <1>5, <1>6

LEMMA PoolEntries ==
    ASSUME KpInv
    PROVE  /\ pool \in Seq(Visible) /\ Len(pool) \in Nat
           /\ \A i \in 1..Len(pool) : pool[i] \in Visible /\ pool[i] \in KeyEntry /\ pool[i].key \in ApiKeys
<1>1. pool \in Seq(Visible) /\ Len(pool) \in Nat
  BY LenProperties DEF KpInv
<1>2. \A i \in 1..Len(pool) : pool[i] \in Visible
  BY <1>1, ElementOfSeq
<1> QED BY <1>1, <1>2 DEF Visible, KeyEntry

\* A report or command that finds the key reaches one of its entries.
LEMMA FirstHolds ==
    ASSUME KpInv, NEW k, Holding(k) # {}
    PROVE  First(Holding(k)) \in 1..Len(pool)
<1> DEFINE S == Holding(k)
<1>1. S \in SUBSET Nat /\ S \subseteq 1..Len(pool)
  BY PoolEntries DEF Holding
<1> HIDE DEF S
<1>2. S # {}
  BY DEF S
<1>3. \E i \in S : \A j \in S : i <= j
  BY <1>1, <1>2, Least
<1>4. First(S) \in S
  BY <1>3 DEF First
<1> QED BY <1>1, <1>4 DEF S

LEMMA OnFirstKeeps ==
    ASSUME KpInv, NEW k, NEW e, Holding(k) # {} => e \in Visible
    PROVE  OnFirst(k, e) \in Seq(Visible) /\ Len(OnFirst(k, e)) <= MaxEntries
<1>1. CASE Holding(k) = {}
  BY <1>1 DEF OnFirst, KpInv
<1>2. CASE Holding(k) # {}
  <2>1. First(Holding(k)) \in 1..Len(pool) /\ pool \in Seq(Visible) /\ e \in Visible
    BY <1>2, FirstHolds, PoolEntries
  <2> DEFINE i == First(Holding(k))
  <2>2. OnFirst(k, e) = [pool EXCEPT ![i] = e]
    BY <1>2 DEF OnFirst
  <2> HIDE DEF i
  <2>3. [pool EXCEPT ![i] = e] \in Seq(Visible) /\ Len([pool EXCEPT ![i] = e]) = Len(pool)
    BY <2>1, ExceptSeq DEF i
  <2> QED BY <2>2, <2>3 DEF KpInv
<1> QED BY <1>1, <1>2

LEMMA HeldVisible ==
    ASSUME KpInv, NEW k, Holding(k) # {} PROVE Held(k) \in Visible
BY FirstHolds, PoolEntries DEF Held

LEMMA LookedPool ==
    ASSUME KpInv, NEW q, q = [i \in 1..Len(pool) |-> Looked(pool[i])]
    PROVE  q \in Seq(Visible) /\ Len(q) = Len(pool)
<1>1. /\ Len(pool) \in Nat /\ \A i \in 1..Len(pool) : Looked(pool[i]) \in Visible
  BY PoolEntries, EntriesStayVisible
<1> DEFINE n == Len(pool)
           L(i) == Looked(pool[i])
<1>2. n \in Nat /\ q = [i \in 1..n |-> L(i)] /\ \A i \in 1..n : L(i) \in Visible
  BY <1>1
<1> HIDE DEF n, L
<1>3. q \in Seq(Visible) /\ Len(q) = n
  BY <1>2, IsASeq
<1> QED BY <1>3 DEF n

LEMMA GetterMoves ==
    ASSUME KpInv, NEW g \in Getters, NEW pc \in {"get", "waiting", "none"},
           getter' = [getter EXCEPT ![g].pc = pc]
    PROVE  getter' \in [Getters -> Getter]
<1> DEFINE c == [getter[g] EXCEPT !.pc = pc]
<1>1. getter \in [Getters -> Getter] /\ getter[g] \in Getter
  BY DEF KpInv
<1>2. c \in Getter
  BY <1>1 DEF Getter
<1>3. getter' = [getter EXCEPT ![g] = c]
  OBVIOUS
<1> HIDE DEF c
<1> QED BY <1>1, <1>2, <1>3

LEMMA GetterTakes ==
    ASSUME KpInv, NEW g \in Getters, NEW pc \in {"idle", "using"}, NEW k \in ApiKeys \union {NoKey},
           getter' = [getter EXCEPT ![g] = [pc |-> pc, key |-> k]]
    PROVE  getter' \in [Getters -> Getter]
<1>1. [pc |-> pc, key |-> k] \in Getter
  BY DEF Getter
<1> QED BY <1>1 DEF KpInv

LEMMA GetterStep ==
    ASSUME KpInv, NEW g \in Getters,
           Asks(g) \/ GetKey(g) \/ WaitEnds(g) \/ ReportSuccess(g) \/ ReportFailure(g)
    PROVE  KpInv'
<1>1. CASE Asks(g) \/ WaitEnds(g)
  <2>1. getter' = [getter EXCEPT ![g].pc = "get"] /\ UNCHANGED <<pool, edits, keyFailures>>
    BY <1>1 DEF Asks, WaitEnds
  <2>2. getter' \in [Getters -> Getter]
    BY <2>1, GetterMoves
  <2> QED BY <2>1, <2>2 DEF KpInv
<1>2. CASE GetKey(g)
  <2>1. pool' \in Seq(Visible) /\ Len(pool') = Len(pool) /\ UNCHANGED <<edits, keyFailures>>
    BY <1>2, LookedPool DEF GetKey
  <2>2. \A i \in 1..Len(pool) : pool[i].key \in ApiKeys
    BY PoolEntries
  <2>3. \/ \E pc \in {"none", "waiting"} : getter' = [getter EXCEPT ![g].pc = pc]
        \/ \E i \in 1..Len(pool) : getter' = [getter EXCEPT ![g] = [pc |-> "using", key |-> pool[i].key]]
    BY <1>2 DEF GetKey
  <2>4. getter' \in [Getters -> Getter]
    BY <2>2, <2>3, GetterMoves, GetterTakes
  <2> QED BY <2>1, <2>4 DEF KpInv
<1>3. CASE ReportSuccess(g) \/ ReportFailure(g)
  <2>1. getter' = [getter EXCEPT ![g] = [pc |-> "idle", key |-> NoKey]]
    BY <1>3 DEF ReportSuccess, ReportFailure
  <2>2. getter' \in [Getters -> Getter]
    BY <2>1, GetterTakes
  <2> DEFINE k == getter[g].key
  <2>3. Holding(k) # {} => Activated(Held(k)) \in Visible /\ Blamed(Held(k)) \in Visible
    BY HeldVisible, EntriesStayVisible
  <2>4. pool' \in {OnFirst(k, Activated(Held(k))), OnFirst(k, Blamed(Held(k)))}
    BY <1>3 DEF ReportSuccess, ReportFailure
  <2> HIDE DEF k
  <2>5. pool' \in Seq(Visible) /\ Len(pool') <= MaxEntries
    BY <2>3, <2>4, OnFirstKeeps
  <2>6. edits' \in 0..MaxEdits /\ keyFailures' \in 0..MaxKeyFailures
    BY <1>3 DEF ReportSuccess, ReportFailure, KpInv
  <2> QED BY <2>2, <2>5, <2>6 DEF KpInv
<1> QED BY <1>1, <1>2, <1>3

LEMMA EditStep ==
    ASSUME KpInv, Edits, pool' \in Seq(Visible), Len(pool') <= MaxEntries PROVE KpInv'
<1>1. edits' \in 0..MaxEdits /\ UNCHANGED <<getter, keyFailures>>
  BY DEF Edits, KpInv
<1> QED BY <1>1 DEF KpInv

LEMMA OperatorStep ==
    ASSUME KpInv, NEW k \in ApiKeys,
           \/ AddKey(k) \/ RemoveKey(k)
           \/ \E s \in {"active", "rate_limited", "circuit_open"} : UpdateKeyStatus(k, s)
    PROVE  KpInv'
<1>1. CASE AddKey(k)
  <2>1. FreshEntry(k) \in Visible
    BY DEF FreshEntry, Visible, KeyEntry
  <2>2. pool \in Seq(Visible) /\ Len(pool) \in Nat /\ Len(pool) < MaxEntries /\ pool' = Append(pool, FreshEntry(k))
    BY <1>1, PoolEntries DEF AddKey
  <2>3. pool' \in Seq(Visible) /\ Len(pool') = Len(pool) + 1
    BY <2>1, <2>2, AppendProperties
  <2>4. Len(pool') <= MaxEntries
    BY <2>2, <2>3
  <2> QED BY <1>1, <2>3, <2>4, EditStep DEF AddKey
<1>2. CASE RemoveKey(k)
  <2>1. /\ First(Holding(k)) \in 1..Len(pool) /\ pool' = RemoveAt(pool, First(Holding(k)))
        /\ pool \in Seq(Visible) /\ Len(pool) \in Nat /\ Len(pool) <= MaxEntries
    BY <1>2, FirstHolds, PoolEntries DEF RemoveKey, KpInv
  <2>2. pool' \in Seq(Visible) /\ Len(pool') = Len(pool) - 1
    BY <2>1, RemoveAtSeq
  <2>3. Len(pool') <= MaxEntries
    BY <2>1, <2>2
  <2> QED BY <1>2, <2>2, <2>3, EditStep DEF RemoveKey
<1>3. ASSUME NEW s \in {"active", "rate_limited", "circuit_open"}, UpdateKeyStatus(k, s) PROVE KpInv'
  <2>1. Holding(k) # {} /\ pool' = OnFirst(k, WithStatus(Held(k), s)) /\ Edits
    BY <1>3 DEF UpdateKeyStatus
  <2>2. WithStatus(Held(k), s) \in Visible
    BY <2>1, HeldVisible, EntriesStayVisible
  <2>3. pool' \in Seq(Visible) /\ Len(pool') <= MaxEntries
    BY <2>1, <2>2, OnFirstKeeps
  <2> QED BY <2>1, <2>3, EditStep
<1> QED BY <1>1, <1>2, <1>3

LEMMA KpStep ==
    ASSUME KpInv, [KpNext]_kpVars
    PROVE  KpInv'
<1>1. CASE UNCHANGED kpVars
  BY <1>1 DEF kpVars, KpInv
<1>2. ASSUME NEW i \in 1..MaxEntries, RecoveryTimePasses(i) PROVE KpInv'
  <2>1. i \in 1..Len(pool) /\ pool' = [pool EXCEPT ![i].elapsed = TRUE] /\ UNCHANGED <<getter, edits, keyFailures>>
    BY <1>2 DEF RecoveryTimePasses
  <2>2. pool \in Seq(Visible) /\ [pool[i] EXCEPT !.elapsed = TRUE] \in Visible
    BY <2>1, PoolEntries, EntriesStayVisible
  <2> DEFINE e == [pool[i] EXCEPT !.elapsed = TRUE]
  <2>3. pool' = [pool EXCEPT ![i] = e]
    BY <2>1
  <2> HIDE DEF e
  <2>4. pool' \in Seq(Visible) /\ Len(pool') = Len(pool)
    BY <2>1, <2>2, <2>3, ExceptSeq DEF e
  <2> QED BY <2>1, <2>4 DEF KpInv
<1> QED BY <1>1, <1>2, GetterStep, OperatorStep DEF KpNext

LEMMA KpInitInv == ASSUME KpInit PROVE KpInv
<1>1. PICK k \in ApiKeys : pool = <<FreshEntry(k)>>
  BY DEF KpInit
<1>2. FreshEntry(k) \in Visible
  BY DEF FreshEntry, Visible, KeyEntry
<1>3. pool \in Seq(Visible) /\ Len(pool) = 1
  BY <1>1, <1>2
<1>4. getter \in [Getters -> Getter]
  BY DEF KpInit, Getter
<1> QED BY <1>3, <1>4 DEF KpInit, KpInv

LEMMA KpInvImplies ==
    ASSUME KpInv PROVE KeyPoolTypeOK /\ OpenIsVisible
<1>1. Len(pool) \in Nat /\ pool \in Seq(Visible) /\ \A i \in 1..Len(pool) : pool[i] \in Visible
  BY PoolEntries
<1>2. OpenIsVisible
  BY <1>1 DEF OpenIsVisible, Visible
<1>3. pool \in Seq(KeyEntry)
  BY <1>1 DEF Visible
<1> QED BY <1>2, <1>3 DEF KpInv, KeyPoolTypeOK

\* A key whose breaker is open never looks active to the operator, whatever
\* callers report and operators edit, in any order (SmartAPIKeyPool).
THEOREM OpenKeysAreShown == KpSpec => []OpenIsVisible
<1>1. KpInit => KpInv
  BY KpInitInv
<1>2. KpInv /\ [KpNext]_kpVars => KpInv'
  BY KpStep
<1>3. KpInv => OpenIsVisible
  BY KpInvImplies
<1> QED BY <1>1, <1>2, <1>3, PTL DEF KpSpec

----------------------------------------------------------------------------
(* The parts together.                                                     *)

CallsInv == CallsShape /\ ShedInv /\ BudgetInv
PartsInv == CallsInv /\ CoInv /\ KpInv

LEMMA PartsStep == ASSUME PartsInv, [Next]_gpVars PROVE PartsInv'
<1>1. \/ [CallsNext]_callsVars /\ UNCHANGED <<coVars, kpVars>>
      \/ [CoNext]_coVars /\ UNCHANGED <<callsVars, kpVars>>
      \/ [KpNext]_kpVars /\ UNCHANGED <<callsVars, coVars>>
  BY DEF Next, gpVars
<1>2. [CallsNext]_callsVars /\ [CoNext]_coVars /\ [KpNext]_kpVars
  BY <1>1
<1>3. CallsInv'
  BY <1>2, CallsShapeStep, ShedStep, BudgetStep DEF PartsInv, CallsInv
<1>4. CoInv'
  BY <1>2, CoStep DEF PartsInv
<1>5. KpInv'
  BY <1>2, KpStep DEF PartsInv
<1> QED BY <1>3, <1>4, <1>5 DEF PartsInv

\* The three parts of the gateway keep what they share sound, whichever of them
\* the requests go to.
THEOREM GatewayKeepsSharing == Spec => [](SharingIsSound /\ OpenSheds /\ BudgetOvershootBounded)
<1>1. Init => PartsInv
  BY CallsShapeInit, CallsInvInit, CoInitInv, KpInitInv DEF Init, PartsInv, CallsInv
<1>2. PartsInv /\ [Next]_gpVars => PartsInv'
  BY PartsStep
<1>3. PartsInv => SharingIsSound
  BY CoInvImplies, KpInvImplies DEF PartsInv, CallsInv, CallsShape, SharingIsSound
<1>4. PartsInv => OpenSheds /\ BudgetOvershootBounded
  BY CallsInvImplies DEF PartsInv, CallsInv
<1> QED BY <1>1, <1>2, <1>3, <1>4, PTL DEF Spec
=============================================================================
