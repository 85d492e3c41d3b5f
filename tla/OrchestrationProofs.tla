------------------------ MODULE OrchestrationProofs -------------------------
(***************************************************************************)
(* The proofs about the orchestration of the engine: plans of the task     *)
(* router, runs of the stand-alone engine and of the inference loop, the   *)
(* unified chat entry, the context bus and the orders of graphs.  Each     *)
(* component has an invariant of its own, kept by its steps; the steps of  *)
(* the others leave its variables alone.                                   *)
(***************************************************************************)
EXTENDS MCOrchestration, DataLemmas

\* What a plan has got to: a matched subtask stands at its place in the chain, a result
\* at that of its subtask, with the output of the one before if that completed.
PlanItem == [cap: AnyCap \union {NoCap}, uses: BOOLEAN]
MatchItem == [n: Nat, cap: AnyCap \union {NoCap}, uses: BOOLEAN]
ResultItem == [n: Nat, by: (PlanTenants \union {Everyone, NoCap}) \X (AnyCap \union {NoCap}),
               input: {"given", "output", "empty"}, status: {"completed", "failed"}]
PlansInv ==
    /\ regs \subseteq (PlanTenants \union {Everyone}) \X AnyCap /\ changes \in 0..RegistryChanges
    /\ since \in Nat /\ since <= changes
    /\ tenant \in PlanTenants /\ planPc \in {"new", "match", "run", "completed", "error"}
    /\ plan \in Seq(PlanItem) /\ (Len(plan) <= 2 \/ Len(plan) <= MaxSubtasks)
    /\ matched \in Seq(MatchItem) /\ Len(matched) <= Len(plan)
    /\ results \in Seq(ResultItem) /\ Len(results) <= Len(matched)
    /\ planPc \in {"new", "match", "error"} => matched = <<>>
    /\ planPc = "new" => plan = <<>>
    /\ planPc = "completed" => Len(results) = Len(matched)
    /\ \A k \in 1..Len(matched) : matched[k].n = k
    /\ (planPc = "run" /\ changes = since) => \A k \in 1..Len(matched) : GetById(matched[k].cap, tenant)[2] # NoCap
    /\ \A k \in 1..Len(results) :
        /\ results[k].n = k /\ results[k].by[1] \in {Everyone, tenant, NoCap}
        /\ results[k].status = "completed" => results[k].by[2] = matched[k].cap
        /\ (k > 1 /\ results[k].input = "output") => results[k - 1].status = "completed"
        /\ (k > 1 /\ results[k].input = "empty") => results[k - 1].status = "failed"

----------------------------------------------------------------------------
(* Plans.                                                                  *)

LEMMA Appending ==
    ASSUME NEW S, NEW s \in Seq(S), NEW x \in S
    PROVE  /\ Append(s, x) \in Seq(S) /\ Len(s) \in Nat /\ Len(Append(s, x)) = Len(s) + 1
           /\ \A i \in 1..Len(s) : Append(s, x)[i] = s[i]
           /\ Append(s, x)[Len(s) + 1] = x
           /\ \A i \in 1..(Len(s) + 1) : i \in 1..Len(s) \/ i = Len(s) + 1
BY AppendProperties, LenProperties

LEMMA Looked ==
    ASSUME NEW c, NEW t, PlansInv
    PROVE  /\ GetById(c, t)[1] \in {Everyone, t, NoCap} /\ GetById(c, t)[2] \in {c, NoCap}
           /\ GetById(c, t)[2] # NoCap => GetById(c, t)[2] = c /\ c \in AnyCap
BY CapAssumption DEF GetById, PlansInv

LEMMA PlansStart == PlansInit => PlansInv
<1> SUFFICES ASSUME PlansInit PROVE PlansInv
  OBVIOUS
<1>1. tenant \in PlanTenants
  BY PlanAssumption DEF PlansInit
<1>2. <<>> \in Seq(PlanItem) /\ <<>> \in Seq(MatchItem) /\ <<>> \in Seq(ResultItem) /\ Len(<<>>) = 0
  BY EmptySeq
<1> QED BY <1>1, <1>2, PlanAssumption DEF PlansInit, PlansInv, AnyCap

LEMMA PlansStutter == PlansInv /\ UNCHANGED tpVars => PlansInv'
<1> SUFFICES ASSUME PlansInv, UNCHANGED tpVars PROVE PlansInv'
  OBVIOUS
<1> QED BY DEF PlansInv, tpVars, GetById

LEMMA PlansRegistered ==
    ASSUME PlansInv, NEW o \in PlanTenants \union {Everyone}, NEW c \in AnyCap, Register(o, c) \/ Unregister(o, c)
    PROVE  PlansInv'
<1>1. regs' \subseteq (PlanTenants \union {Everyone}) \X AnyCap
  BY DEF PlansInv, Register, Unregister
<1>2. changes' = changes + 1 /\ changes < RegistryChanges /\ since' = since
  BY DEF Register, Unregister
<1>3. changes' \in 0..RegistryChanges /\ since <= changes' /\ changes' # since'
  BY <1>2, PlanAssumption DEF PlansInv
<1>4. UNCHANGED <<tenant, planPc, plan, matched, results>>
  BY DEF Register, Unregister
<1> QED BY <1>1, <1>2, <1>3, <1>4 DEF PlansInv

LEMMA PlansPlanned ==
    ASSUME PlansInv, PlanTask
    PROVE  PlansInv'
<1>1. PICK t \in PlanTenants : tenant' = t /\ plan' \in RulePlans \union Recommended(t)
  BY DEF PlanTask
<1>2. plan' \in Seq(PlanItem) /\ (Len(plan') <= 2 \/ Len(plan') <= MaxSubtasks)
  <2>1. \A c \in AnyCap \union {NoCap}, u \in BOOLEAN : Subtask(c, u) \in PlanItem
    BY DEF Subtask, PlanItem
  <2>2. CASE plan' \in RulePlans
    <3>1. /\ \A x \in PlanItem : <<x>> \in Seq(PlanItem) /\ Len(<<x>>) = 1
          /\ \A x, y \in PlanItem : <<x, y>> \in Seq(PlanItem) /\ Len(<<x, y>>) = 2
      OBVIOUS
    <3>2. CASE plan' = <<Subtask(NoCap, FALSE)>>
      <4> DEFINE x == Subtask(NoCap, FALSE)
      <4>1. x \in PlanItem
        BY <2>1
      <4> HIDE DEF x
      <4>2. <<x>> \in Seq(PlanItem) /\ Len(<<x>>) = 1
        BY <3>1, <4>1
      <4>3. plan' = <<x>>
        BY <3>2 DEF x
      <4> QED BY <4>2, <4>3
    <3>3. CASE plan' # <<Subtask(NoCap, FALSE)>>
      <4>1. plan' \in Named \X Named
        BY <2>2, <3>3 DEF RulePlans
      <4>2. PICK x \in Named, y \in Named : plan' = <<x, y>>
        BY <4>1
      <4>3. x \in PlanItem /\ y \in PlanItem
        BY DEF Named, PlanItem, AnyCap
      <4>4. <<x, y>> \in Seq(PlanItem) /\ Len(<<x, y>>) = 2
        BY <3>1, <4>3
      <4> QED BY <4>2, <4>4
    <3> QED BY <3>2, <3>3
  <2>3. CASE plan' \in Recommended(t)
    <3> DEFINE shown == {Subtask(r[2], FALSE) : r \in Visible(t)}
    <3>1. PICK n \in 1..MaxSubtasks : plan' \in [1..n -> shown]
      BY <2>3 DEF Recommended
    <3>2. shown \subseteq PlanItem
      <4>1. \A r \in Visible(t) : r[2] \in AnyCap
        BY DEF Visible, PlansInv
      <4> QED BY <2>1, <4>1
    <3> HIDE DEF shown
    <3>3. plan' \in [1..n -> PlanItem]
      BY <3>1, <3>2
    <3>5. n \in Nat /\ n <= MaxSubtasks
      BY PlanAssumption
    <3>4. plan' \in Seq(PlanItem) /\ Len(plan') = n
      BY <3>3, <3>5
    <3> QED BY <3>1, <3>4, PlanAssumption
  <2> QED BY <1>1, <2>2, <2>3
<1>3. matched = <<>> /\ results = <<>> /\ planPc = "new" /\ planPc' = "match"
      /\ UNCHANGED <<regs, changes, since, matched, results>>
  <2>1. matched = <<>> /\ Len(results) <= 0
    BY EmptySeq DEF PlansInv, PlanTask
  <2>2. results = <<>>
    BY <2>1, EmptySeq DEF PlansInv
  <2> QED BY <2>1, <2>2 DEF PlanTask
<1>4. Len(<<>>) = 0 /\ Len(plan') \in Nat
  BY <1>2, EmptySeq, LenProperties
<1> QED BY <1>1, <1>2, <1>3, <1>4 DEF PlansInv

\* A subset of 1..n that has with each number the one before is 1..k for its size k.
LEMMA Initial ==
    ASSUME NEW n \in Nat, NEW T \in SUBSET (1..n), \A i \in T : i = 1 \/ i - 1 \in T
    PROVE  Cardinality(T) \in 0..n /\ T = 1..Cardinality(T)
<1>1. \E k \in 0..n : T = 1..k
  <2> DEFINE out == {i \in Nat : i >= 1 /\ i \notin T}
  <2>1. n + 1 \in out
    OBVIOUS
  <2>2. PICK x \in out : \A y \in out : x <= y
    BY <2>1, Least
  <2>3. x >= 1 /\ x <= n + 1 /\ x \in Nat /\ x \notin T
    BY <2>1, <2>2
  <2>4. \A i \in 1..(x - 1) : i \in T
    BY <2>2, <2>3
  <2>5. ASSUME NEW i \in T, i > x PROVE FALSE
    <3> DEFINE over == {j \in Nat : j > x /\ j \in T}
    <3>1. i \in over
      BY <2>5
    <3>2. PICK y \in over : \A z \in over : y <= z
      BY <3>1, Least
    <3>3. y - 1 \in T /\ y > x /\ y \in Nat
      BY <2>3, <3>2
    <3>4. y - 1 = x \/ y - 1 > x
      BY <2>3, <3>3
    <3>5. y - 1 # x
      BY <2>3, <3>3
    <3>6. y - 1 \in over /\ ~(y <= y - 1)
      BY <2>3, <3>3, <3>4, <3>5
    <3> QED BY <3>2, <3>6
  <2>6. T = 1..(x - 1)
    <3>1. ASSUME NEW i \in T PROVE i \in 1..(x - 1)
      <4>1. i \in Nat /\ i >= 1 /\ i # x /\ ~(i > x)
        BY <2>3, <2>5
      <4> QED BY <2>3, <4>1
    <3> QED BY <2>4, <3>1
  <2>7. x - 1 \in 0..n
    BY <2>3
  <2> QED BY <2>6, <2>7
<1>2. PICK k \in 0..n : T = 1..k
  BY <1>1
<1>3. Cardinality(T) = k
  BY <1>2, UpTo
<1> QED BY <1>2, <1>3

LEMMA PlansMatched ==
    ASSUME PlansInv, MatchAll
    PROVE  PlansInv'
<1> DEFINE n == Len(plan)
           all == UNION {Matches(i, tenant) : i \in 1..n}
<1>1. /\ n \in Nat /\ matched = <<>> /\ results = <<>> /\ Len(<<>>) = 0
      /\ UNCHANGED <<regs, changes, tenant, plan, results>> /\ since' = changes /\ changes \in Nat
  <2>1. matched = <<>> /\ planPc = "match" /\ Len(<<>>) = 0
    BY EmptySeq DEF PlansInv, MatchAll
  <2>2. results = <<>>
    <3>1. results \in Seq(ResultItem) /\ Len(results) <= 0 /\ Len(results) \in Nat
      BY <2>1, LenProperties DEF PlansInv
    <3> QED BY <3>1, EmptySeq
  <2>3. n \in Nat
    BY LenProperties DEF PlansInv
  <2> QED BY <2>1, <2>2, <2>3, PlanAssumption DEF PlansInv, MatchAll
<1>2. PICK m \in [1..n -> all] :
        /\ \A i \in 1..n : m[i] \in Matches(i, tenant)
        /\ LET found == {i \in 1..n : m[i].cap # NoCap} IN
            IF \A i \in found : i = 1 \/ i - 1 \in found
            THEN matched' = SubSeq(m, 1, Cardinality(found)) /\ planPc' = "run"
            ELSE planPc' = "error" /\ UNCHANGED matched
  BY DEF MatchAll
<1>3. ASSUME NEW i \in 1..n, NEW x \in Matches(i, tenant)
      PROVE  x \in MatchItem /\ x.n = i /\ (x.cap # NoCap => GetById(x.cap, tenant)[2] # NoCap)
  <2>1. plan[i] \in PlanItem
    BY ElementOfSeq DEF PlansInv
  <2> DEFINE exact == GetById(plan[i].cap, tenant)
  <2>2. exact[2] # NoCap => exact[2] = plan[i].cap
    BY Looked
  <2>3. CASE exact[2] # NoCap
    <3>1. x = [n |-> i, cap |-> exact[2], uses |-> plan[i].uses]
      BY <2>3 DEF Matches
    <3>2. x.cap = plan[i].cap
      BY <2>2, <2>3, <3>1
    <3>3. exact[2] \in AnyCap \union {NoCap} /\ plan[i].uses \in BOOLEAN
      BY <2>1, <2>2, <2>3 DEF PlanItem
    <3> QED BY <2>3, <3>1, <3>2, <3>3 DEF MatchItem
  <2>4. CASE exact[2] = NoCap
    <3> DEFINE shown == {[n |-> i, cap |-> r[2], uses |-> plan[i].uses] : r \in Visible(tenant)}
               general == GetById(GeneralChat, tenant)[2]
    <3>1. x \in shown \/ x = [n |-> i, cap |-> general, uses |-> FALSE]
      BY <2>4 DEF Matches
    <3>2. CASE x \in shown
      <4>1. PICK r \in Visible(tenant) : x = [n |-> i, cap |-> r[2], uses |-> plan[i].uses]
        BY <3>2
      <4>2. r \in regs /\ r[1] \in {Everyone, tenant} /\ r[2] \in AnyCap /\ r = <<r[1], r[2]>>
        BY DEF Visible, PlansInv
      <4>3. GetById(r[2], tenant)[2] = r[2]
        BY <4>2 DEF GetById
      <4>4. r[2] # NoCap /\ plan[i].uses \in BOOLEAN
        BY <2>1, <4>2, CapAssumption DEF PlanItem
      <4> QED BY <4>1, <4>2, <4>3, <4>4 DEF MatchItem
    <3>3. CASE x = [n |-> i, cap |-> general, uses |-> FALSE]
      <4>1. general \in {GeneralChat, NoCap}
        BY Looked
      <4> HIDE DEF general
      <4>2. x.cap = general /\ x.n = i /\ x \in MatchItem
        BY <3>3, <4>1 DEF MatchItem, AnyCap
      <4>3. general # NoCap => general = GeneralChat /\ GetById(general, tenant)[2] # NoCap
        BY <4>1 DEF general
      <4> QED BY <4>2, <4>3
    <3> QED BY <3>1, <3>2, <3>3
  <2> QED BY <2>3, <2>4
<1> DEFINE found == {i \in 1..n : m[i].cap # NoCap}
<1>4. CASE \A i \in found : i = 1 \/ i - 1 \in found
  <2> DEFINE k == Cardinality(found)
  <2>1. k \in 0..n /\ found = 1..k
    BY <1>1, <1>4, Initial
  <2>2. matched' = SubSeq(m, 1, k) /\ planPc' = "run"
    BY <1>2, <1>4
  <2>3. \A i \in 1..k : m[i] \in MatchItem /\ m[i].n = i /\ m[i].cap # NoCap /\ GetById(m[i].cap, tenant)[2] # NoCap
    BY <1>1, <1>2, <1>3, <2>1
  <2> HIDE DEF found, k
  <2>4. matched' \in Seq(MatchItem) /\ Len(matched') = k /\ \A i \in 1..k : matched'[i] = m[i]
    <3>1. /\ SubSeq(m, 1, k) \in Seq(MatchItem) /\ Len(SubSeq(m, 1, k)) = IF 1 <= k THEN k - 1 + 1 ELSE 0
          /\ \A i \in 1..(k - 1 + 1) : SubSeq(m, 1, k)[i] = m[1 + i - 1]
      BY <1>1, <2>1, <2>3, SubSeqProperties
    <3> QED BY <1>1, <2>1, <2>2, <3>1
  <2>5. \A i \in 1..Len(matched') : matched'[i].n = i /\ GetById(matched'[i].cap, tenant)[2] # NoCap
    BY <2>3, <2>4
  <2>6. \A c, t : GetById(c, t)' = GetById(c, t)
    BY <1>1 DEF GetById
  <2> QED BY <1>1, <2>1, <2>2, <2>4, <2>5, <2>6 DEF PlansInv
<1>5. CASE ~ \A i \in found : i = 1 \/ i - 1 \in found
  <2>1. planPc' = "error" /\ matched' = <<>>
    BY <1>1, <1>2, <1>5
  <2> QED BY <1>1, <2>1, EmptySeq DEF PlansInv
<1> QED BY <1>4, <1>5

LEMMA PlansExecuted ==
    ASSUME PlansInv, ExecuteNext
    PROVE  PlansInv'
<1> DEFINE k == Len(results) + 1
           found == GetById(matched[k].cap, tenant)
<1>1. /\ k \in 1..Len(matched) /\ Len(results) \in Nat /\ planPc = "run"
      /\ UNCHANGED <<regs, changes, since, tenant, planPc, plan, matched>>
  BY LenProperties DEF ExecuteNext, PlansInv
<1>2. PICK status \in (IF found[2] = NoCap THEN {"failed"} ELSE {"completed", "failed"}) :
        results' = Append(results, [n |-> matched[k].n, by |-> found, input |-> Resolved(k), status |-> status])
  BY DEF ExecuteNext
<1> DEFINE new == [n |-> matched[k].n, by |-> found, input |-> Resolved(k), status |-> status]
<1>3. matched[k] \in MatchItem /\ matched[k].n = k
  BY <1>1, ElementOfSeq DEF PlansInv
<1>4. found \in (PlanTenants \union {Everyone, NoCap}) \X (AnyCap \union {NoCap}) /\ found[1] \in {Everyone, tenant, NoCap}
      /\ (status = "completed" => found[2] = matched[k].cap)
  <2>1. found \in {<<tenant, matched[k].cap>>, <<Everyone, matched[k].cap>>, <<NoCap, NoCap>>}
    BY DEF GetById
  <2>2. matched[k].cap \in AnyCap \union {NoCap} /\ tenant \in PlanTenants
    BY <1>3 DEF MatchItem, PlansInv
  <2>3. status = "completed" => found[2] # NoCap
    OBVIOUS
  <2>4. status = "completed" => found[2] = matched[k].cap
    BY <2>3, Looked
  <2> HIDE DEF found
  <2> QED BY <2>1, <2>2, <2>4
<1>5. /\ Resolved(k) \in {"given", "output", "empty"}
      /\ (k > 1 /\ Resolved(k) = "output") => results[k - 1].status = "completed"
      /\ (k > 1 /\ Resolved(k) = "empty") => results[k - 1].status = "failed"
  <2>1. \A j \in 1..Len(results) : results[j].n = j /\ results[j] \in ResultItem
    BY ElementOfSeq DEF PlansInv
  <2>2. Resolved(k) \in {"given", "output", "empty"}
    BY DEF Resolved
  <2>3. ASSUME k > 1, Resolved(k) = "output" PROVE results[k - 1].status = "completed"
    <3>1. PICK j \in 1..Len(results) : results[j].n = matched[k].n - 1 /\ results[j].status = "completed"
      BY <2>3 DEF Resolved
    <3>2. j = k - 1
      BY <1>3, <2>1, <3>1
    <3> QED BY <3>1, <3>2
  <2>4. ASSUME k > 1, Resolved(k) = "empty" PROVE results[k - 1].status = "failed"
    <3>1. k - 1 \in 1..Len(results)
      BY <1>1, <2>4
    <3>2. results[k - 1].n = matched[k].n - 1
      BY <1>3, <2>1, <3>1
    <3>3. results[k - 1].status # "completed"
      BY <2>4, <3>1, <3>2 DEF Resolved
    <3>4. results[k - 1].status \in {"completed", "failed"}
      BY <2>1, <3>1 DEF ResultItem
    <3> QED BY <3>3, <3>4
  <2> QED BY <2>2, <2>3, <2>4
<1>6. new \in ResultItem /\ new.n = k /\ new.by = found /\ new.input = Resolved(k) /\ new.status = status
  <2>1. status \in {"completed", "failed"} /\ matched[k].n \in Nat
    BY <1>1, <1>3
  <2> HIDE DEF found
  <2> QED BY <1>3, <1>4, <1>5, <2>1 DEF ResultItem
<1> HIDE DEF new, found
<1>7. /\ results' \in Seq(ResultItem) /\ Len(results') = k
      /\ \A i \in 1..Len(results) : results'[i] = results[i]
      /\ results'[k] = new
      /\ \A i \in 1..k : i \in 1..Len(results) \/ i = k
  <2>1. results' = Append(results, new) /\ results \in Seq(ResultItem)
    BY <1>2 DEF new, found, PlansInv
  <2> QED BY <1>6, <2>1, Appending
<1>8. \A i \in 1..Len(results') :
        /\ results'[i].n = i /\ results'[i].by[1] \in {Everyone, tenant, NoCap}
        /\ results'[i].status = "completed" => results'[i].by[2] = matched[i].cap
        /\ (i > 1 /\ results'[i].input = "output") => results'[i - 1].status = "completed"
        /\ (i > 1 /\ results'[i].input = "empty") => results'[i - 1].status = "failed"
  <2> SUFFICES ASSUME NEW i \in 1..k
               PROVE  /\ results'[i].n = i /\ results'[i].by[1] \in {Everyone, tenant, NoCap}
                      /\ results'[i].status = "completed" => results'[i].by[2] = matched[i].cap
                      /\ (i > 1 /\ results'[i].input = "output") => results'[i - 1].status = "completed"
                      /\ (i > 1 /\ results'[i].input = "empty") => results'[i - 1].status = "failed"
    BY <1>7
  <2>1. i > 1 => i - 1 \in 1..Len(results) /\ results'[i - 1] = results[i - 1]
    BY <1>1, <1>7
  <2>2. CASE i = k
    BY <1>4, <1>5, <1>6, <1>7, <2>1, <2>2
  <2>3. CASE i \in 1..Len(results)
    BY <1>7, <2>1, <2>3, ZenonT(60) DEF PlansInv
  <2> QED BY <1>7, <2>2, <2>3
<1>9. \A c, t : GetById(c, t)' = GetById(c, t)
  BY <1>1 DEF GetById
<1> QED BY <1>1, <1>7, <1>8, <1>9 DEF PlansInv

LEMMA PlansStep ==
    ASSUME PlansInv, PlansNext
    PROVE  PlansInv'
<1>1. ASSUME NEW o \in PlanTenants \union {Everyone}, NEW c \in AnyCap, Register(o, c) \/ Unregister(o, c) PROVE PlansInv'
  BY <1>1, PlansRegistered
<1>2. CASE PlanTask
  BY <1>2, PlansPlanned
<1>3. CASE MatchAll
  BY <1>3, PlansMatched
<1>4. CASE ExecuteNext
  BY <1>4, PlansExecuted
<1>5. CASE AggregateResults
  BY <1>5 DEF AggregateResults, PlansInv, GetById
<1> QED BY <1>1, <1>2, <1>3, <1>4, <1>5 DEF PlansNext

LEMMA PlansHold == PlansInv => PlansTypeOK /\ ServedByVisible /\ ChainIsWhole
<1> SUFFICES ASSUME PlansInv PROVE PlansTypeOK /\ ServedByVisible /\ ChainIsWhole
  OBVIOUS
<1>1. Len(plan) \in Nat /\ Len(matched) \in Nat /\ Len(results) \in Nat /\ Len(<<>>) = 0
  BY LenProperties, EmptySeq DEF PlansInv
<1>2. PlansTypeOK
  BY <1>1 DEF PlansInv, PlansTypeOK
<1>3. ServedByVisible
  BY <1>1 DEF PlansInv, ServedByVisible
<1>4. ChainIsWhole
  <2>1. ASSUME planPc = "completed" PROVE [k \in 1..Len(results) |-> results[k].n] = [k \in 1..Len(matched) |-> k]
    BY <2>1 DEF PlansInv
  <2>2. \A k \in 2..Len(results) : k \in 1..Len(results) /\ k > 1
    BY <1>1
  <2>3. ASSUME planPc = "error" PROVE results = <<>>
    <3>1. Len(results) = 0 /\ results \in Seq(ResultItem)
      BY <1>1, <2>3 DEF PlansInv
    <3> QED BY <3>1, EmptySeq
  <2>4. \A k \in 2..Len(results) : /\ results[k].input = "output" => results[k - 1].status = "completed"
                                   /\ results[k].input = "empty" => results[k - 1].status = "failed"
    BY <2>2 DEF PlansInv
  <2> QED BY <2>1, <2>3, <2>4 DEF ChainIsWhole
<1> QED BY <1>2, <1>3, <1>4
\* A run's copy is what it found and then its own messages, with whole turns but for
\* the one whose results are being given; the row is the copy of a run that is over,
\* and so are the runs whose messages it has.
Message == [run: EngineRuns, kind: {"user", "assistant", "calls", "result"}, n: Nat]
CallState == [verdict: {"auto", "approve", "block"}, out: Outcome]
RunState == [pc: {"new", "model", "tools", "results", "saving", "over", "refused"}, turns: 0..EngineTurns,
             calls: Seq(CallState), given: Nat, cut: BOOLEAN, base: Seq(Message)]
EnTypes ==
    /\ erun \in [EngineRuns -> RunState] /\ \A r \in EngineRuns : Len(erun[r].calls) <= TurnCalls
    /\ copy \in [EngineRuns -> Seq(Message)] /\ sessRow \in Seq(Message)
    /\ awaiting \subseteq EngineRuns \X Nat
PairedAt(s, i) ==
    i + s[i].n <= Len(s) /\ \A j \in (i + 1)..(i + s[i].n) : s[j].kind = "result" /\ s[j].run = s[i].run
\* The turn of r whose results are being given begins at i.
BeingGiven(r, i) ==
    /\ erun[r].pc = "results" /\ i = Len(copy[r]) - erun[r].given
    /\ copy[r][i].run = r /\ copy[r][i].n = Len(erun[r].calls)
    /\ \A j \in (i + 1)..Len(copy[r]) : copy[r][j].kind = "result" /\ copy[r][j].run = r
\* The last calls of a run that was cut.
CutAt(s, i) ==
    /\ erun[s[i].run].cut
    /\ \A j \in (i + 1)..Len(s) : s[j].run = s[i].run => s[j].kind # "calls"
CopyIsPaired(r) == \A i \in 1..Len(copy[r]) :
    copy[r][i].kind = "calls" => CutAt(copy[r], i) \/ PairedAt(copy[r], i) \/ BeingGiven(r, i)
RowPaired == \A i \in 1..Len(sessRow) :
    sessRow[i].kind = "calls" => CutAt(sessRow, i) \/ PairedAt(sessRow, i)
CopyIsView(r) == erun[r].pc # "new" =>
    /\ Len(erun[r].base) <= Len(copy[r])
    /\ \A i \in 1..Len(erun[r].base) : copy[r][i] = erun[r].base[i] /\ erun[copy[r][i].run].pc = "over"
    /\ \A i \in (Len(erun[r].base) + 1)..Len(copy[r]) : copy[r][i].run = r
RowIsCopy == sessRow # <<>> => \E r \in EngineRuns : erun[r].pc = "over" /\ sessRow = copy[r]
RowIsOver == \A i \in 1..Len(sessRow) : erun[sessRow[i].run].pc = "over"
Stages(r) ==
    /\ erun[r].cut => erun[r].pc \in {"saving", "over"}
    /\ erun[r].pc \in {"tools", "results"} => erun[r].given < Len(erun[r].calls)
    /\ erun[r].pc = "tools" => erun[r].given = 0
    /\ erun[r].pc = "new" => copy[r] = <<>>
WaitsAreNext == \A w \in awaiting :
    /\ erun[w[1]].pc = "tools" /\ w[2] \in Open(w[1], "approve") /\ w[2] = NextApproval(w[1])
EnInv ==
    /\ EnTypes /\ RowPaired /\ RowIsCopy /\ RowIsOver /\ WaitsAreNext
    /\ \A r \in EngineRuns : Stages(r) /\ CopyIsView(r) /\ CopyIsPaired(r)

----------------------------------------------------------------------------
(* Runs of the engine.                                                     *)

LEMMA EngineStart0 == EnInit => EnInv
<1> SUFFICES ASSUME EnInit PROVE EnInv
  OBVIOUS
<1>1. <<>> \in Seq(Message) /\ <<>> \in Seq(CallState) /\ Len(<<>>) = 0
  BY EmptySeq
<1>2. /\ \A r \in EngineRuns : erun[r] = [pc |-> "new", turns |-> 0, calls |-> <<>>, given |-> 0, cut |-> FALSE, base |-> <<>>]
      /\ \A r \in EngineRuns : copy[r] = <<>>
      /\ sessRow = <<>> /\ awaiting = {}
  BY DEF EnInit
<1>3. EnTypes
  <2>1. [pc |-> "new", turns |-> 0, calls |-> <<>>, given |-> 0, cut |-> FALSE, base |-> <<>>] \in RunState
    BY <1>1, EngineAssumption DEF RunState
  <2> QED BY <1>1, <1>2, <2>1, EngineAssumption DEF EnInit, EnTypes
<1>4. RowPaired /\ RowIsCopy /\ RowIsOver /\ WaitsAreNext
  BY <1>1, <1>2 DEF RowPaired, RowIsCopy, RowIsOver, WaitsAreNext
<1>5. \A r \in EngineRuns : Stages(r) /\ CopyIsView(r) /\ CopyIsPaired(r)
  BY <1>1, <1>2 DEF Stages, CopyIsView, CopyIsPaired
<1> QED BY <1>3, <1>4, <1>5 DEF EnInv

LEMMA MessagesIn ==
    ASSUME NEW s \in Seq(Message), NEW i \in 1..Len(s)
    PROVE  s[i] \in Message /\ s[i].run \in EngineRuns /\ s[i].n \in Nat
<1>1. s[i] \in Message
  BY ElementOfSeq
<1> QED BY <1>1 DEF Message

\* The next approval depends on the calls that wait for one alone.
LEMMA NextStays ==
    ASSUME NEW r, Open(r, "approve")' = Open(r, "approve")
    PROVE  NextApproval(r)' = NextApproval(r)
<1> DEFINE first(S) == CHOOSE i \in S : \A j \in S : i <= j
<1>1. NextApproval(r) = first(Open(r, "approve"))
  BY DEF NextApproval
<1>2. NextApproval(r)' = first(Open(r, "approve")')
  BY DEF NextApproval
<1> HIDE DEF first
<1> QED BY <1>1, <1>2

\* Decisions that are waited for go on being, as long as nothing becomes of their runs.
LEMMA WaitsStay ==
    ASSUME EnInv, awaiting' \subseteq awaiting,
           \A w \in awaiting' : erun'[w[1]].pc = erun[w[1]].pc /\ Open(w[1], "approve")' = Open(w[1], "approve")
    PROVE  WaitsAreNext'
<1> SUFFICES ASSUME NEW w \in awaiting'
             PROVE  erun'[w[1]].pc = "tools" /\ w[2] \in Open(w[1], "approve")' /\ w[2] = NextApproval(w[1])'
  BY DEF WaitsAreNext
<1>1. NextApproval(w[1])' = NextApproval(w[1])
  BY NextStays
<1> QED BY <1>1 DEF EnInv, WaitsAreNext

LEMMA EngineStutter == EnInv /\ UNCHANGED enVars => EnInv'
<1> SUFFICES ASSUME EnInv, UNCHANGED enVars PROVE EnInv'
  OBVIOUS
<1> USE DEF EnInv, enVars
<1>1. EnTypes' /\ RowPaired' /\ RowIsCopy' /\ RowIsOver'
  BY DEF EnTypes, RowPaired, PairedAt, CutAt, RowIsCopy, RowIsOver
<1>2. WaitsAreNext'
  BY WaitsStay DEF Open
<1>3. \A r \in EngineRuns : Stages(r)' /\ CopyIsView(r)' /\ CopyIsPaired(r)'
  BY DEF Stages, CopyIsView, CopyIsPaired, PairedAt, CutAt, BeingGiven
<1> QED BY <1>1, <1>2, <1>3

\* What a step of one run r leaves of the others, when the row stays: they have their
\* copies and places, the row and the copies name runs that are over or their own.
LEMMA OthersStay ==
    ASSUME EnInv, NEW r \in EngineRuns, EnTypes', UNCHANGED sessRow,
           erun[r].pc # "over", ~erun[r].cut \/ erun'[r].cut,
           \A q \in EngineRuns \ {r} : erun'[q] = erun[q] /\ copy'[q] = copy[q]
    PROVE  /\ RowPaired' /\ RowIsCopy' /\ RowIsOver'
           /\ \A q \in EngineRuns \ {r} : Stages(q)' /\ CopyIsView(q)' /\ CopyIsPaired(q)'
<1>1. sessRow \in Seq(Message) /\ \A i \in 1..Len(sessRow) : sessRow[i] \in Message /\ sessRow[i].run \in EngineRuns
      /\ erun[sessRow[i].run].pc = "over"
  BY MessagesIn DEF EnInv, EnTypes, RowIsOver
<1>2. \A i \in 1..Len(sessRow) : erun'[sessRow[i].run] = erun[sessRow[i].run]
  BY <1>1
<1>3. RowIsOver'
  BY <1>1, <1>2 DEF RowIsOver
<1>4. RowPaired'
  BY <1>2 DEF EnInv, RowPaired, PairedAt, CutAt
<1>5. RowIsCopy'
  BY DEF EnInv, RowIsCopy
<1>6. ASSUME NEW q \in EngineRuns \ {r} PROVE Stages(q)' /\ CopyIsView(q)' /\ CopyIsPaired(q)'
  <2>1. Stages(q)'
    BY DEF EnInv, Stages
  <2>2. \A i \in 1..Len(copy[q]) : copy[q][i] \in Message /\ copy[q][i].run \in EngineRuns
    BY MessagesIn DEF EnInv, EnTypes
  <2>3. ASSUME erun[q].pc # "new", NEW i \in 1..Len(erun[q].base) PROVE erun'[copy[q][i].run].pc = "over"
    <3>1. erun[copy[q][i].run].pc = "over" /\ i \in 1..Len(copy[q])
      <4>1. Len(erun[q].base) <= Len(copy[q]) /\ Len(erun[q].base) \in Nat /\ Len(copy[q]) \in Nat
        BY <2>3, LenProperties DEF EnInv, CopyIsView, EnTypes, RunState
      <4> QED BY <2>3, <4>1 DEF EnInv, CopyIsView
    <3>2. copy[q][i].run # r
      BY <3>1
    <3> QED BY <2>2, <3>1, <3>2
  <2>4. CopyIsView(q)'
    BY SMTT(30), <2>3 DEF EnInv, CopyIsView
  <2>5. \A i \in 1..Len(copy[q]) : erun[copy[q][i].run].cut => erun'[copy[q][i].run].cut
    BY <2>2
  <2>6. CopyIsPaired(q)'
    BY <2>5 DEF EnInv, CopyIsPaired, PairedAt, CutAt, BeingGiven
  <2> QED BY <2>1, <2>4, <2>6
<1> QED BY <1>3, <1>4, <1>5, <1>6

LEMMA EngineStarts ==
    ASSUME EnInv, NEW r \in EngineRuns, EngineStart(r)
    PROVE  EnInv'
<1>1. PICK pc \in {"model", "refused"} : erun' = [erun EXCEPT ![r].pc = pc, ![r].base = sessRow]
  BY DEF EngineStart
<1> DEFINE m == Msg(r, "user", 0)
<1>2. /\ erun[r].pc = "new" /\ copy' = [copy EXCEPT ![r] = Append(sessRow, m)]
      /\ UNCHANGED <<sessRow, awaiting>>
  BY DEF EngineStart
<1>3. m \in Message /\ m.run = r /\ m.kind = "user"
  BY DEF Msg, Message
<1> HIDE DEF m
<1>4. /\ copy'[r] = Append(sessRow, m) /\ copy'[r] \in Seq(Message) /\ Len(sessRow) \in Nat
      /\ Len(copy'[r]) = Len(sessRow) + 1 /\ copy'[r][Len(sessRow) + 1] = m
      /\ \A i \in 1..Len(sessRow) : copy'[r][i] = sessRow[i]
      /\ \A i \in 1..Len(copy'[r]) : i \in 1..Len(sessRow) \/ i = Len(sessRow) + 1
  <2>1. copy'[r] = Append(sessRow, m) /\ sessRow \in Seq(Message)
    BY <1>2 DEF EnInv, EnTypes
  <2> QED BY <1>3, <2>1, Appending
<1>5. erun'[r] = [erun[r] EXCEPT !.pc = pc, !.base = sessRow] /\ erun[r] \in RunState
      /\ \A q \in EngineRuns \ {r} : erun'[q] = erun[q] /\ copy'[q] = copy[q]
  BY <1>1, <1>2 DEF EnInv, EnTypes
<1>6. erun'[r] \in RunState /\ erun'[r].pc = pc /\ erun'[r].base = sessRow /\ erun'[r].cut = erun[r].cut
      /\ erun'[r].calls = erun[r].calls
  BY <1>5 DEF EnInv, EnTypes, RunState
<1>7. EnTypes'
  <2>1. erun' \in [EngineRuns -> RunState] /\ copy' \in [EngineRuns -> Seq(Message)]
    BY <1>1, <1>2, <1>4, <1>5, <1>6 DEF EnInv, EnTypes
  <2> QED BY <1>2, <1>5, <1>6, <2>1 DEF EnInv, EnTypes
<1>8. /\ RowPaired' /\ RowIsCopy' /\ RowIsOver'
      /\ \A q \in EngineRuns \ {r} : Stages(q)' /\ CopyIsView(q)' /\ CopyIsPaired(q)'
  BY <1>2, <1>5, <1>6, <1>7, OthersStay
<1>9. ~erun[r].cut /\ Stages(r)'
  BY <1>2, <1>6 DEF EnInv, Stages
<1>10. CopyIsView(r)'
  <2>1. \A i \in 1..Len(sessRow) : erun'[sessRow[i].run].pc = "over"
    BY <1>2, <1>8 DEF RowIsOver
  <2>2. \A i \in (Len(sessRow) + 1)..Len(copy'[r]) : i = Len(sessRow) + 1
    BY <1>4
  <2> QED BY <1>3, <1>4, <1>6, <2>1, <2>2 DEF CopyIsView
<1>11. CopyIsPaired(r)'
  <2> SUFFICES ASSUME NEW i \in 1..Len(copy'[r]), copy'[r][i].kind = "calls"
               PROVE  CutAt(copy[r], i)' \/ PairedAt(copy'[r], i)
    BY DEF CopyIsPaired
  <2>1. i \in 1..Len(sessRow)
    BY <1>3, <1>4
  <2>2. CutAt(sessRow, i)' \/ PairedAt(sessRow, i)
    BY <1>2, <1>4, <1>8, <2>1 DEF RowPaired, PairedAt
  <2>4. ASSUME CutAt(sessRow, i)' PROVE CutAt(copy[r], i)'
    <3>1. \A j \in (i + 1)..Len(copy'[r]) : j \in (i + 1)..Len(sessRow) \/ copy'[r][j].kind # "calls"
      BY <1>3, <1>4, <2>1
    <3>2. \A j \in (i + 1)..Len(sessRow) : copy'[r][j] = sessRow[j]
      BY <1>4, <2>1
    <3>3. sessRow' = sessRow /\ copy'[r][i] = sessRow[i]
      BY <1>2, <1>4, <2>1
    <3> QED BY <2>4, <3>1, <3>2, <3>3 DEF CutAt
  <2>3. ASSUME PairedAt(sessRow, i) PROVE PairedAt(copy'[r], i)
    <3>1. sessRow[i].n \in Nat
      BY <2>1, MessagesIn DEF EnInv, EnTypes
    <3>2. \A j \in (i + 1)..(i + sessRow[i].n) : j \in 1..Len(sessRow)
      BY <1>4, <2>1, <2>3, <3>1 DEF PairedAt
    <3> QED BY <1>4, <2>1, <2>3, <3>1, <3>2 DEF PairedAt
  <2> QED BY <1>4, <2>1, <2>2, <2>3, <2>4
<1>12. WaitsAreNext'
  <2>1. \A w \in awaiting : w[1] # r /\ w[1] \in EngineRuns
    BY <1>2 DEF EnInv, WaitsAreNext, EnTypes
  <2>2. \A w \in awaiting' : erun'[w[1]] = erun[w[1]]
    BY <1>2, <1>5, <2>1
  <2> QED BY <1>2, <2>2, WaitsStay DEF Open
<1> QED BY <1>7, <1>8, <1>9, <1>10, <1>11, <1>12 DEF EnInv

LEMMA PairedKept ==
    ASSUME NEW s \in Seq(Message), NEW m \in Message, NEW i \in 1..Len(s), PairedAt(s, i)
    PROVE  PairedAt(Append(s, m), i)
<1>1. s[i].n \in Nat /\ Len(s) \in Nat
  BY MessagesIn, LenProperties
<1>2. /\ Len(Append(s, m)) = Len(s) + 1 /\ \A j \in 1..Len(s) : Append(s, m)[j] = s[j]
  BY Appending
<1>3. \A j \in (i + 1)..(i + s[i].n) : j \in 1..Len(s)
  BY <1>1 DEF PairedAt
<1> QED BY <1>1, <1>2, <1>3 DEF PairedAt

\* A step of r that leaves the row and adds at most one message of its own to its copy:
\* what it leaves true whatever else it does.
OwnStep(r) ==
    /\ EnTypes' /\ UNCHANGED sessRow
    /\ erun[r].pc \notin {"new", "over"} /\ erun'[r].base = erun[r].base /\ ~erun[r].cut
    /\ \A q \in EngineRuns \ {r} : erun'[q] = erun[q] /\ copy'[q] = copy[q]
    /\ copy'[r] = copy[r] \/ \E m \in Message : m.run = r /\ copy'[r] = Append(copy[r], m)

LEMMA OwnStepKeeps ==
    ASSUME EnInv, NEW r \in EngineRuns, OwnStep(r)
    PROVE  /\ RowPaired' /\ RowIsCopy' /\ RowIsOver' /\ CopyIsView(r)'
           /\ \A q \in EngineRuns \ {r} : Stages(q)' /\ CopyIsView(q)' /\ CopyIsPaired(q)'
           /\ \A i \in 1..Len(copy[r]) : CutAt(copy[r], i) => CutAt(copy[r], i)'
<1>1. /\ RowPaired' /\ RowIsCopy' /\ RowIsOver'
      /\ \A q \in EngineRuns \ {r} : Stages(q)' /\ CopyIsView(q)' /\ CopyIsPaired(q)'
  BY OthersStay DEF OwnStep
<1> DEFINE b == Len(erun[r].base)
<1>2. /\ copy[r] \in Seq(Message) /\ Len(copy[r]) \in Nat /\ b \in Nat /\ b <= Len(copy[r])
      /\ \A i \in 1..b : copy[r][i] = erun[r].base[i] /\ erun[copy[r][i].run].pc = "over"
      /\ \A i \in (b + 1)..Len(copy[r]) : copy[r][i].run = r
  BY LenProperties DEF EnInv, EnTypes, RunState, CopyIsView, OwnStep
<1>3. \A i \in 1..Len(copy[r]) : copy[r][i].run \in EngineRuns
  BY <1>2, MessagesIn
<1>5. \A i \in 1..b : i \in 1..Len(copy[r]) /\ copy[r][i].run # r /\ erun'[copy[r][i].run].pc = "over"
  <2> TAKE i \in 1..b
  <2>1. i \in 1..Len(copy[r]) /\ erun[copy[r][i].run].pc = "over"
    BY <1>2
  <2>2. copy[r][i].run # r
    BY <2>1 DEF OwnStep
  <2> QED BY <1>3, <2>1, <2>2 DEF OwnStep
<1>6. /\ Len(copy'[r]) \in Nat /\ b <= Len(copy'[r])
      /\ \A i \in 1..Len(copy[r]) : copy'[r][i] = copy[r][i]
      /\ \A i \in 1..Len(copy'[r]) : i \in 1..Len(copy[r]) \/ copy'[r][i].run = r
  <2>1. CASE copy'[r] = copy[r]
    BY <1>2, <2>1
  <2>2. CASE copy'[r] # copy[r]
    <3>1. PICK m \in Message : m.run = r /\ copy'[r] = Append(copy[r], m)
      BY <2>2 DEF OwnStep
    <3>2. /\ Append(copy[r], m) \in Seq(Message) /\ Len(Append(copy[r], m)) = Len(copy[r]) + 1
          /\ \A i \in 1..Len(copy[r]) : Append(copy[r], m)[i] = copy[r][i]
          /\ Append(copy[r], m)[Len(copy[r]) + 1] = m
          /\ \A i \in 1..(Len(copy[r]) + 1) : i \in 1..Len(copy[r]) \/ i = Len(copy[r]) + 1
      BY <1>2, Appending
    <3> QED BY <1>2, <3>1, <3>2
  <2> QED BY <2>1, <2>2
<1>7. \A i \in (b + 1)..Len(copy'[r]) : copy'[r][i].run = r
  <2> TAKE i \in (b + 1)..Len(copy'[r])
  <2>1. i \in 1..Len(copy'[r])
    BY <1>2, <1>6
  <2>2. CASE i \in 1..Len(copy[r])
    <3>1. i \in (b + 1)..Len(copy[r])
      BY <1>2, <2>2
    <3>2. copy[r][i].run = r
      BY <3>1 DEF EnInv, CopyIsView, OwnStep
    <3>3. copy'[r][i] = copy[r][i]
      BY <1>6, <2>2
    <3> QED BY <3>2, <3>3
  <2> QED BY <1>6, <2>1, <2>2
<1>8. CopyIsView(r)'
  <2>1. \A i \in 1..b : copy'[r][i] = erun[r].base[i] /\ erun'[copy'[r][i].run].pc = "over"
    BY <1>2, <1>5, <1>6
  <2>2. erun'[r].base = erun[r].base
    BY DEF OwnStep
  <2> HIDE DEF b
  <2>3. Len(erun'[r].base) = b
    BY <2>2 DEF b
  <2> QED BY <1>6, <1>7, <2>1, <2>2, <2>3 DEF CopyIsView
<1>4. ASSUME NEW i \in 1..Len(copy[r]), CutAt(copy[r], i) PROVE CutAt(copy[r], i)'
  <2>1. copy'[r][i] = copy[r][i] /\ copy[r][i].run \in EngineRuns /\ copy[r][i].run # r
    BY <1>3, <1>4, <1>6 DEF CutAt, OwnStep
  <2>2. erun'[copy[r][i].run].cut
    BY <1>4, <2>1 DEF CutAt, OwnStep
  <2>3. ASSUME NEW j \in (i + 1)..Len(copy'[r]), copy'[r][j].run = copy[r][i].run PROVE copy'[r][j].kind # "calls"
    <3>1. j \in 1..Len(copy'[r])
      BY <1>2, <1>6
    <3>2. j \in 1..Len(copy[r])
      BY <1>6, <2>1, <2>3, <3>1
    <3>3. j \in (i + 1)..Len(copy[r]) /\ copy'[r][j] = copy[r][j]
      BY <1>2, <1>6, <3>2
    <3> QED BY <1>4, <2>3, <3>3 DEF CutAt
  <2> QED BY <2>1, <2>2, <2>3 DEF CutAt
<1> QED BY <1>1, <1>4, <1>8

\* No turn is being given: its copy stays paired when nothing or no call is added.
LEMMA PairedStays ==
    ASSUME EnInv, NEW r \in EngineRuns, OwnStep(r), erun[r].pc # "results",
           \/ copy'[r] = copy[r]
           \/ \E m \in Message : m.run = r /\ m.kind # "calls" /\ copy'[r] = Append(copy[r], m)
    PROVE  CopyIsPaired(r)'
<1>1. \A i \in 1..Len(copy[r]) : CutAt(copy[r], i) => CutAt(copy[r], i)'
  BY OwnStepKeeps
<1>2. \A i \in 1..Len(copy[r]) : copy[r][i].kind = "calls" => CutAt(copy[r], i)' \/ PairedAt(copy[r], i)
  BY <1>1 DEF EnInv, CopyIsPaired, BeingGiven
<1>3. CASE copy'[r] = copy[r]
  BY <1>2, <1>3 DEF CopyIsPaired, PairedAt
<1>4. CASE copy'[r] # copy[r]
  <2>1. PICK m \in Message : m.run = r /\ m.kind # "calls" /\ copy'[r] = Append(copy[r], m)
    BY <1>4
  <2>2. copy[r] \in Seq(Message)
    BY DEF EnInv, EnTypes
  <2>3. /\ Len(copy'[r]) = Len(copy[r]) + 1 /\ \A i \in 1..Len(copy[r]) : copy'[r][i] = copy[r][i]
        /\ copy'[r][Len(copy[r]) + 1] = m
        /\ \A i \in 1..Len(copy'[r]) : i \in 1..Len(copy[r]) \/ i = Len(copy[r]) + 1
    BY <2>1, <2>2, Appending
  <2> SUFFICES ASSUME NEW i \in 1..Len(copy'[r]), copy'[r][i].kind = "calls"
               PROVE  CutAt(copy[r], i)' \/ PairedAt(copy'[r], i)
    BY DEF CopyIsPaired
  <2>4. i \in 1..Len(copy[r]) /\ copy'[r][i] = copy[r][i]
    BY <2>1, <2>3
  <2>5. PairedAt(copy[r], i) => PairedAt(copy'[r], i)
    BY <2>1, <2>2, <2>4, PairedKept
  <2> QED BY <1>2, <2>4, <2>5
<1> QED BY <1>3, <1>4

\* A new state of the run r, written to its place.
LEMMA EngineMoves ==
    ASSUME EnInv, NEW r \in EngineRuns, NEW st \in RunState, erun' = [erun EXCEPT ![r] = st], Len(st.calls) <= TurnCalls,
           copy' \in [EngineRuns -> Seq(Message)], sessRow' = sessRow, awaiting' \subseteq EngineRuns \X Nat
    PROVE  EnTypes' /\ erun'[r] = st /\ \A q \in EngineRuns \ {r} : erun'[q] = erun[q]
<1>1. erun'[r] = st /\ (\A q \in EngineRuns \ {r} : erun'[q] = erun[q]) /\ erun' \in [EngineRuns -> RunState]
  BY DEF EnInv, EnTypes
<1> QED BY <1>1 DEF EnInv, EnTypes

LEMMA EngineAdds ==
    ASSUME EnInv, NEW r \in EngineRuns, NEW m \in Message, Adds(r, <<m>>)
    PROVE  /\ copy' \in [EngineRuns -> Seq(Message)] /\ copy'[r] = Append(copy[r], m)
           /\ \A q \in EngineRuns \ {r} : copy'[q] = copy[q]
<1>1. copy[r] \in Seq(Message) /\ copy \in [EngineRuns -> Seq(Message)]
  BY DEF EnInv, EnTypes
<1>2. Append(copy[r], m) = copy[r] \o <<m>> /\ Append(copy[r], m) \in Seq(Message)
  BY <1>1, AppendIsConcat, AppendProperties
<1> QED BY <1>1, <1>2 DEF Adds

LEMMA EngineAnswers ==
    ASSUME EnInv, NEW r \in EngineRuns, ModelAnswers(r)
    PROVE  EnInv'
<1>1. /\ erun[r].pc = "model" /\ UNCHANGED <<sessRow, awaiting>> /\ erun[r] \in RunState /\ ~erun[r].cut
      /\ copy \in [EngineRuns -> Seq(Message)] /\ awaiting \subseteq EngineRuns \X Nat
      /\ Len(erun[r].calls) <= TurnCalls
  BY DEF ModelAnswers, EnInv, EnTypes, Stages
<1>2. WaitsAreNext' \/ \E q \in EngineRuns \ {r} : erun'[q] # erun[q]
  <2> SUFFICES ASSUME \A q \in EngineRuns \ {r} : erun'[q] = erun[q] PROVE WaitsAreNext'
    OBVIOUS
  <2>1. \A w \in awaiting' : w[1] # r /\ w[1] \in EngineRuns
    BY <1>1 DEF EnInv, WaitsAreNext
  <2>2. \A w \in awaiting' : erun'[w[1]] = erun[w[1]]
    BY <2>1
  <2> QED BY <1>1, <2>2, WaitsStay DEF Open
<1>3. CASE erun' = [erun EXCEPT ![r].pc = "saving"] /\ (Adds(r, <<Msg(r, "assistant", 0)>>) \/ UNCHANGED copy)
  <2> DEFINE st == [erun[r] EXCEPT !.pc = "saving"]
             m == Msg(r, "assistant", 0)
  <2>1. m \in Message /\ m.run = r /\ m.kind # "calls"
    BY DEF Msg, Message
  <2>2. /\ copy' \in [EngineRuns -> Seq(Message)] /\ \A q \in EngineRuns \ {r} : copy'[q] = copy[q]
        /\ copy'[r] = copy[r] \/ copy'[r] = Append(copy[r], m)
    BY <1>1, <1>3, <2>1, EngineAdds
  <2>3. /\ st \in RunState /\ st.pc = "saving" /\ st.base = erun[r].base /\ st.cut = erun[r].cut
        /\ st.calls = erun[r].calls /\ erun' = [erun EXCEPT ![r] = st]
    BY <1>1, <1>3 DEF RunState
  <2> HIDE DEF st, m
  <2>4. EnTypes' /\ erun'[r] = st /\ \A q \in EngineRuns \ {r} : erun'[q] = erun[q]
    BY <1>1, <2>2, <2>3, EngineMoves
  <2>5. OwnStep(r)
    BY <1>1, <2>1, <2>2, <2>3, <2>4 DEF OwnStep
  <2>6. CopyIsPaired(r)'
    BY <1>1, <2>1, <2>2, <2>5, PairedStays
  <2>7. Stages(r)'
    BY <2>3, <2>4 DEF Stages
  <2> QED BY <1>2, <2>4, <2>5, <2>6, <2>7, OwnStepKeeps DEF EnInv
<1>4. CASE /\ erun[r].turns < EngineTurns /\ UNCHANGED copy
           /\ \E n \in 1..TurnCalls : \E v \in [1..n -> {"auto", "approve", "block"}] :
              erun' = [erun EXCEPT ![r].pc = "tools", ![r].turns = @ + 1, ![r].given = 0,
                          ![r].calls = [i \in 1..n |-> [verdict |-> v[i], out |-> IF v[i] = "block" THEN "answer" ELSE "open"]]]
  <2>9. PICK n \in 1..TurnCalls : \E v \in [1..n -> {"auto", "approve", "block"}] :
              erun' = [erun EXCEPT ![r].pc = "tools", ![r].turns = @ + 1, ![r].given = 0,
                          ![r].calls = [i \in 1..n |-> [verdict |-> v[i], out |-> IF v[i] = "block" THEN "answer" ELSE "open"]]]
    BY <1>4
  <2>1. PICK v \in [1..n -> {"auto", "approve", "block"}] :
              erun' = [erun EXCEPT ![r].pc = "tools", ![r].turns = @ + 1, ![r].given = 0,
                          ![r].calls = [i \in 1..n |-> [verdict |-> v[i], out |-> IF v[i] = "block" THEN "answer" ELSE "open"]]]
    BY <2>9
  <2> DEFINE calls == [i \in 1..n |-> [verdict |-> v[i], out |-> IF v[i] = "block" THEN "answer" ELSE "open"]]
             st == [erun[r] EXCEPT !.pc = "tools", !.turns = @ + 1, !.given = 0, !.calls = calls]
  <2>2. calls \in Seq(CallState) /\ Len(calls) = n /\ n \in Nat /\ n > 0 /\ n <= TurnCalls
    <3>1. \A i \in 1..n : [verdict |-> v[i], out |-> IF v[i] = "block" THEN "answer" ELSE "open"] \in CallState
      BY DEF CallState, Outcome
    <3>2. n \in Nat /\ n > 0 /\ n <= TurnCalls
      BY EngineAssumption
    <3>3. calls \in [1..n -> CallState]
      BY <3>1
    <3> HIDE DEF calls
    <3> QED BY <3>2, <3>3
  <2> HIDE DEF calls
  <2>3. /\ st \in RunState /\ st.pc = "tools" /\ st.base = erun[r].base /\ st.cut = erun[r].cut
        /\ st.calls = calls /\ st.given = 0 /\ erun' = [erun EXCEPT ![r] = st]
    <3>1. erun[r].turns + 1 \in 0..EngineTurns
      BY SMTT(30), <1>1, <1>4, EngineAssumption DEF RunState
    <3> QED BY <1>1, <2>1, <2>2, <3>1 DEF RunState, calls
  <2> HIDE DEF st
  <2>4. EnTypes' /\ erun'[r] = st /\ \A q \in EngineRuns \ {r} : erun'[q] = erun[q]
    BY <1>1, <1>4, <2>2, <2>3, EngineMoves
  <2>5. OwnStep(r)
    BY <1>1, <1>4, <2>3, <2>4 DEF OwnStep
  <2>6. CopyIsPaired(r)'
    BY <1>1, <1>4, <2>5, PairedStays
  <2>7. Stages(r)'
    BY <1>1, <2>2, <2>3, <2>4 DEF Stages
  <2> QED BY <1>2, <2>4, <2>5, <2>6, <2>7, OwnStepKeeps DEF EnInv
<1> QED BY <1>3, <1>4 DEF ModelAnswers

\* A settled call: the turn keeps its calls and their verdicts.
LEMMA CallSettles ==
    ASSUME EnInv, NEW r \in EngineRuns, NEW i \in 1..Len(erun[r].calls), NEW out \in Outcome, Settles(r, i, out),
           erun[r].pc = "tools", copy' = copy, sessRow' = sessRow, awaiting' \subseteq awaiting
    PROVE  /\ EnTypes' /\ Stages(r)' /\ OwnStep(r)
           /\ erun'[r].pc = "tools" /\ Len(erun'[r].calls) = Len(erun[r].calls)
           /\ erun'[r].calls[i].out = out
           /\ \A j \in 1..Len(erun[r].calls) : /\ erun'[r].calls[j].verdict = erun[r].calls[j].verdict
                                               /\ j # i => erun'[r].calls[j] = erun[r].calls[j]
<1> DEFINE was == erun[r].calls
           calls == [was EXCEPT ![i].out = out]
           st == [erun[r] EXCEPT !.calls = calls]
<1>1. /\ was \in Seq(CallState) /\ erun[r] \in RunState /\ Len(was) <= TurnCalls /\ erun \in [EngineRuns -> RunState]
      /\ was \in [1..Len(was) -> CallState] /\ Len(was) \in Nat
  BY LenProperties DEF EnInv, EnTypes, RunState
<1>2. was[i] \in CallState /\ [was[i] EXCEPT !.out = out] \in CallState /\ [was[i] EXCEPT !.out = out].verdict = was[i].verdict
      /\ [was[i] EXCEPT !.out = out].out = out
  BY <1>1 DEF CallState
<1>3. /\ calls \in [1..Len(was) -> CallState] /\ calls[i] = [was[i] EXCEPT !.out = out]
      /\ \A j \in 1..Len(was) : j # i => calls[j] = was[j]
  BY <1>1, <1>2
<1>4. calls \in Seq(CallState) /\ Len(calls) = Len(was)
  BY <1>1, <1>3
<1> HIDE DEF calls
<1>5. /\ st \in RunState /\ st.pc = "tools" /\ st.base = erun[r].base /\ st.cut = erun[r].cut
      /\ st.calls = calls /\ st.given = erun[r].given
  BY <1>1, <1>4 DEF RunState
<1>6. erun' = [erun EXCEPT ![r] = st]
  <2>1. erun' = [erun EXCEPT ![r].calls[i].out = out]
    BY DEF Settles
  <2> QED BY <1>1, <2>1 DEF calls
<1> HIDE DEF st
<1>7. copy' \in [EngineRuns -> Seq(Message)] /\ awaiting' \subseteq EngineRuns \X Nat
  BY DEF EnInv, EnTypes
<1>8. EnTypes' /\ erun'[r] = st /\ \A q \in EngineRuns \ {r} : erun'[q] = erun[q]
  BY <1>1, <1>4, <1>5, <1>6, <1>7, EngineMoves
<1>9. OwnStep(r)
  <2>1. ~erun[r].cut
    BY DEF EnInv, Stages
  <2> QED BY <1>5, <1>8, <2>1 DEF OwnStep
<1>10. Stages(r)'
  BY <1>4, <1>5, <1>8 DEF EnInv, Stages
<1>11. \A j \in 1..Len(was) : calls[j].verdict = was[j].verdict
  BY <1>2, <1>3
<1>12. calls[i].out = out
  BY <1>2, <1>3
<1>13. erun'[r].calls = calls /\ erun'[r].pc = "tools"
  BY <1>5, <1>8
<1> QED BY <1>3, <1>4, <1>8, <1>9, <1>10, <1>11, <1>12, <1>13

LEMMA EngineRuns0 ==
    ASSUME EnInv, NEW r \in EngineRuns, NEW i \in 1..TurnCalls, RunAuto(r, i)
    PROVE  EnInv'
<1>1. PICK out \in {"answer", "raises"} : Settles(r, i, out)
  BY DEF RunAuto
<1>2. i \in 1..Len(erun[r].calls) /\ erun[r].calls[i].verdict = "auto" /\ erun[r].pc = "tools" /\ out \in Outcome
      /\ UNCHANGED <<copy, sessRow, awaiting>>
  BY DEF RunAuto, Open, Outcome
<1>3. /\ EnTypes' /\ Stages(r)' /\ OwnStep(r)
      /\ erun'[r].pc = "tools" /\ Len(erun'[r].calls) = Len(erun[r].calls)
      /\ \A j \in 1..Len(erun[r].calls) : /\ erun'[r].calls[j].verdict = erun[r].calls[j].verdict
                                          /\ j # i => erun'[r].calls[j] = erun[r].calls[j]
  BY <1>1, <1>2, CallSettles
<1>4. Open(r, "approve")' = Open(r, "approve")
  BY <1>2, <1>3 DEF Open
<1>5. \A w \in awaiting' : erun'[w[1]].pc = erun[w[1]].pc /\ Open(w[1], "approve")' = Open(w[1], "approve")
  <2> TAKE w \in awaiting'
  <2>1. w[1] \in EngineRuns
    BY <1>2 DEF EnInv, EnTypes
  <2>2. CASE w[1] = r
    BY <1>2, <1>3, <1>4, <2>2
  <2>3. CASE w[1] # r
    <3>1. erun'[w[1]] = erun[w[1]]
      BY <1>3, <2>1, <2>3 DEF OwnStep
    <3> QED BY <3>1 DEF Open
  <2> QED BY <2>2, <2>3
<1>6. WaitsAreNext'
  BY <1>2, <1>5, WaitsStay
<1>7. CopyIsPaired(r)'
  BY <1>2, <1>3, PairedStays
<1> QED BY <1>3, <1>6, <1>7, OwnStepKeeps DEF EnInv

LEMMA NextIsOpen ==
    ASSUME EnInv, NEW r \in EngineRuns, Open(r, "approve") # {}
    PROVE  NextApproval(r) \in Open(r, "approve") /\ NextApproval(r) \in 1..Len(erun[r].calls)
<1>1. Open(r, "approve") \in SUBSET Nat /\ \A i \in Open(r, "approve") : i \in 1..Len(erun[r].calls)
  BY DEF Open
<1>2. \E i \in Open(r, "approve") : \A j \in Open(r, "approve") : i <= j
  BY <1>1, Least
<1>3. NextApproval(r) \in Open(r, "approve")
  BY <1>2 DEF NextApproval
<1> QED BY <1>1, <1>3

LEMMA EngineAsks ==
    ASSUME EnInv, NEW r \in EngineRuns, AskApproval(r)
    PROVE  EnInv'
<1> DEFINE w0 == <<r, NextApproval(r)>>
<1>1. /\ erun[r].pc = "tools" /\ Open(r, "approve") # {} /\ awaiting' = awaiting \union {w0} /\ UNCHANGED <<erun, copy, sessRow>>
  BY DEF AskApproval
<1>2. NextApproval(r) \in Open(r, "approve") /\ NextApproval(r) \in 1..Len(erun[r].calls)
  BY <1>1, NextIsOpen
<1>3. w0 \in EngineRuns \X Nat
  BY <1>2
<1>4. EnTypes' /\ RowPaired' /\ RowIsCopy' /\ RowIsOver'
  BY <1>1, <1>3 DEF EnInv, EnTypes, RowPaired, PairedAt, CutAt, RowIsCopy, RowIsOver
<1>5. \A q \in EngineRuns : Stages(q)' /\ CopyIsView(q)' /\ CopyIsPaired(q)'
  BY <1>1 DEF EnInv, Stages, CopyIsView, CopyIsPaired, PairedAt, CutAt, BeingGiven
<1>6. \A q \in EngineRuns : Open(q, "approve")' = Open(q, "approve") /\ NextApproval(q)' = NextApproval(q)
  <2>1. \A q \in EngineRuns : Open(q, "approve")' = Open(q, "approve")
    BY <1>1 DEF Open
  <2> QED BY <2>1, NextStays
<1>7. WaitsAreNext'
  <2> SUFFICES ASSUME NEW w \in awaiting'
               PROVE  erun'[w[1]].pc = "tools" /\ w[2] \in Open(w[1], "approve")' /\ w[2] = NextApproval(w[1])'
    BY DEF WaitsAreNext
  <2>1. w[1] \in EngineRuns
    BY <1>1, <1>3 DEF EnInv, EnTypes
  <2>2. CASE w = w0
    <3>1. w[1] = r /\ w[2] = NextApproval(r)
      BY <2>2
    <3> QED BY <1>1, <1>2, <1>6, <3>1
  <2>3. CASE w \in awaiting
    BY <1>1, <1>6, <2>1, <2>3 DEF EnInv, WaitsAreNext
  <2> QED BY <1>1, <2>2, <2>3
<1> QED BY <1>4, <1>5, <1>7 DEF EnInv

LEMMA EngineLeaves ==
    ASSUME EnInv, NEW r \in EngineRuns, NEW p \in {"model", "saving"}, NEW d \in BOOLEAN, Leaves(r, p, d)
    PROVE  \E st \in RunState :
             /\ erun' = [erun EXCEPT ![r] = st] /\ Len(st.calls) <= TurnCalls
             /\ st.base = erun[r].base /\ st.pc = p /\ st.cut = d
<1> DEFINE st == [erun[r] EXCEPT !.pc = p, !.cut = d, !.calls = <<>>, !.given = 0]
<1>1. erun[r] \in RunState /\ erun \in [EngineRuns -> RunState]
  BY DEF EnInv, EnTypes
<1>2. <<>> \in Seq(CallState) /\ Len(<<>>) = 0
  BY EmptySeq
<1> DEFINE none == <<>>
<1>3. none \in Seq(CallState) /\ Len(none) <= TurnCalls
  BY <1>2, EngineAssumption
<1>4. erun' = [erun EXCEPT ![r] = [@ EXCEPT !.pc = p, !.cut = d, !.calls = none, !.given = 0]]
  BY <1>1 DEF Leaves
<1> HIDE DEF none
<1>5. st = [erun[r] EXCEPT !.pc = p, !.cut = d, !.calls = none, !.given = 0]
  BY DEF none
<1>6. st \in RunState /\ st.calls = none /\ st.base = erun[r].base /\ st.pc = p
  BY <1>1, <1>3, <1>5 DEF RunState
<1>7. st.cut = d
  BY <1>1, <1>5, Zenon DEF RunState
<1>8. erun' = [erun EXCEPT ![r] = st]
  BY <1>1, <1>4, <1>5
<1> HIDE DEF st
<1> QED BY <1>3, <1>6, <1>7, <1>8

LEMMA EngineDecided ==
    ASSUME EnInv, NEW r \in EngineRuns, ApprovalDecided(r)
    PROVE  EnInv'
<1> DEFINE w0 == <<r, NextApproval(r)>>
<1>1. /\ erun[r].pc = "tools" /\ Open(r, "approve") # {} /\ awaiting' = awaiting \ {w0}
      /\ copy' = copy /\ sessRow' = sessRow /\ awaiting' \subseteq awaiting
  BY DEF ApprovalDecided, Forgets
<1>2. NextApproval(r) \in Open(r, "approve") /\ NextApproval(r) \in 1..Len(erun[r].calls)
  BY <1>1, NextIsOpen
<1>3. \A w \in awaiting' : w[1] # r /\ w[1] \in EngineRuns
  <2> TAKE w \in awaiting'
  <2>1. w \in awaiting /\ w # w0 /\ w \in EngineRuns \X Nat
    BY <1>1 DEF EnInv, EnTypes
  <2>2. w[2] = NextApproval(w[1]) /\ w = <<w[1], w[2]>> /\ w[1] \in EngineRuns
    BY <2>1 DEF EnInv, WaitsAreNext
  <2> QED BY <2>1, <2>2
<1>4. ASSUME OwnStep(r) PROVE WaitsAreNext'
  <2>1. \A w \in awaiting' : erun'[w[1]] = erun[w[1]]
    BY <1>3, <1>4 DEF OwnStep
  <2> QED BY <1>1, <2>1, WaitsStay DEF Open
<1>5. ASSUME NEW out \in {"answer", "raises"}, Settles(r, NextApproval(r), out) PROVE EnInv'
  <2>1. out \in Outcome
    BY DEF Outcome
  <2>2. EnTypes' /\ Stages(r)' /\ OwnStep(r)
    BY <1>1, <1>2, <1>5, <2>1, CallSettles
  <2>3. CopyIsPaired(r)'
    BY <1>1, <2>2, PairedStays
  <2> QED BY <1>4, <2>2, <2>3, OwnStepKeeps DEF EnInv
<1>6. CASE Leaves(r, "saving", TRUE)
  <2>1. erun[r] \in RunState /\ erun \in [EngineRuns -> RunState] /\ Len(erun[r].calls) <= TurnCalls
        /\ copy \in [EngineRuns -> Seq(Message)] /\ awaiting' \subseteq EngineRuns \X Nat
    BY <1>1 DEF EnInv, EnTypes
  <2>2. PICK st \in RunState : /\ erun' = [erun EXCEPT ![r] = st] /\ Len(st.calls) <= TurnCalls
                               /\ st.base = erun[r].base /\ st.pc = "saving" /\ st.cut = TRUE
    BY <1>6, EngineLeaves
  <2>3. EnTypes' /\ erun'[r] = st /\ \A q \in EngineRuns \ {r} : erun'[q] = erun[q]
    BY <1>1, <2>1, <2>2, EngineMoves
  <2>4. OwnStep(r) /\ Stages(r)'
    BY <1>1, <2>2, <2>3 DEF EnInv, OwnStep, Stages
  <2>5. CopyIsPaired(r)'
    BY <1>1, <2>4, PairedStays
  <2> QED BY <1>4, <2>3, <2>4, <2>5, OwnStepKeeps DEF EnInv
<1> QED BY <1>5, <1>6 DEF ApprovalDecided

LEMMA EngineRecords ==
    ASSUME EnInv, NEW r \in EngineRuns, RecordCalls(r)
    PROVE  EnInv'
<1> DEFINE m == Msg(r, "calls", Len(erun[r].calls))
           st == [erun[r] EXCEPT !.pc = "results"]
           n == Len(copy[r])
<1>1. /\ erun[r].pc = "tools" /\ erun[r] \in RunState /\ erun \in [EngineRuns -> RunState] /\ Len(erun[r].calls) <= TurnCalls
      /\ awaiting' \subseteq EngineRuns \X Nat /\ sessRow' = sessRow /\ awaiting' = awaiting
      /\ erun[r].given = 0 /\ erun[r].given < Len(erun[r].calls) /\ ~erun[r].cut
      /\ Len(erun[r].calls) \in Nat
  BY LenProperties DEF EnInv, EnTypes, RecordCalls, CallsSettled, Stages, RunState
<1>2. m \in Message /\ m.run = r /\ m.kind = "calls" /\ m.n = Len(erun[r].calls)
  BY <1>1 DEF Msg, Message
<1>3. /\ copy' \in [EngineRuns -> Seq(Message)] /\ copy'[r] = Append(copy[r], m)
      /\ \A q \in EngineRuns \ {r} : copy'[q] = copy[q]
  BY <1>2, EngineAdds DEF RecordCalls
<1>4. /\ st \in RunState /\ st.pc = "results" /\ st.base = erun[r].base /\ st.cut = erun[r].cut
      /\ st.calls = erun[r].calls /\ st.given = 0 /\ erun' = [erun EXCEPT ![r] = st]
  BY <1>1 DEF RunState, RecordCalls
<1> HIDE DEF st, m
<1>5. EnTypes' /\ erun'[r] = st /\ \A q \in EngineRuns \ {r} : erun'[q] = erun[q]
  BY <1>1, <1>3, <1>4, EngineMoves
<1>6. OwnStep(r) /\ Stages(r)'
  BY <1>1, <1>2, <1>3, <1>4, <1>5 DEF OwnStep, Stages
<1>7. copy[r] \in Seq(Message)
  BY DEF EnInv, EnTypes
<1>8. /\ Len(copy'[r]) = n + 1 /\ n \in Nat /\ copy'[r][n + 1] = m
      /\ \A i \in 1..n : copy'[r][i] = copy[r][i]
      /\ \A i \in 1..Len(copy'[r]) : i \in 1..n \/ i = n + 1
  BY <1>2, <1>3, <1>7, Appending
<1>9. CopyIsPaired(r)'
  <2> SUFFICES ASSUME NEW i \in 1..Len(copy'[r]), copy'[r][i].kind = "calls"
               PROVE  CutAt(copy[r], i)' \/ PairedAt(copy'[r], i) \/ BeingGiven(r, i)'
    BY DEF CopyIsPaired
  <2>1. CASE i = n + 1
    BY <1>2, <1>4, <1>5, <1>8, <2>1 DEF BeingGiven
  <2>2. CASE i \in 1..n
    <3>1. CutAt(copy[r], i) \/ PairedAt(copy[r], i)
      BY <1>1, <1>8, <2>2 DEF EnInv, CopyIsPaired, BeingGiven
    <3>2. PairedAt(copy[r], i) => PairedAt(copy'[r], i)
      BY <1>2, <1>3, <1>7, <2>2, PairedKept
    <3>3. CutAt(copy[r], i) => CutAt(copy[r], i)'
      BY <1>6, <2>2, OwnStepKeeps
    <3> QED BY <1>8, <2>2, <3>1, <3>2, <3>3
  <2> QED BY <1>8, <2>1, <2>2
<1>10. WaitsAreNext'
  <2>1. \A w \in awaiting' : w[1] # r /\ w[1] \in EngineRuns
    <3> TAKE w \in awaiting'
    <3>1. w[2] \in Open(w[1], "approve") /\ w[1] \in EngineRuns
      BY <1>1 DEF EnInv, EnTypes, WaitsAreNext
    <3>2. Open(r, "approve") = {}
      BY DEF RecordCalls, CallsSettled, Open
    <3> QED BY <3>1, <3>2
  <2>2. \A w \in awaiting' : erun'[w[1]] = erun[w[1]]
    BY <1>5, <2>1
  <2> QED BY <1>1, <2>2, WaitsStay DEF Open
<1> QED BY <1>5, <1>6, <1>9, <1>10, OwnStepKeeps DEF EnInv

LEMMA EngineGives ==
    ASSUME EnInv, NEW r \in EngineRuns, GiveResult(r)
    PROVE  EnInv'
<1> DEFINE g == erun[r].given
           c == Len(erun[r].calls)
           n == Len(copy[r])
           last == g + 1 = c
           m == Msg(r, "result", g + 1)
<1>1. /\ erun[r].pc = "results" /\ erun[r] \in RunState /\ erun \in [EngineRuns -> RunState] /\ Len(erun[r].calls) <= TurnCalls
      /\ awaiting' \subseteq EngineRuns \X Nat /\ sessRow' = sessRow /\ awaiting' = awaiting
      /\ g \in Nat /\ c \in Nat /\ g < c /\ ~erun[r].cut
  BY LenProperties DEF EnInv, EnTypes, GiveResult, Stages, RunState
<1>2. m \in Message /\ m.run = r /\ m.kind = "result"
  BY <1>1 DEF Msg, Message
<1>3. CASE erun[r].calls[g + 1].out = "raises"
  <2>1. Leaves(r, "saving", TRUE) /\ copy' = copy
    BY <1>3 DEF GiveResult
  <2> HIDE DEF g, c, n
  <2>2. PICK st \in RunState : /\ erun' = [erun EXCEPT ![r] = st] /\ Len(st.calls) <= TurnCalls
                               /\ st.base = erun[r].base /\ st.pc = "saving" /\ st.cut = TRUE
    BY <2>1, EngineLeaves
  <2>3. copy' \in [EngineRuns -> Seq(Message)] /\ \A q \in EngineRuns \ {r} : copy'[q] = copy[q]
    BY <2>1 DEF EnInv, EnTypes
  <2>4. EnTypes' /\ erun'[r] = st /\ \A q \in EngineRuns \ {r} : erun'[q] = erun[q]
    BY <1>1, <2>2, <2>3, EngineMoves
  <2>5. OwnStep(r)
    BY <1>1, <2>1, <2>2, <2>3, <2>4 DEF OwnStep
  <2>6. Stages(r)'
    BY <2>2, <2>4 DEF Stages
  <2>7. CopyIsPaired(r)'
    <3> SUFFICES ASSUME NEW i \in 1..Len(copy'[r]), copy'[r][i].kind = "calls"
                 PROVE  CutAt(copy[r], i)' \/ PairedAt(copy'[r], i)
      BY DEF CopyIsPaired
    <3>1. CutAt(copy[r], i) \/ PairedAt(copy[r], i) \/ BeingGiven(r, i)
      BY <2>1 DEF EnInv, CopyIsPaired
    <3>2. CutAt(copy[r], i) => CutAt(copy[r], i)'
      BY <2>1, <2>5, OwnStepKeeps
    <3>3. BeingGiven(r, i) => CutAt(copy[r], i)'
      <4> SUFFICES ASSUME BeingGiven(r, i) PROVE CutAt(copy[r], i)'
        OBVIOUS
      <4>1. copy'[r] = copy[r] /\ erun'[r].cut
        BY <2>1, <2>2, <2>4
      <4> QED BY <4>1 DEF BeingGiven, CutAt
    <3>4. PairedAt(copy[r], i) => PairedAt(copy'[r], i)
      BY <2>1
    <3> QED BY <3>1, <3>2, <3>3, <3>4
  <2>8. WaitsAreNext'
    <3>1. \A w \in awaiting' : w[1] # r /\ w[1] \in EngineRuns
      BY <1>1 DEF EnInv, EnTypes, WaitsAreNext
    <3>2. \A w \in awaiting' : erun'[w[1]] = erun[w[1]]
      BY <2>4, <3>1
    <3> QED BY <1>1, <3>2, WaitsStay DEF Open
  <2> QED BY <2>4, <2>5, <2>6, <2>7, <2>8, OwnStepKeeps DEF EnInv
<1>4. ASSUME erun[r].calls[g + 1].out # "raises" PROVE EnInv'
  <2>3. /\ copy' \in [EngineRuns -> Seq(Message)] /\ copy'[r] = Append(copy[r], m)
        /\ \A q \in EngineRuns \ {r} : copy'[q] = copy[q]
    BY <1>2, <1>4, EngineAdds DEF GiveResult
  <2>4. \E st \in RunState :
          /\ erun' = [erun EXCEPT ![r] = st] /\ st.base = erun[r].base /\ Len(st.calls) <= TurnCalls
          /\ \/ st.pc = "model" /\ last /\ ~st.cut
             \/ st.pc = "results" /\ ~last /\ ~st.cut /\ st.calls = erun[r].calls /\ st.given = g + 1
             \/ st.pc = "saving" /\ (st.cut <=> ~last)
    <3> HIDE DEF g, c, n, last
    <3>1. CASE ~last /\ erun' = [erun EXCEPT ![r].given = g + 1]
      <4> DEFINE k == g + 1
                 st == [erun[r] EXCEPT !.given = k]
      <4>1. k \in Nat
        BY <1>1
      <4> HIDE DEF k
      <4>2. st \in RunState /\ st.calls = erun[r].calls /\ st.base = erun[r].base /\ st.given = k
            /\ st.pc = "results" /\ st.cut = erun[r].cut
        BY <1>1, <4>1 DEF RunState
      <4>3. erun' = [erun EXCEPT ![r] = st]
        BY <1>1, <3>1 DEF k
      <4> HIDE DEF st
      <4> QED BY <1>1, <3>1, <4>2, <4>3 DEF k
    <3>2. CASE last /\ Leaves(r, "model", FALSE)
      <4>1. PICK st \in RunState : /\ erun' = [erun EXCEPT ![r] = st] /\ Len(st.calls) <= TurnCalls
                                   /\ st.base = erun[r].base /\ st.pc = "model" /\ st.cut = FALSE
        BY <3>2, EngineLeaves
      <4> QED BY <3>2, <4>1
    <3>3. CASE Leaves(r, "saving", ~last)
      <4> DEFINE d == ~last
      <4>1. d \in BOOLEAN /\ Leaves(r, "saving", d)
        BY <3>3
      <4> HIDE DEF d
      <4>2. PICK st \in RunState : /\ erun' = [erun EXCEPT ![r] = st] /\ Len(st.calls) <= TurnCalls
                                   /\ st.base = erun[r].base /\ st.pc = "saving" /\ st.cut = d
        BY <4>1, EngineLeaves
      <4> QED BY <4>2 DEF d
    <3> QED BY <1>4, <3>1, <3>2, <3>3 DEF GiveResult, g, c, last
  <2>12. PICK st \in RunState :
          /\ erun' = [erun EXCEPT ![r] = st] /\ st.base = erun[r].base /\ Len(st.calls) <= TurnCalls
          /\ \/ st.pc = "model" /\ last /\ ~st.cut
             \/ st.pc = "results" /\ ~last /\ ~st.cut /\ st.calls = erun[r].calls /\ st.given = g + 1
             \/ st.pc = "saving" /\ (st.cut <=> ~last)
    BY <2>4
  <2> HIDE DEF m, last
  <2>5. EnTypes' /\ erun'[r] = st /\ \A q \in EngineRuns \ {r} : erun'[q] = erun[q]
    BY <1>1, <2>3, <2>12, EngineMoves
  <2>6. OwnStep(r)
    BY <1>1, <1>2, <2>3, <2>12, <2>5 DEF OwnStep
  <2>7. Stages(r)'
    <3>1. st.pc = "results" => g + 1 < c
      BY <1>1, <2>12 DEF last
    <3> QED BY <2>12, <2>5, <3>1 DEF Stages
  <2>8. copy[r] \in Seq(Message)
    BY DEF EnInv, EnTypes
  <2>9. /\ Len(copy'[r]) = n + 1 /\ n \in Nat /\ copy'[r][n + 1] = m
        /\ \A i \in 1..n : copy'[r][i] = copy[r][i]
        /\ \A i \in 1..Len(copy'[r]) : i \in 1..n \/ i = n + 1
    BY <1>2, <2>3, <2>8, Appending
  <2>10. CopyIsPaired(r)'
    <3> SUFFICES ASSUME NEW i \in 1..Len(copy'[r]), copy'[r][i].kind = "calls"
                 PROVE  CutAt(copy[r], i)' \/ PairedAt(copy'[r], i) \/ BeingGiven(r, i)'
      BY DEF CopyIsPaired
    <3>1. i \in 1..n /\ copy'[r][i] = copy[r][i]
      BY <1>2, <2>9
    <3>2. CutAt(copy[r], i) \/ PairedAt(copy[r], i) \/ BeingGiven(r, i)
      BY <3>1 DEF EnInv, CopyIsPaired
    <3>3. CASE PairedAt(copy[r], i)
      <4>1. PairedAt(copy'[r], i)
        BY <1>2, <2>3, <2>8, <3>1, <3>3, PairedKept
      <4> QED BY <4>1
    <3>4. CASE CutAt(copy[r], i)
      <4>1. CutAt(copy[r], i)'
        BY <2>6, <3>1, <3>4, OwnStepKeeps
      <4> QED BY <3>1, <4>1
    <3>5. CASE BeingGiven(r, i)
      <4>1. /\ i = n - g /\ copy[r][i].run = r /\ copy[r][i].n = c
            /\ \A j \in (i + 1)..n : copy[r][j].kind = "result" /\ copy[r][j].run = r
        BY <3>5 DEF BeingGiven
      <4>2. \A j \in (i + 1)..(n + 1) : copy'[r][j].kind = "result" /\ copy'[r][j].run = r
        <5> TAKE j \in (i + 1)..(n + 1)
        <5>1. j \in 1..n \/ j = n + 1
          BY <2>9, <3>1
        <5>2. CASE j = n + 1
          BY <1>2, <2>9, <5>2
        <5>3. CASE j \in 1..n
          <6>1. j \in (i + 1)..n
            BY <2>9, <3>1, <5>3
          <6>2. copy'[r][j] = copy[r][j]
            BY <2>9, <5>3
          <6> QED BY <4>1, <6>1, <6>2
        <5> QED BY <5>1, <5>2, <5>3
      <4>3. CASE last
        <5>1. i + copy'[r][i].n = n + 1
          BY <1>1, <2>9, <3>1, <4>1, <4>3 DEF last
        <5>2. i + copy'[r][i].n <= Len(copy'[r])
          BY <2>9, <5>1
        <5>3. copy'[r][i].run = r
          BY <3>1, <4>1
        <5> HIDE DEF g, c, n
        <5> QED BY <4>2, <5>1, <5>2, <5>3 DEF PairedAt
      <4>4. CASE ~last /\ st.pc = "results"
        <5>1. erun'[r].pc = "results" /\ erun'[r].given = g + 1 /\ Len(erun'[r].calls) = c
          BY <2>12, <2>5, <4>4
        <5>2. i = Len(copy'[r]) - erun'[r].given
          BY <1>1, <2>9, <4>1, <5>1
        <5>3. copy'[r][i].run = r /\ copy'[r][i].n = c
          BY <3>1, <4>1
        <5>4. \A j \in (i + 1)..Len(copy'[r]) : copy'[r][j].kind = "result" /\ copy'[r][j].run = r
          BY <2>9, <4>2
        <5> HIDE DEF g, c, n
        <5> QED BY <5>1, <5>2, <5>3, <5>4 DEF BeingGiven
      <4>5. CASE ~last /\ st.pc # "results"
        <5>1. st.cut
          BY <2>12, <4>5
        <5>2. \A j \in (i + 1)..Len(copy'[r]) : copy'[r][j].kind # "calls"
          BY <2>9, <4>2
        <5>3. erun'[copy'[r][i].run].cut
          BY <2>5, <3>1, <4>1, <5>1
        <5> QED BY <5>2, <5>3 DEF CutAt
      <4> QED BY <4>3, <4>4, <4>5
    <3> QED BY <3>2, <3>3, <3>4, <3>5
  <2>11. WaitsAreNext'
    <3>1. \A w \in awaiting' : w[1] # r /\ w[1] \in EngineRuns
      BY <1>1 DEF EnInv, EnTypes, WaitsAreNext
    <3>2. \A w \in awaiting' : erun'[w[1]] = erun[w[1]]
      BY <2>5, <3>1
    <3> QED BY <1>1, <3>2, WaitsStay DEF Open
  <2> QED BY <2>5, <2>6, <2>7, <2>10, <2>11, OwnStepKeeps DEF EnInv
<1> QED BY <1>3, <1>4

LEMMA EngineSaves ==
    ASSUME EnInv, NEW r \in EngineRuns, SaveSession(r)
    PROVE  EnInv'
<1> DEFINE st == [erun[r] EXCEPT !.pc = "over"]
<1>1. /\ erun[r].pc = "saving" /\ erun[r] \in RunState /\ erun \in [EngineRuns -> RunState] /\ Len(erun[r].calls) <= TurnCalls
      /\ copy' = copy /\ awaiting' = awaiting /\ sessRow' \in {copy[r], sessRow}
      /\ copy \in [EngineRuns -> Seq(Message)] /\ copy[r] \in Seq(Message) /\ sessRow \in Seq(Message)
      /\ awaiting \subseteq EngineRuns \X Nat
  BY DEF EnInv, EnTypes, SaveSession, Written
<1>2. /\ st \in RunState /\ st.pc = "over" /\ st.base = erun[r].base /\ st.cut = erun[r].cut
      /\ st.calls = erun[r].calls /\ erun' = [erun EXCEPT ![r] = st]
  BY <1>1 DEF RunState, SaveSession
<1> HIDE DEF st
<1>3. erun'[r] = st /\ (\A q \in EngineRuns \ {r} : erun'[q] = erun[q]) /\ erun' \in [EngineRuns -> RunState]
  BY <1>1, <1>2
<1>4. EnTypes'
  BY <1>1, <1>2, <1>3 DEF EnInv, EnTypes
<1>5. \A q \in EngineRuns : /\ erun'[q].base = erun[q].base /\ erun'[q].cut = erun[q].cut /\ erun'[q].calls = erun[q].calls
                            /\ (erun[q].pc = "over" => erun'[q].pc = "over") /\ (erun'[q].pc = "new" => erun[q].pc = "new")
                            /\ (erun'[q].pc = "results" => erun[q] = erun'[q]) /\ (erun'[q].pc = "tools" => erun[q] = erun'[q])
                            /\ (erun[q].pc = "results" => erun[q] = erun'[q])
                            /\ (erun[q].cut => erun'[q].pc \in {"saving", "over"})
  <2> TAKE q \in EngineRuns
  <2>1. CASE q = r
    BY <1>1, <1>2, <1>3, <2>1
  <2>2. CASE q # r
    BY <1>3, <2>2 DEF EnInv, Stages
  <2> QED BY <2>1, <2>2
<1>6. \A q \in EngineRuns : \A i \in 1..Len(copy[q]) : copy[q][i].run \in EngineRuns
  BY <1>1, MessagesIn
<1>7. \A i \in 1..Len(sessRow) : sessRow[i].run \in EngineRuns
  BY <1>1, MessagesIn
<1>8. \A q \in EngineRuns : Stages(q)'
  BY <1>1, <1>5 DEF EnInv, Stages
<1>9. ASSUME NEW q \in EngineRuns PROVE CopyIsView(q)'
  <2>1. erun[q].pc # "new" => \A i \in 1..Len(erun[q].base) : i \in 1..Len(copy[q])
    <3>1. Len(copy[q]) \in Nat /\ Len(erun[q].base) \in Nat
      BY <1>1, LenProperties DEF RunState
    <3> QED BY <3>1 DEF EnInv, CopyIsView
  <2> SUFFICES ASSUME erun'[q].pc # "new"
               PROVE  /\ Len(erun[q].base) <= Len(copy[q])
                      /\ \A i \in 1..Len(erun[q].base) : copy[q][i] = erun[q].base[i] /\ erun'[copy[q][i].run].pc = "over"
                      /\ \A i \in (Len(erun[q].base) + 1)..Len(copy[q]) : copy[q][i].run = q
    <3>1. erun'[q].base = erun[q].base /\ copy'[q] = copy[q]
      BY <1>1, <1>5
    <3> QED BY <1>1, <3>1 DEF CopyIsView
  <2>2. erun[q].pc # "new"
    <3>1. CASE q = r
      BY <1>1, <3>1
    <3>2. CASE q # r
      BY <1>3, <3>2
    <3> QED BY <3>1, <3>2
  <2>3. /\ Len(erun[q].base) <= Len(copy[q])
        /\ \A i \in 1..Len(erun[q].base) : copy[q][i] = erun[q].base[i] /\ erun[copy[q][i].run].pc = "over"
        /\ \A i \in (Len(erun[q].base) + 1)..Len(copy[q]) : copy[q][i].run = q
    BY <2>2 DEF EnInv, CopyIsView
  <2>4. \A i \in 1..Len(erun[q].base) : erun'[copy[q][i].run].pc = "over"
    BY <1>5, <1>6, <2>1, <2>2, <2>3
  <2> QED BY <2>3, <2>4
<1>10. ASSUME NEW q \in EngineRuns PROVE CopyIsPaired(q)'
  <2> SUFFICES ASSUME NEW i \in 1..Len(copy[q]), copy[q][i].kind = "calls"
               PROVE  CutAt(copy[q], i)' \/ PairedAt(copy[q], i) \/ BeingGiven(q, i)'
    BY <1>1 DEF CopyIsPaired, PairedAt
  <2>1. CutAt(copy[q], i) \/ PairedAt(copy[q], i) \/ BeingGiven(q, i)
    BY DEF EnInv, CopyIsPaired
  <2>2. CutAt(copy[q], i) => CutAt(copy[q], i)'
    BY <1>1, <1>5, <1>6 DEF CutAt
  <2>3. BeingGiven(q, i) => BeingGiven(q, i)'
    <3>1. SUFFICES ASSUME BeingGiven(q, i) PROVE BeingGiven(q, i)'
      OBVIOUS
    <3>2. erun'[q] = erun[q] /\ copy'[q] = copy[q]
      BY <1>1, <1>5, <3>1 DEF BeingGiven
    <3> QED BY <3>1, <3>2 DEF BeingGiven
  <2> QED BY <2>1, <2>2, <2>3
<1>11. WaitsAreNext'
  <2>1. \A w \in awaiting' : w[1] # r /\ w[1] \in EngineRuns
    BY <1>1 DEF EnInv, EnTypes, WaitsAreNext
  <2>2. \A w \in awaiting' : erun'[w[1]] = erun[w[1]]
    BY <1>3, <2>1
  <2> QED BY <1>1, <2>2, WaitsStay DEF Open
<1>12. RowPaired' /\ RowIsCopy' /\ RowIsOver'
  <2>1. CASE sessRow' = sessRow
    <3>1. RowIsCopy'
      BY <1>1, <1>5, <2>1 DEF EnInv, RowIsCopy
    <3>2. RowIsOver'
      BY <1>5, <1>7, <2>1 DEF EnInv, RowIsOver
    <3>3. RowPaired'
      BY <1>5, <1>7, <2>1 DEF EnInv, RowPaired, PairedAt, CutAt
    <3> QED BY <3>1, <3>2, <3>3
  <2>2. CASE sessRow' = copy[r]
    <3>1. RowIsCopy'
      BY <1>1, <1>2, <1>3, <2>2 DEF RowIsCopy
    <3>2. RowIsOver'
      <4> DEFINE b == Len(erun[r].base)
      <4>1. b \in Nat /\ Len(copy[r]) \in Nat
        BY <1>1, LenProperties DEF RunState
      <4> SUFFICES ASSUME NEW i \in 1..Len(copy[r]) PROVE erun'[copy[r][i].run].pc = "over"
        BY <2>2 DEF RowIsOver
      <4>2. i \in 1..b \/ i \in (b + 1)..Len(copy[r])
        BY <4>1
      <4>3. CASE i \in 1..b
        <5>1. erun[copy[r][i].run].pc = "over"
          BY <1>1, <4>3 DEF EnInv, CopyIsView
        <5> QED BY <1>5, <1>6, <5>1
      <4>4. CASE i \in (b + 1)..Len(copy[r])
        <5>1. copy[r][i].run = r
          BY <1>1, <4>4 DEF EnInv, CopyIsView
        <5> QED BY <1>2, <1>3, <5>1
      <4> QED BY <4>2, <4>3, <4>4
    <3>3. RowPaired'
      <4> SUFFICES ASSUME NEW i \in 1..Len(copy[r]), copy[r][i].kind = "calls"
                   PROVE  CutAt(sessRow, i)' \/ PairedAt(copy[r], i)
        BY <2>2 DEF RowPaired, PairedAt
      <4>1. CutAt(copy[r], i) \/ PairedAt(copy[r], i)
        BY <1>1 DEF EnInv, CopyIsPaired, BeingGiven
      <4>2. CutAt(copy[r], i) => CutAt(sessRow, i)'
        BY <1>5, <1>6, <2>2 DEF CutAt
      <4> QED BY <4>1, <4>2
    <3> QED BY <3>1, <3>2, <3>3
  <2> QED BY <1>1, <2>1, <2>2
<1> QED BY <1>4, <1>8, <1>9, <1>10, <1>11, <1>12 DEF EnInv

LEMMA EngineStep ==
    ASSUME EnInv, EnNext
    PROVE  EnInv'
<1>1. PICK r \in EngineRuns :
    \/ EngineStart(r) \/ ModelAnswers(r) \/ AskApproval(r) \/ ApprovalDecided(r)
    \/ RecordCalls(r) \/ GiveResult(r) \/ SaveSession(r) \/ \E i \in 1..TurnCalls : RunAuto(r, i)
  BY DEF EnNext
<1> QED BY <1>1, EngineStarts, EngineAnswers, EngineAsks, EngineDecided, EngineRecords, EngineGives, EngineSaves, EngineRuns0

LEMMA EngineHolds == EnInv => EnTypeOK /\ RowIsPaired /\ RowIsOneView /\ DecisionsAreAwaited
<1> SUFFICES ASSUME EnInv PROVE EnTypeOK /\ RowIsPaired /\ RowIsOneView /\ DecisionsAreAwaited
  OBVIOUS
<1>1. EnTypeOK
  <2>1. \A r \in EngineRuns : erun[r] \in RunState /\ Len(erun[r].calls) <= TurnCalls
                              /\ \A i \in 1..Len(erun[r].calls) : erun[r].calls[i] \in CallState
    BY ElementOfSeq DEF EnInv, EnTypes, RunState
  <2>2. ASSUME NEW w \in awaiting PROVE w[1] \in EngineRuns /\ w[2] \in 1..TurnCalls
    <3>1. w[1] \in EngineRuns /\ w[2] \in 1..Len(erun[w[1]].calls)
      BY DEF EnInv, EnTypes, WaitsAreNext, Open
    <3>2. Len(erun[w[1]].calls) \in Nat /\ Len(erun[w[1]].calls) <= TurnCalls
      BY <2>1, <3>1, LenProperties DEF RunState
    <3> QED BY <3>1, <3>2, EngineAssumption
  <2> QED BY <2>1, <2>2 DEF EnTypeOK, RunState, CallState
<1>2. RowIsPaired
  <2> SUFFICES ASSUME NEW i \in 1..Len(sessRow), sessRow[i].kind = "calls", ~CutAt(sessRow, i)
               PROVE  Cardinality(Results(sessRow, i)) = sessRow[i].n
    BY DEF RowIsPaired, CutAt
  <2> DEFINE n == sessRow[i].n
  <2>1. PairedAt(sessRow, i)
    BY DEF EnInv, RowPaired
  <2>2. n \in Nat /\ Len(sessRow) \in Nat /\ i \in Nat
    BY MessagesIn, LenProperties DEF EnInv, EnTypes
  <2>3. Results(sessRow, i) = (i + 1)..(i + n)
    <3>1. \A j \in (i + 1)..(i + n) : j \in (i + 1)..Len(sessRow) /\ j <= i + n
      BY <2>1, <2>2 DEF PairedAt
    <3>2. \A j \in Results(sessRow, i) : j \in (i + 1)..(i + n)
      BY <2>2 DEF Results
    <3>3. \A j \in (i + 1)..(i + n) : j \in Results(sessRow, i)
      BY <2>1, <3>1 DEF Results, PairedAt
    <3> QED BY <3>2, <3>3
  <2>4. Cardinality((i + 1)..(i + n)) = n
    <3> DEFINE a == i + 1
               z == i + n
    <3>1. a \in Int /\ z \in Int /\ z - a + 1 = n /\ (a > z => n = 0)
      BY <2>2
    <3> HIDE DEF a, z
    <3>2. Cardinality(a..z) = IF a > z THEN 0 ELSE z - a + 1
      BY <3>1, FS_Interval
    <3>3. Cardinality(a..z) = n
      BY <3>1, <3>2
    <3> QED BY <3>3 DEF a, z
  <2> QED BY <2>3, <2>4
<1>3. RowIsOneView
  <2> SUFFICES ASSUME sessRow # <<>>
               PROVE  \E r \in EngineRuns :
                        /\ IsPrefix(erun[r].base, sessRow) /\ sessRow = copy[r]
                        /\ \A i \in (Len(erun[r].base) + 1)..Len(sessRow) : sessRow[i].run = r
    BY DEF RowIsOneView
  <2>1. PICK r \in EngineRuns : erun[r].pc = "over" /\ sessRow = copy[r]
    BY DEF EnInv, RowIsCopy
  <2> DEFINE base == erun[r].base
             b == Len(base)
  <2>2. /\ base \in Seq(Message) /\ b \in Nat /\ Len(sessRow) \in Nat /\ b <= Len(sessRow)
        /\ \A i \in 1..b : sessRow[i] = base[i]
        /\ \A i \in (b + 1)..Len(sessRow) : sessRow[i].run = r
        /\ sessRow \in Seq(Message)
    BY <2>1, LenProperties DEF EnInv, EnTypes, RunState, CopyIsView
  <2>3. \A i \in 1..b : base[i] \in Message /\ sessRow[i] \in Message
    BY <2>2, ElementOfSeq
  <2> HIDE DEF base
  <2>4. /\ SubSeq(base, 1, b) \in Seq(Message) /\ Len(SubSeq(base, 1, b)) = IF 1 <= b THEN b - 1 + 1 ELSE 0
        /\ \A i \in 1..(b - 1 + 1) : SubSeq(base, 1, b)[i] = base[1 + i - 1]
    BY <2>2, <2>3, SubSeqProperties
  <2>5. /\ SubSeq(sessRow, 1, b) \in Seq(Message) /\ Len(SubSeq(sessRow, 1, b)) = IF 1 <= b THEN b - 1 + 1 ELSE 0
        /\ \A i \in 1..(b - 1 + 1) : SubSeq(sessRow, 1, b)[i] = sessRow[1 + i - 1]
    BY <2>2, <2>3, SubSeqProperties
  <2>6. SubSeq(base, 1, b) = SubSeq(sessRow, 1, b)
    <3> DEFINE s == SubSeq(base, 1, b)
               t == SubSeq(sessRow, 1, b)
    <3>1. Len(s) = b /\ Len(t) = b /\ \A i \in 1..b : s[i] = t[i]
      BY <2>2, <2>4, <2>5
    <3>2. s \in [1..b -> Message] /\ t \in [1..b -> Message]
      BY <2>4, <2>5, <3>1, LenProperties
    <3> HIDE DEF s, t
    <3> QED BY <3>1, <3>2 DEF s, t
  <2>7. IsPrefix(base, sessRow)
    BY <2>2, <2>6 DEF IsPrefix
  <2> QED BY <2>1, <2>2, <2>7 DEF base
<1>4. DecisionsAreAwaited
  BY DEF EnInv, WaitsAreNext, DecisionsAreAwaited
<1> QED BY <1>1, <1>2, <1>3, <1>4

----------------------------------------------------------------------------
(* The loop.                                                               *)

\* A sequence of sequences, joined: g[i] is what the first i of them make.
Joins(g, f, n) == \A i \in 1..n : g[i] = IF i = 1 THEN f[i] ELSE g[i - 1] \o f[i]

LEMMA JoinExists ==
    ASSUME NEW S, NEW n \in Nat, NEW f \in [1..n -> Seq(S)]
    PROVE  \E g \in [1..n -> Seq(S)] : Joins(g, f, n)
<1> DEFINE T == {k \in 0..n : \A g \in [1..k -> Seq(S)] : ~Joins(g, f, k)}
<1>1. T = {}
  <2> SUFFICES ASSUME T # {} PROVE FALSE
    OBVIOUS
  <2>1. T \in SUBSET Nat
    OBVIOUS
  <2> HIDE DEF T
  <2>2. PICK x \in T : \A y \in T : x <= y
    BY <2>1, Least
  <2>3. x \in 0..n /\ \A g \in [1..x -> Seq(S)] : ~Joins(g, f, x)
    BY <2>2 DEF T
  <2>4. x # 0
    <3> SUFFICES ASSUME x = 0 PROVE FALSE
      OBVIOUS
    <3> DEFINE g == [i \in 1..0 |-> <<>>]
    <3>1. g \in [1..0 -> Seq(S)] /\ Joins(g, f, 0)
      BY DEF Joins
    <3> QED BY <2>3, <3>1
  <2>5. x - 1 \in 0..n /\ x - 1 \notin T
    BY <2>2, <2>3, <2>4
  <2>6. PICK g \in [1..(x - 1) -> Seq(S)] : Joins(g, f, x - 1)
    BY <2>5 DEF T
  <2> DEFINE new == IF x = 1 THEN f[x] ELSE g[x - 1] \o f[x]
             h == [i \in 1..x |-> IF i = x THEN new ELSE g[i]]
  <2>7. new \in Seq(S)
    <3>1. f[x] \in Seq(S)
      BY <2>3, <2>4
    <3>2. x # 1 => g[x - 1] \in Seq(S)
      BY <2>3, <2>4, <2>6
    <3> QED BY <3>1, <3>2, ConcatProperties
  <2>8. h \in [1..x -> Seq(S)]
    <3> HIDE DEF new
    <3>1. \A i \in 1..x : i = x \/ i \in 1..(x - 1)
      BY <2>3
    <3> QED BY <2>6, <2>7, <3>1
  <2>9. Joins(h, f, x)
    <3> SUFFICES ASSUME NEW i \in 1..x PROVE h[i] = IF i = 1 THEN f[i] ELSE h[i - 1] \o f[i]
      BY DEF Joins
    <3>1. CASE i = x
      <4>1. i # 1 => h[i - 1] = g[i - 1]
        BY <2>3, <3>1
      <4>2. h[i] = new
        BY <3>1
      <4> QED BY <3>1, <4>1, <4>2
    <3>2. CASE i # x
      <4>1. i \in 1..(x - 1) /\ h[i] = g[i] /\ (i # 1 => h[i - 1] = g[i - 1])
        BY <2>3, <3>2
      <4>2. g[i] = IF i = 1 THEN f[i] ELSE g[i - 1] \o f[i]
        BY <2>6, <4>1 DEF Joins
      <4> HIDE DEF h
      <4> QED BY <4>1, <4>2
    <3> QED BY <3>1, <3>2
  <2> QED BY <2>3, <2>8, <2>9
<1>2. n \in 0..n /\ n \notin T
  BY <1>1
<1> QED BY <1>2

\* What has the property of a step of the join from the first on has it throughout.
LEMMA JoinStays ==
    ASSUME NEW S, NEW n \in Nat, NEW f, NEW g, Joins(g, f, n), \A i \in 1..n : f[i] \in Seq(S)
    PROVE  \A i \in 1..n : g[i] \in Seq(S)
<1> DEFINE T == {i \in 1..n : g[i] \notin Seq(S)}
<1> SUFFICES ASSUME T # {} PROVE FALSE
  OBVIOUS
<1>1. T \in SUBSET Nat
  OBVIOUS
<1> HIDE DEF T
<1>2. PICK x \in T : \A y \in T : x <= y
  BY <1>1, Least
<1>3. x \in 1..n /\ g[x] \notin Seq(S)
  BY <1>2 DEF T
<1>4. g[x] = IF x = 1 THEN f[x] ELSE g[x - 1] \o f[x]
  BY <1>3 DEF Joins
<1>5. x # 1
  BY <1>3, <1>4
<1>6. x - 1 \in 1..n /\ x - 1 \notin T
  BY <1>2, <1>3, <1>5
<1>7. g[x - 1] \in Seq(S) /\ f[x] \in Seq(S)
  BY <1>3, <1>6 DEF T
<1>8. g[x - 1] \o f[x] \in Seq(S)
  BY <1>7, ConcatProperties
<1> QED BY <1>3, <1>4, <1>5, <1>8

LEMMA FlattenJoins ==
    ASSUME NEW S, NEW f \in Seq(Seq(S)), Len(f) > 0
    PROVE  \E g : Joins(g, f, Len(f)) /\ FlattenSeq(f) = g[Len(f)]
<1> DEFINE n == Len(f)
           step(g) == [i \in 1..n |-> IF i = 1 THEN f[i] ELSE g[i - 1] \o f[i]]
           flat == CHOOSE g : g = step(g)
<1>1. n \in Nat /\ n # 0 /\ f \in [1..n -> Seq(S)]
  BY LenProperties
<1>2. FlattenSeq(f) = flat[n]
  BY <1>1 DEF FlattenSeq
<1> HIDE DEF n
<1>3. PICK g \in [1..n -> Seq(S)] : Joins(g, f, n)
  BY <1>1, JoinExists
<1>4. g = step(g)
  BY <1>3 DEF Joins
<1> HIDE DEF step
<1>5. flat = step(flat)
  BY <1>4
<1> HIDE DEF flat
<1>6. Joins(flat, f, n)
  BY <1>5 DEF Joins, step
<1> QED BY <1>2, <1>6 DEF n

LEMMA ReadIs ==
    ASSUME NEW cs \in Seq(Chunk), cs # <<>>
    PROVE  /\ Read(cs) \in Seq(Chunk) /\ Len(Read(cs)) \in Nat \ {0}
           /\ Stopped(cs) <=> Stops(Read(cs)[Len(Read(cs))])
           /\ \A i \in 1..(Len(Read(cs)) - 1) : ~Stops(Read(cs)[i])
           /\ \A i \in 1..Len(Read(cs)) : Read(cs)[i] \in Chunk /\ Read(cs)[i] = cs[i]
<1> DEFINE n == Len(cs)
           stops == {i \in 1..n : Stops(cs[i])}
           p == CHOOSE i \in stops : \A j \in stops : i <= j
           k == IF stops = {} THEN n ELSE p
<1>1. n \in Nat /\ n # 0 /\ \A i \in 1..n : cs[i] \in Chunk
  BY LenProperties, ElementOfSeq, EmptySeq
<1>2. stops # {} => p \in stops /\ \A j \in stops : p <= j
  <2> SUFFICES ASSUME stops # {} PROVE p \in stops /\ \A j \in stops : p <= j
    OBVIOUS
  <2>1. stops \in SUBSET Nat
    OBVIOUS
  <2> HIDE DEF stops
  <2> QED BY <2>1, Least
<1>3. k \in 1..n /\ (\A i \in 1..(k - 1) : ~Stops(cs[i])) /\ (stops # {} => Stops(cs[k])) /\ (stops = {} => k = n)
  <2> HIDE DEF p
  <2>1. CASE stops = {}
    BY <1>1, <2>1
  <2>2. CASE stops # {}
    <3>1. p \in 1..n /\ Stops(cs[p])
      BY <1>2, <2>2
    <3>2. ASSUME NEW i \in 1..(p - 1) PROVE ~Stops(cs[i])
      <4>1. i \in 1..n /\ ~(p <= i)
        BY <1>1, <3>1
      <4> QED BY <1>2, <2>2, <4>1
    <3> QED BY <2>2, <3>1, <3>2
  <2> QED BY <2>1, <2>2
<1>4. /\ SubSeq(cs, 1, k) \in Seq(Chunk) /\ Len(SubSeq(cs, 1, k)) = k
      /\ \A i \in 1..k : SubSeq(cs, 1, k)[i] = cs[i]
  <2> HIDE DEF k
  <2>1. \A i \in 1..k : cs[i] \in Chunk
    BY <1>1, <1>3
  <2>2. /\ SubSeq(cs, 1, k) \in Seq(Chunk) /\ Len(SubSeq(cs, 1, k)) = IF 1 <= k THEN k - 1 + 1 ELSE 0
        /\ \A i \in 1..(k - 1 + 1) : SubSeq(cs, 1, k)[i] = cs[1 + i - 1]
    BY <1>1, <1>3, <2>1, SubSeqProperties
  <2> QED BY <1>1, <1>3, <2>2
<1>5. /\ Read(cs) \in Seq(Chunk) /\ Len(Read(cs)) = k /\ \A i \in 1..k : Read(cs)[i] = cs[i]
  <2>1. CASE stops = {}
    <3>1. Read(cs) = cs
      BY <2>1 DEF Read
    <3> QED BY <2>1, <3>1
  <2>2. CASE stops # {}
    <3>2. Read(cs) = SubSeq(cs, 1, p)
      BY <2>2 DEF Read
    <3> HIDE DEF p
    <3>1. Read(cs) = SubSeq(cs, 1, k)
      BY <2>2, <3>2
    <3> HIDE DEF k
    <3> QED BY <1>4, <3>1
  <2> QED BY <2>1, <2>2
<1> HIDE DEF k
<1>6. Stopped(cs) <=> Stops(Read(cs)[k])
  <2>1. Read(cs) # <<>>
    BY <1>1, <1>3, <1>5, EmptySeq
  <2> QED BY <1>5, <2>1 DEF Stopped, Last
<1> HIDE DEF n, stops
<1>7. k \in Nat \ {0} /\ \A i \in 1..(k - 1) : i \in 1..k
  BY <1>1, <1>3
<1>8. \A i \in 1..k : cs[i] \in Chunk
  BY <1>1, <1>3
<1> QED BY <1>3, <1>5, <1>6, <1>7, <1>8

Event == {"text", "tool_call", "done", "error", "usage"}
\* k texts, and then m times the event e, or none.
TextsThen(s, k, e, m) ==
    /\ s \in Seq(Event) /\ k \in Nat /\ m \in Nat /\ Len(s) = k + m /\ (e = "none" <=> m = 0)
    /\ \A i \in 1..k : s[i] = "text"
    /\ \A i \in (k + 1)..(k + m) : s[i] = e
\* How often the event that stops the loop at c is told.
Told(c) == IF c.calls > 0 THEN c.calls ELSE 1

LEMMA ChunkEvents ==
    ASSUME NEW c \in Chunk
    PROVE  /\ OfChunk(c) \in Seq(Event)
           /\ ~Stops(c) => OfChunk(c) \in Seq({"text"})
           /\ Stops(c) => \E k \in 0..1, e \in Ends : TextsThen(OfChunk(c), k, e, Told(c))
                              /\ (e = "done" => c.fin = "stop") /\ (c.calls > 0 => e = "tool_call")
<1> DEFINE t == IF c.text THEN <<"text">> ELSE <<>>
           k == IF c.text THEN 1 ELSE 0
           e == IF c.calls > 0 THEN "tool_call" ELSE IF c.fin = "stop" THEN "done" ELSE "error"
           x == IF c.calls > 0 THEN [i \in 1..c.calls |-> "tool_call"] ELSE FinEvent(c)
           m == Told(c)
<1>1. c.text \in BOOLEAN /\ c.calls \in Nat /\ c.fin \in {"none", "stop", "error"}
  BY EngineAssumption DEF Chunk
<1>2. OfChunk(c) = t \o x
  BY DEF OfChunk
<1>3. t \in Seq({"text"}) /\ t \in Seq(Event) /\ Len(t) = k /\ (\A i \in 1..k : t[i] = "text") /\ k \in 0..1
  <2>1. CASE c.text
    BY <2>1 DEF Event
  <2>2. CASE ~c.text
    BY <2>2 DEF Event
  <2> QED BY <2>1, <2>2
<1>4. /\ x \in Seq(Event) /\ (~Stops(c) => x = <<>>) /\ m \in Nat \ {0} /\ (c.calls > 0 => e = "tool_call")
      /\ Stops(c) => Len(x) = m /\ (\A i \in 1..m : x[i] = e) /\ e \in Ends /\ (e = "done" => c.fin = "stop")
  <2>0. c.calls > 0 => e = "tool_call"
    OBVIOUS
  <2>1. CASE c.calls > 0
    <3>1. x = [i \in 1..m |-> e] /\ e = "tool_call" /\ Stops(c) /\ m \in Nat \ {0}
      BY <1>1, <2>1 DEF Stops, Told
    <3>2. e \in Event /\ e \in Ends
      BY <3>1 DEF Event, Ends
    <3> HIDE DEF x, e, m
    <3>3. x \in [1..m -> Event] /\ \A i \in 1..m : x[i] = e
      BY <3>1, <3>2
    <3>4. x \in Seq(Event) /\ Len(x) = m
      BY <3>1, <3>3
    <3> QED BY <2>0, <3>1, <3>2, <3>3, <3>4
  <2>2. CASE ~(c.calls > 0) /\ c.fin = "stop"
    <3>1. x = <<e>> /\ e = "done" /\ Stops(c)
      BY <2>2, Zenon DEF FinEvent, Stops
    <3>2. m = 1
      BY <2>2 DEF Told
    <3> HIDE DEF x, e, m
    <3> QED BY <2>2, <3>1, <3>2 DEF Ends, Event
  <2>3. CASE ~(c.calls > 0) /\ c.fin = "error"
    <3>1. FinEvent(c) = <<"error">>
      BY <2>3 DEF FinEvent
    <3>2. x = <<e>> /\ e = "error" /\ Stops(c) /\ m = 1
      BY <2>3, <3>1 DEF Stops, Told
    <3> HIDE DEF x, e, m
    <3> QED BY <2>3, <3>2 DEF Ends, Event
  <2>4. CASE ~(c.calls > 0) /\ c.fin = "none"
    <3>1. FinEvent(c) = <<>>
      BY <2>4 DEF FinEvent
    <3>2. x = <<>> /\ ~Stops(c) /\ m = 1
      BY <2>4, <3>1 DEF Stops, Told
    <3> HIDE DEF x, e, m
    <3> QED BY <2>4, <3>2
  <2> HIDE DEF x, e, m
  <2> QED BY <1>1, <2>1, <2>2, <2>3, <2>4
<1> HIDE DEF t, x, k, e, m
<1>5. t \o x \in Seq(Event) /\ Len(t \o x) = Len(t) + Len(x) /\ Len(x) \in Nat
      /\ \A i \in 1..(Len(t) + Len(x)) : (t \o x)[i] = IF i <= Len(t) THEN t[i] ELSE x[i - Len(t)]
  BY <1>3, <1>4, ConcatProperties, LenProperties
<1>6. ~Stops(c) => t \o x = t
  BY <1>3, <1>4, ConcatEmptySeq
<1>7. Stops(c) => TextsThen(t \o x, k, e, m)
  <2> SUFFICES ASSUME Stops(c) PROVE TextsThen(t \o x, k, e, m)
    OBVIOUS
  <2>1. Len(x) = m /\ (\A i \in 1..m : x[i] = e) /\ e # "none" /\ m \in Nat \ {0} /\ k \in Nat
    BY <1>3, <1>4 DEF Ends
  <2>2. Len(t \o x) = k + m
    BY <1>3, <1>5, <2>1
  <2>3. \A i \in (k + 1)..(k + m) : (t \o x)[i] = e
    <3> TAKE i \in (k + 1)..(k + m)
    <3>1. i \in 1..(Len(t) + Len(x)) /\ ~(i <= Len(t)) /\ i - Len(t) \in 1..m
      BY <1>3, <2>1
    <3> QED BY <1>5, <2>1, <3>1
  <2>4. \A i \in 1..k : (t \o x)[i] = "text"
    <3> TAKE i \in 1..k
    <3>1. i \in 1..(Len(t) + Len(x)) /\ i <= Len(t)
      BY <1>3, <2>1
    <3> QED BY <1>3, <1>5, <3>1
  <2> QED BY <1>5, <2>1, <2>2, <2>3, <2>4 DEF TextsThen
<1>8. Stops(c) => e \in Ends /\ (e = "done" => c.fin = "stop") /\ (c.calls > 0 => e = "tool_call") /\ k \in 0..1
  BY <1>3, <1>4
<1> QED BY <1>2, <1>3, <1>5, <1>6, <1>7, <1>8 DEF m

\* Texts, and then what another such sequence has.
LEMMA TextsJoin ==
    ASSUME NEW s \in Seq({"text"}), NEW r, NEW k, NEW e, NEW m, TextsThen(r, k, e, m)
    PROVE  TextsThen(s \o r, Len(s) + k, e, m)
<1>1. s \in Seq(Event) /\ Len(s) \in Nat /\ \A i \in 1..Len(s) : s[i] = "text"
  <2>1. s \in [1..Len(s) -> {"text"}] /\ Len(s) \in Nat
    BY LenProperties
  <2> QED BY <2>1 DEF Event
<1>2. r \in Seq(Event) /\ Len(r) = k + m /\ k \in Nat /\ m \in Nat /\ (e = "none" <=> m = 0)
  BY DEF TextsThen
<1>3. s \o r \in Seq(Event) /\ Len(s \o r) = Len(s) + Len(r)
      /\ \A i \in 1..(Len(s) + Len(r)) : (s \o r)[i] = IF i <= Len(s) THEN s[i] ELSE r[i - Len(s)]
  BY <1>1, <1>2, ConcatProperties
<1>4. ASSUME NEW i \in 1..(Len(s) + k) PROVE (s \o r)[i] = "text"
  <2>1. i \in 1..(Len(s) + Len(r))
    BY <1>1, <1>2
  <2>2. CASE i <= Len(s)
    BY <1>1, <1>3, <2>1, <2>2
  <2>3. CASE ~(i <= Len(s))
    <3>1. i - Len(s) \in 1..k
      BY <1>1, <1>2, <2>3
    <3> QED BY <1>3, <2>1, <2>3, <3>1 DEF TextsThen
  <2> QED BY <2>2, <2>3
<1>5. ASSUME NEW i \in (Len(s) + k + 1)..(Len(s) + k + m) PROVE (s \o r)[i] = e
  <2>1. i \in 1..(Len(s) + Len(r)) /\ ~(i <= Len(s)) /\ i - Len(s) \in (k + 1)..(k + m)
    BY <1>1, <1>2
  <2> QED BY <1>3, <2>1 DEF TextsThen
<1>6. Len(s \o r) = (Len(s) + k) + m /\ Len(s) + k \in Nat
  BY <1>1, <1>2, <1>3
<1> QED BY <1>2, <1>3, <1>4, <1>5, <1>6 DEF TextsThen

\* What is added where nothing ended yet.
LEMMA EndAdded ==
    ASSUME NEW s, NEW k, NEW m, TextsThen(s, k, "none", m), NEW e \in Ends
    PROVE  TextsThen(s \o <<e>>, k, e, 1)
<1>1. s \in Seq(Event) /\ Len(s) = k /\ k \in Nat
  BY DEF TextsThen
<1>2. e \in Event /\ e # "none" /\ s \o <<e>> = Append(s, e)
  BY <1>1, AppendIsConcat DEF Ends, Event
<1>3. /\ Append(s, e) \in Seq(Event) /\ Len(Append(s, e)) = k + 1 /\ Append(s, e)[k + 1] = e
      /\ \A i \in 1..k : Append(s, e)[i] = s[i]
  BY <1>1, <1>2, Appending
<1>4. \A i \in 1..k : s[i] = "text"
  BY DEF TextsThen
<1>5. \A i \in (k + 1)..(k + 1) : i = k + 1
  BY <1>1
<1> QED BY <1>1, <1>2, <1>3, <1>4, <1>5 DEF TextsThen

\* What m times the event e says of how the chunks end.
Ended(cs, e, m) == LET c == Read(cs)[Len(Read(cs))] IN
    /\ Stopped(cs) <=> e # "none"
    /\ e = "done" => c.fin = "stop"
    /\ Stopped(cs) => m = Told(c) /\ (c.calls > 0 => e = "tool_call")
\* The events of the chunks that were read: their texts and the event of the last one
\* if it stops.
LEMMA FlatEvents ==
    ASSUME NEW cs \in Seq(Chunk), cs # <<>>
    PROVE  \E k \in Nat : \E e \in Ends \union {"none"} : \E m \in Nat :
             /\ TextsThen(FlattenSeq([i \in 1..Len(Read(cs)) |-> OfChunk(Read(cs)[i])]), k, e, m)
             /\ Ended(cs, e, m)
<1> DEFINE rd == Read(cs)
           n == Len(rd)
           f == [i \in 1..n |-> OfChunk(rd[i])]
<1>1. /\ rd \in Seq(Chunk) /\ n \in Nat \ {0} /\ (Stopped(cs) <=> Stops(rd[n]))
      /\ (\A i \in 1..(n - 1) : ~Stops(rd[i])) /\ \A i \in 1..n : rd[i] \in Chunk
  BY ReadIs
<1> HIDE DEF rd
<1>2. \A i \in 1..n : OfChunk(rd[i]) \in Seq(Event)
  BY <1>1, ChunkEvents
<1> HIDE DEF n
<1>3. f \in Seq(Seq(Event)) /\ Len(f) = n /\ \A i \in 1..n : f[i] = OfChunk(rd[i])
  <2>1. f \in [1..n -> Seq(Event)]
    BY <1>2
  <2>2. \A i \in 1..n : f[i] = OfChunk(rd[i])
    OBVIOUS
  <2> HIDE DEF f
  <2> QED BY <1>1, <2>1, <2>2
<1> HIDE DEF f
<1>4. PICK g : Joins(g, f, n) /\ FlattenSeq(f) = g[n]
  <2>1. Len(f) > 0
    BY <1>1, <1>3
  <2> QED BY <1>3, <2>1, FlattenJoins
<1>5. n # 1 => g[n - 1] \in Seq({"text"})
  <2> SUFFICES ASSUME n # 1 PROVE g[n - 1] \in Seq({"text"})
    OBVIOUS
  <2>1. n - 1 \in Nat /\ n - 1 \in 1..(n - 1) /\ \A i \in 1..(n - 1) : i \in 1..n
    BY <1>1
  <2>2. Joins(g, f, n - 1)
    BY <1>4, <2>1 DEF Joins
  <2>3. \A i \in 1..(n - 1) : f[i] \in Seq({"text"})
    <3> TAKE i \in 1..(n - 1)
    <3>1. rd[i] \in Chunk /\ ~Stops(rd[i]) /\ f[i] = OfChunk(rd[i])
      BY <1>1, <1>3, <2>1
    <3> QED BY <3>1, ChunkEvents
  <2> HIDE DEF Joins
  <2>4. \A i \in 1..(n - 1) : g[i] \in Seq({"text"})
    BY <2>1, <2>2, <2>3, JoinStays
  <2> QED BY <2>1, <2>4
<1> DEFINE ends(e, m) ==
             /\ Stops(rd[n]) <=> e # "none"
             /\ e = "done" => rd[n].fin = "stop"
             /\ Stops(rd[n]) => m = Told(rd[n]) /\ (rd[n].calls > 0 => e = "tool_call")
<1>6. \E k \in Nat : \E e \in Ends \union {"none"} : \E m \in Nat : TextsThen(f[n], k, e, m) /\ ends(e, m)
  <2>1. n \in 1..n /\ rd[n] \in Chunk /\ f[n] = OfChunk(rd[n])
    BY <1>1, <1>3
  <2>2. CASE Stops(rd[n])
    <3>1. PICK k \in 0..1, e \in Ends : TextsThen(OfChunk(rd[n]), k, e, Told(rd[n])) /\ (e = "done" => rd[n].fin = "stop")
                                        /\ (rd[n].calls > 0 => e = "tool_call")
      BY <2>1, <2>2, ChunkEvents
    <3>2. k \in Nat /\ e \in Ends \union {"none"} /\ e # "none" /\ Told(rd[n]) \in Nat
      BY <3>1 DEF Ends, TextsThen
    <3>3. TextsThen(f[n], k, e, Told(rd[n])) /\ ends(e, Told(rd[n]))
      BY <2>1, <2>2, <3>1, <3>2
    <3> QED BY <3>2, <3>3
  <2>3. CASE ~Stops(rd[n])
    <3> DEFINE s == OfChunk(rd[n])
    <3>1. s \in Seq({"text"})
      BY <2>1, <2>3, ChunkEvents
    <3> HIDE DEF s
    <3>2. s \in [1..Len(s) -> {"text"}] /\ Len(s) \in Nat
      BY <3>1, LenProperties
    <3>3. TextsThen(s, Len(s), "none", 0)
      BY <3>1, <3>2 DEF TextsThen, Event
    <3>4. ends("none", 0) /\ "none" \in Ends \union {"none"} /\ 0 \in Nat
      BY <2>3
    <3> QED BY <2>1, <3>2, <3>3, <3>4 DEF s
  <2> QED BY <2>2, <2>3
<1>7. PICK k \in Nat : \E e \in Ends \union {"none"} : \E m \in Nat : TextsThen(f[n], k, e, m) /\ ends(e, m)
  BY <1>6
<1>8. PICK e \in Ends \union {"none"} : \E m \in Nat : TextsThen(f[n], k, e, m) /\ ends(e, m)
  BY <1>7
<1>11. PICK m \in Nat : TextsThen(f[n], k, e, m) /\ ends(e, m)
  BY <1>8
<1> HIDE DEF ends
<1>9. \E l \in Nat : TextsThen(FlattenSeq(f), l, e, m)
  <2>1. g[n] = IF n = 1 THEN f[n] ELSE g[n - 1] \o f[n]
    BY <1>1, <1>4 DEF Joins
  <2>2. CASE n = 1
    BY <1>4, <1>7, <1>11, <2>1, <2>2
  <2>3. CASE n # 1
    <3> DEFINE s == g[n - 1]
    <3>1. s \in Seq({"text"}) /\ g[n] = s \o f[n]
      BY <1>5, <2>1, <2>3
    <3> HIDE DEF s
    <3>2. TextsThen(s \o f[n], Len(s) + k, e, m) /\ Len(s) + k \in Nat
      <4>1. Len(s) \in Nat
        BY <3>1, LenProperties
      <4>2. TextsThen(f[n], k, e, m) /\ e \in Ends \union {"none"} /\ k \in Nat
        BY <1>11
      <4> DEFINE r == f[n]
      <4> HIDE DEF r
      <4>3. TextsThen(r, k, e, m)
        BY <4>2 DEF r
      <4>4. TextsThen(s \o r, Len(s) + k, e, m)
        BY <3>1, <4>2, <4>3, TextsJoin
      <4> QED BY <4>1, <4>2, <4>4 DEF r
    <3> QED BY <1>4, <3>1, <3>2
  <2> QED BY <2>2, <2>3
<1>10. FlattenSeq([i \in 1..Len(Read(cs)) |-> OfChunk(Read(cs)[i])]) = FlattenSeq(f)
  BY DEF f, n, rd
<1>12. Ended(cs, e, m)
  BY <1>1, <1>11 DEF Ended, ends, n, rd
<1> QED BY <1>9, <1>10, <1>12

\* The events end with the usage and have their end, if there is one, before it.
LEMMA EventsShape ==
    ASSUME NEW v, NEW k, NEW m, NEW e \in Ends \union {"none"}, TextsThen(v, k, e, m)
    PROVE  LET ev == v \o <<"usage">> IN
           /\ Last(ev) = "usage" /\ Cardinality({i \in 1..Len(ev) : ev[i] = "usage"}) = 1
           /\ {i \in 1..Len(ev) : ev[i] \in Ends} = (IF e = "none" THEN {} ELSE (Len(ev) - m)..(Len(ev) - 1))
           /\ \A i \in 1..Len(ev) : ev[i] \in Ends => ev[i] = e
           /\ e # "none" => e \in Range(ev)
           /\ "done" \in Range(ev) => e = "done"
<1> DEFINE ev == v \o <<"usage">>
<1>1. v \in Seq(Event) /\ "usage" \in Event /\ k \in Nat /\ m \in Nat /\ Len(v) = k + m /\ (e = "none" <=> m = 0)
  BY DEF TextsThen, Event
<1>2. ev = Append(v, "usage")
  BY <1>1, AppendIsConcat
<1>3. /\ ev \in Seq(Event) /\ Len(v) \in Nat /\ Len(ev) = Len(v) + 1 /\ ev[Len(v) + 1] = "usage"
      /\ (\A i \in 1..Len(v) : ev[i] = v[i]) /\ \A i \in 1..(Len(v) + 1) : i \in 1..Len(v) \/ i = Len(v) + 1
  BY <1>1, <1>2, Appending
<1>4. \A i \in 1..Len(v) : (i \in 1..k /\ v[i] = "text") \/ (e # "none" /\ i \in (k + 1)..(k + m) /\ v[i] = e)
  <2>1. \A i \in 1..Len(v) : i \in 1..k \/ i \in (k + 1)..(k + m)
    BY <1>1
  <2>2. (k + 1)..(k + m) # {} => e # "none"
    BY <1>1
  <2> QED BY <2>1, <2>2 DEF TextsThen
<1>5. e # "usage" /\ e # "text" /\ "text" \notin Ends /\ "usage" \notin Ends
  BY DEF Ends
<1>6. e # "none" => k + 1 \in (k + 1)..(k + m) /\ \A i \in (k + 1)..(k + m) : v[i] = e
  BY <1>1 DEF TextsThen
<1> HIDE DEF ev
<1>7. Last(ev) = "usage"
  BY <1>3 DEF Last
<1>8. Cardinality({i \in 1..Len(ev) : ev[i] = "usage"}) = 1
  <2>1. {i \in 1..Len(ev) : ev[i] = "usage"} = {Len(v) + 1}
    BY <1>3, <1>4, <1>5
  <2> QED BY <2>1, One
<1>9. {i \in 1..Len(ev) : ev[i] \in Ends} = IF e = "none" THEN {} ELSE (Len(ev) - m)..(Len(ev) - 1)
  <2>1. CASE e = "none"
    BY <1>3, <1>4, <1>5, <2>1
  <2>2. CASE e # "none"
    <3>1. Len(ev) - m = k + 1 /\ Len(ev) - 1 = k + m /\ e \in Ends
      BY <1>1, <1>3, <2>2
    <3>2. \A i \in 1..Len(ev) : ev[i] \in Ends => i \in (k + 1)..(k + m)
      BY <1>3, <1>4, <1>5
    <3>3. \A i \in (k + 1)..(k + m) : i \in 1..Len(ev) /\ i \in 1..Len(v)
      BY <1>1, <1>3
    <3>4. \A i \in (k + 1)..(k + m) : ev[i] = e
      BY <1>3, <1>6, <2>2, <3>3
    <3>5. {i \in 1..Len(ev) : ev[i] \in Ends} = (k + 1)..(k + m)
      BY <3>1, <3>2, <3>3, <3>4
    <3> QED BY <2>2, <3>1, <3>5
  <2> QED BY <2>1, <2>2
<1>13. \A i \in 1..Len(ev) : ev[i] \in Ends => ev[i] = e
  BY <1>3, <1>4, <1>5
<1>10. \A x : x \in Range(ev) <=> \E i \in 1..Len(ev) : ev[i] = x
  <2>1. DOMAIN ev = 1..Len(ev)
    BY <1>3
  <2> QED BY <2>1 DEF Range
<1>11. e # "none" => e \in Range(ev)
  <2> SUFFICES ASSUME e # "none" PROVE \E i \in 1..Len(ev) : ev[i] = e
    BY <1>10
  <2>1. k + 1 \in 1..Len(v) /\ v[k + 1] = e
    BY <1>1, <1>6
  <2>2. k + 1 \in 1..Len(ev) /\ ev[k + 1] = e
    BY <1>1, <1>3, <2>1
  <2> QED BY <2>2
<1>12. "done" \in Range(ev) => e = "done"
  BY <1>3, <1>4, <1>10
<1> QED BY <1>7, <1>8, <1>9, <1>11, <1>12, <1>13 DEF ev

LEMMA LoopHolds == chunks \in Seq(Chunk) => EndsOnce
<1> SUFFICES ASSUME chunks \in Seq(Chunk), chunks # <<>>, NEW tools \in BOOLEAN, NEW ended \in {"over", "raised"}
             PROVE  LET ev == ProviderEvents(chunks, ended, tools)
                        at == {i \in 1..Len(ev) : ev[i] \in Ends}
                        calls == IF Stopped(chunks) THEN Last(Read(chunks)).calls ELSE 0
                        told == IF calls > 0 THEN calls ELSE 1 IN
                    /\ Last(ev) = "usage" /\ Cardinality({i \in 1..Len(ev) : ev[i] = "usage"}) = 1
                    /\ (~Stopped(chunks) /\ ended = "raised") => "error" \in Range(ev)
                    /\ "done" \in Range(ev) => \A i \in 1..Len(Read(chunks)) : chunks[i].fin # "error" \/ chunks[i].calls > 0
                    /\ IF tools /\ ended = "over" /\ ~Stopped(chunks) THEN at = {} ELSE at = (Len(ev) - told)..(Len(ev) - 1)
                    /\ calls > 0 => \A i \in at : ev[i] = "tool_call"
  BY DEF EndsOnce
<1> DEFINE flat == FlattenSeq([i \in 1..Len(Read(chunks)) |-> OfChunk(Read(chunks)[i])])
           stopped == Stopped(chunks)
           tail == IF stopped THEN <<>> ELSE IF ended = "raised" THEN <<"error">> ELSE IF tools THEN <<>> ELSE <<"done">>
           rd == Read(chunks)
<1>1. PICK k \in Nat : \E e \in Ends \union {"none"} : \E m \in Nat : TextsThen(flat, k, e, m) /\ Ended(chunks, e, m)
  BY FlatEvents
<1>12. PICK e \in Ends \union {"none"} : \E m \in Nat : TextsThen(flat, k, e, m) /\ Ended(chunks, e, m)
  BY <1>1
<1>13. PICK m \in Nat : TextsThen(flat, k, e, m) /\ Ended(chunks, e, m)
  BY <1>12
<1>2. /\ TextsThen(flat, k, e, m) /\ (stopped <=> e # "none") /\ (e = "done" => rd[Len(rd)].fin = "stop")
      /\ stopped => m = Told(rd[Len(rd)]) /\ (rd[Len(rd)].calls > 0 => e = "tool_call")
  BY <1>13 DEF Ended
<1>3. ProviderEvents(chunks, ended, tools) = (flat \o tail) \o <<"usage">>
  BY DEF ProviderEvents, Events
<1>4. /\ Len(rd) \in Nat \ {0} /\ (stopped <=> Stops(rd[Len(rd)])) /\ (\A i \in 1..(Len(rd) - 1) : ~Stops(rd[i]))
      /\ \A i \in 1..Len(rd) : rd[i] \in Chunk /\ rd[i] = chunks[i]
  BY ReadIs
<1> HIDE DEF flat, rd, stopped
<1> DEFINE d == IF stopped THEN e ELSE IF ended = "raised" THEN "error" ELSE IF tools THEN "none" ELSE "done"
           dm == IF stopped THEN m ELSE IF d = "none" THEN 0 ELSE 1
<1>5. d \in Ends \union {"none"} /\ TextsThen(flat \o tail, k, d, dm)
  <2>1. flat \in Seq(Event)
    BY <1>2 DEF TextsThen
  <2>2. flat \o <<>> = flat
    BY <2>1, ConcatEmptySeq
  <2>6. e = "none" <=> m = 0
    BY <1>2 DEF TextsThen
  <2>3. CASE tail = <<>> /\ d = e /\ dm = m
    BY <1>2, <2>2, <2>3
  <2>4. CASE e = "none" /\ d \in Ends /\ tail = <<d>> /\ dm = 1
    BY <1>2, <2>4, EndAdded
  <2>5. (tail = <<>> /\ d = e /\ dm = m) \/ (e = "none" /\ d \in Ends /\ tail = <<d>> /\ dm = 1)
    <3>1. CASE stopped
      BY <3>1
    <3>2. CASE ~stopped /\ ended = "raised"
      BY <1>2, <3>2 DEF Ends
    <3>3. CASE ~stopped /\ ended # "raised" /\ tools
      BY <1>2, <2>6, <3>3
    <3>4. CASE ~stopped /\ ended # "raised" /\ ~tools
      BY <1>2, <3>4 DEF Ends
    <3> QED BY <3>1, <3>2, <3>3, <3>4
  <2> QED BY <2>3, <2>4, <2>5
<1> DEFINE v == flat \o tail
           ev == v \o <<"usage">>
<1>6. d = "done" => \A i \in 1..Len(rd) : chunks[i].fin # "error" \/ chunks[i].calls > 0
  <2> SUFFICES ASSUME d = "done", NEW i \in 1..Len(rd) PROVE rd[i].fin # "error" \/ rd[i].calls > 0
    BY <1>4
  <2>1. CASE i = Len(rd) /\ stopped
    <3>1. e = "done"
      BY <2>1
    <3> QED BY <1>2, <2>1, <3>1
  <2>2. CASE i \in 1..(Len(rd) - 1) \/ ~stopped
    <3>1. ~Stops(rd[i])
      BY <1>4, <2>2
    <3> QED BY <3>1 DEF Stops
  <2> QED BY <1>4, <2>1, <2>2
<1>7. /\ (~stopped /\ ended = "raised") => d = "error"
      /\ (tools /\ ended = "over" /\ ~stopped) <=> d = "none"
  BY <1>2 DEF Ends
<1>14. dm = IF stopped THEN Told(rd[Len(rd)]) ELSE IF d = "none" THEN 0 ELSE 1
  BY <1>2
<1>15. stopped => d # "none" /\ (rd[Len(rd)].calls > 0 => d = "tool_call")
  BY <1>2
<1> HIDE DEF d, dm, tail, v
<1>8. TextsThen(v, k, d, dm)
  BY <1>5 DEF v
<1>9. /\ Last(ev) = "usage" /\ Cardinality({i \in 1..Len(ev) : ev[i] = "usage"}) = 1
      /\ {i \in 1..Len(ev) : ev[i] \in Ends} = (IF d = "none" THEN {} ELSE (Len(ev) - dm)..(Len(ev) - 1))
      /\ (\A i \in 1..Len(ev) : ev[i] \in Ends => ev[i] = d)
      /\ (d # "none" => d \in Range(ev)) /\ ("done" \in Range(ev) => d = "done")
  BY <1>5, <1>8, EventsShape
<1>10. ProviderEvents(chunks, ended, tools) = ev
  BY <1>3 DEF v
<1> HIDE DEF ev
<1> DEFINE calls == IF stopped THEN rd[Len(rd)].calls ELSE 0
           told == IF calls > 0 THEN calls ELSE 1
<1>16. ~(tools /\ ended = "over" /\ ~stopped) => dm = told
  BY <1>7, <1>14 DEF Told
<1>17. calls > 0 => d = "tool_call"
  BY <1>15
<1> HIDE DEF calls, told
<1>11. /\ (~stopped /\ ended = "raised") => "error" \in Range(ev)
       /\ "done" \in Range(ev) => \A i \in 1..Len(rd) : chunks[i].fin # "error" \/ chunks[i].calls > 0
       /\ IF tools /\ ended = "over" /\ ~stopped THEN {i \in 1..Len(ev) : ev[i] \in Ends} = {}
          ELSE {i \in 1..Len(ev) : ev[i] \in Ends} = (Len(ev) - told)..(Len(ev) - 1)
       /\ calls > 0 => \A i \in {j \in 1..Len(ev) : ev[j] \in Ends} : ev[i] = "tool_call"
  BY <1>6, <1>7, <1>9, <1>15, <1>16, <1>17
<1>18. calls = IF Stopped(chunks) THEN Last(Read(chunks)).calls ELSE 0
  BY DEF calls, stopped, rd, Last
<1> QED BY <1>9, <1>10, <1>11, <1>18 DEF stopped, rd, told

LEMMA LoopStart == AlInit => chunks \in Seq(Chunk)
BY EmptySeq DEF AlInit

LEMMA LoopStep == chunks \in Seq(Chunk) /\ AlNext => chunks' \in Seq(Chunk)
<1> SUFFICES ASSUME chunks \in Seq(Chunk), NEW c \in Chunk, chunks' = Append(chunks, c) PROVE chunks' \in Seq(Chunk)
  BY DEF AlNext
<1> QED BY AppendProperties

----------------------------------------------------------------------------
(* Plans, runs of the engine and the loop together.                        *)

mcVars == <<part, tgVars, chVars, cbVars, alVars, enVars, tpVars>>
RunsInv == PlansInv /\ EnInv /\ chunks \in Seq(Chunk)

LEMMA RunsStart == Init => RunsInv
BY PlansStart, EngineStart0, LoopStart DEF Init, RunsInv

LEMMA RunsStep == RunsInv /\ [Next]_mcVars => RunsInv'
<1> SUFFICES ASSUME RunsInv, [Next]_mcVars PROVE RunsInv'
  OBVIOUS
<1>1. (PlansNext \/ UNCHANGED tpVars) /\ (EnNext \/ UNCHANGED enVars) /\ (AlNext \/ UNCHANGED alVars)
  <2>1. CASE UNCHANGED mcVars
    BY <2>1 DEF mcVars
  <2>2. CASE Next
    BY <2>2, Zenon DEF Next
  <2> QED BY <2>1, <2>2
<1>2. PlansInv'
  BY <1>1, PlansStep, PlansStutter DEF RunsInv
<1>3. EnInv'
  BY <1>1, EngineStep, EngineStutter DEF RunsInv
<1>4. chunks' \in Seq(Chunk)
  BY <1>1, LoopStep DEF RunsInv, alVars
<1> QED BY <1>2, <1>3, <1>4 DEF RunsInv

\* A plan runs along its chain and only with what its tenant may use, although
\* capabilities come and go; the session's row is always one run's view, in which
\* only the last turn of a run that was cut has calls without results; no entry of an approval outlives its call;
\* and a stream tells its caller one end: for any number of tenants, capabilities,
\* runs, turns, calls and chunks.
THEOREM RunsStaySound == Spec => []RunsAreSound
<1>1. RunsInv => RunsAreSound
  BY PlansHold, EngineHolds, LoopHolds DEF RunsInv, RunsAreSound
<1> QED BY <1>1, RunsStart, RunsStep, PTL DEF Spec, mcVars
\* A task's messages are in the table of its own session once each, when its statements
\* have run; a session object has messages of its session that are in the table, will be
\* when the task goes on, or belong to a task whose statement failed.
Roles == {"user", "assistant"}
Line == ChatJobs \X Roles
Cached == [s: ChatSessions, obj: ChatJobs]
ChatState == [pc: {"new", "load", "ensure", "user", "run", "reply", "done"}, mode: {"auto", "direct"}, eng: ChatEngines,
              sess: ChatSessions, obj: ChatJobs, dbok: BOOLEAN, parts: 0..ChainLength, worked: BOOLEAN,
              said: {"nothing", "success", "failure"}]
ChTypes ==
    /\ chat \in [ChatJobs -> ChatState] /\ held \in [ChatJobs -> Seq(Line)]
    /\ l1 \in [ChatEngines -> Seq(Cached)] /\ chatRows \subseteq ChatSessions
    /\ chatDb \in [ChatSessions -> Seq(Line)]
    /\ dbFailed \subseteq ChatJobs /\ IsFiniteSet(dbFailed) /\ Cardinality(dbFailed) <= DbFailures
CacheShape == \A e \in ChatEngines :
    /\ Len(l1[e]) <= CacheSize
    /\ \A i, j \in 1..Len(l1[e]) : l1[e][i].s = l1[e][j].s => i = j
\* An object is that of a task that began, for the session the task is in.
ObjectOf(o, s) == chat[o].pc # "new" /\ chat[o].sess = s
ObjectsMatch ==
    /\ \A e \in ChatEngines : \A i \in 1..Len(l1[e]) : ObjectOf(l1[e][i].obj, l1[e][i].s)
    /\ \A t \in ChatJobs : /\ chat[t].pc # "new" => ObjectOf(chat[t].obj, chat[t].sess)
                           /\ chat[t].pc = "load" => chat[t].obj = t
Accounted(m, s) ==
    \/ m[1] \in dbFailed
    \/ m \in Range(chatDb[s])
    \/ m[2] = "user" /\ chat[m[1]].pc = "user"
    \/ m[2] = "assistant" /\ chat[m[1]].pc = "reply"
HeldIsAccounted == \A o \in ChatJobs : \A i \in 1..Len(held[o]) :
    chat[o].pc # "new" /\ ObjectOf(held[o][i][1], chat[o].sess) /\ Accounted(held[o][i], chat[o].sess)
After(t) == chat[t].pc \in {"run", "reply", "done"}
RowsAreOwn == \A s \in ChatSessions : \A i \in 1..Len(chatDb[s]) :
    /\ After(chatDb[s][i][1]) /\ chat[chatDb[s][i][1]].sess = s
    /\ chatDb[s][i][2] = "assistant" => chat[chatDb[s][i][1]].pc = "done"
    /\ \A j \in 1..Len(chatDb[s]) : chatDb[s][i] = chatDb[s][j] => i = j
RowsThere(t) ==
    /\ chat[t].pc = "user" => chat[t].dbok
    /\ (After(t) /\ ~chat[t].dbok) => t \in dbFailed
    /\ (After(t) /\ t \notin dbFailed) => <<t, "user">> \in Range(chatDb[chat[t].sess])
    /\ (chat[t].pc = "done" /\ t \notin dbFailed) => Before(chat[t].sess, <<t, "user">>, <<t, "assistant">>)
SaidTrue(t) ==
    /\ chat[t].said # "nothing" => chat[t].pc \in {"reply", "done"}
    /\ chat[t].parts = 0 => ~chat[t].worked
    /\ (chat[t].said = "success" /\ chat[t].mode = "direct") => chat[t].worked
    /\ chat[t].said = "failure" => ~chat[t].worked
ChInv == /\ ChTypes /\ CacheShape /\ ObjectsMatch /\ HeldIsAccounted /\ RowsAreOwn
         /\ \A t \in ChatJobs : RowsThere(t) /\ SaidTrue(t)

----------------------------------------------------------------------------
(* Caches of sessions.                                                     *)

Keyed(cache) == cache \in Seq(Cached) /\ \A i, j \in 1..Len(cache) : cache[i].s = cache[j].s => i = j
\* Every entry of a is one of b.
Within(a, b) == \A i \in 1..Len(a) : \E j \in 1..Len(b) : a[i] = b[j]

LEMMA WithoutIs ==
    ASSUME NEW cache, Keyed(cache), NEW s
    PROVE  /\ Keyed(Without(cache, s)) /\ Within(Without(cache, s), cache)
           /\ \A i \in 1..Len(Without(cache, s)) : Without(cache, s)[i].s # s
           /\ Places(cache, s) # {} => PlaceIn(cache, s) \in 1..Len(cache) /\ cache[PlaceIn(cache, s)].s = s
           /\ Len(Without(cache, s)) = IF Places(cache, s) = {} THEN Len(cache) ELSE Len(cache) - 1
<1>1. cache \in Seq(Cached) /\ Len(cache) \in Nat
  BY LenProperties DEF Keyed
<1>2. CASE Places(cache, s) = {}
  <2>1. Without(cache, s) = cache
    BY <1>2 DEF Without
  <2>2. \A i \in 1..Len(cache) : cache[i].s # s
    BY <1>2 DEF Places
  <2> QED BY <1>1, <1>2, <2>1, <2>2 DEF Within
<1>3. CASE Places(cache, s) # {}
  <2> DEFINE p == PlaceIn(cache, s)
             r == RemoveAt(cache, p)
  <2>1. p \in Places(cache, s)
    BY <1>3 DEF PlaceIn
  <2>2. p \in 1..Len(cache) /\ cache[p].s = s
    BY <2>1 DEF Places
  <2>3. Without(cache, s) = r
    BY <1>3 DEF Without
  <2> HIDE DEF p
  <2>4. /\ r \in Seq(Cached) /\ Len(r) = Len(cache) - 1
        /\ \A j \in 1..Len(r) : r[j] = IF j < p THEN cache[j] ELSE cache[j + 1]
    BY <1>1, <2>2, RemoveAtSeq
  <2> HIDE DEF r
  <2> DEFINE at(j) == IF j < p THEN j ELSE j + 1
  <2>5. \A j \in 1..Len(r) : at(j) \in 1..Len(cache) /\ at(j) # p /\ r[j] = cache[at(j)]
    BY <1>1, <2>2, <2>4
  <2>6. \A i, j \in 1..Len(r) : at(i) = at(j) => i = j
    BY <1>1, <2>2, <2>4
  <2> HIDE DEF at
  <2>7. \A i \in 1..Len(cache) : cache[i].s = s => i = p
    BY <2>2 DEF Keyed
  <2>8. Keyed(r)
    <3> SUFFICES ASSUME NEW i \in 1..Len(r), NEW j \in 1..Len(r), r[i].s = r[j].s PROVE i = j
      BY <2>4 DEF Keyed
    <3>1. at(i) \in 1..Len(cache) /\ at(j) \in 1..Len(cache) /\ cache[at(i)].s = cache[at(j)].s
      BY <2>5
    <3>2. at(i) = at(j)
      BY <3>1 DEF Keyed
    <3> QED BY <2>6, <3>2
  <2>9. Within(r, cache) /\ \A i \in 1..Len(r) : r[i].s # s
    BY <2>5, <2>7 DEF Within
  <2> QED BY <1>3, <2>2, <2>3, <2>4, <2>8, <2>9 DEF p
<1> QED BY <1>2, <1>3

LEMMA TouchedIs ==
    ASSUME NEW cache, Keyed(cache), NEW s
    PROVE  Keyed(Touched(cache, s)) /\ Within(Touched(cache, s), cache) /\ Len(Touched(cache, s)) = Len(cache)
<1>1. cache \in Seq(Cached) /\ Len(cache) \in Nat
  BY LenProperties DEF Keyed
<1>2. CASE Places(cache, s) = {}
  BY <1>2 DEF Touched, Within
<1>3. CASE Places(cache, s) # {}
  <2> DEFINE w == Without(cache, s)
             x == cache[PlaceIn(cache, s)]
             a == Append(w, x)
  <2>1. /\ w \in Seq(Cached) /\ (\A i, j \in 1..Len(w) : w[i].s = w[j].s => i = j) /\ Within(w, cache)
        /\ (\A i \in 1..Len(w) : w[i].s # s) /\ PlaceIn(cache, s) \in 1..Len(cache) /\ x.s = s
        /\ Len(w) = Len(cache) - 1
    BY <1>3, WithoutIs DEF Keyed
  <2>2. x \in Cached
    BY <1>1, <2>1, ElementOfSeq
  <2>3. Touched(cache, s) = a
    BY <1>3 DEF Touched
  <2> HIDE DEF w
  <2>4. \E j \in 1..Len(cache) : x = cache[j]
    BY <2>1
  <2> HIDE DEF x
  <2>5. /\ a \in Seq(Cached) /\ Len(w) \in Nat /\ Len(a) = Len(w) + 1
        /\ (\A i \in 1..Len(w) : a[i] = w[i]) /\ a[Len(w) + 1] = x
        /\ \A i \in 1..(Len(w) + 1) : i \in 1..Len(w) \/ i = Len(w) + 1
    BY <2>1, <2>2, Appending
  <2> HIDE DEF a
  <2>6. Keyed(a)
    BY <2>1, <2>5 DEF Keyed
  <2>7. Within(a, cache)
    BY <2>1, <2>4, <2>5 DEF Within
  <2> QED BY <1>1, <2>1, <2>3, <2>5, <2>6, <2>7
<1> QED BY <1>2, <1>3

LEMMA EvictedIs ==
    ASSUME NEW cache, Keyed(cache)
    PROVE  Keyed(Evicted(cache)) /\ Within(Evicted(cache), cache) /\ Len(Evicted(cache)) <= CacheSize
<1> DEFINE n == Len(cache)
           d == IF n > CacheSize THEN n - CacheSize ELSE 0
           v == SubSeq(cache, 1 + d, n)
<1>1. cache \in Seq(Cached) /\ n \in Nat /\ CacheSize \in Nat \ {0}
  BY LenProperties, ChatAssumption DEF Keyed
<1>2. d \in Nat /\ n - d \in Nat /\ n - d <= CacheSize
  BY <1>1
<1>3. Evicted(cache) = v
  BY DEF Evicted
<1> HIDE DEF d
<1>4. \A i \in (1 + d)..n : cache[i] \in Cached
  BY <1>1, <1>2, ElementOfSeq
<1>5. /\ v \in Seq(Cached) /\ Len(v) = (IF 1 + d <= n THEN n - (1 + d) + 1 ELSE 0)
      /\ \A i \in 1..(n - (1 + d) + 1) : v[i] = cache[(1 + d) + i - 1]
  <2>1. 1 + d \in 1..(n + 1)
    BY <1>1, <1>2
  <2> HIDE DEF n
  <2> QED BY <1>1, <1>4, <2>1, SubSeqProperties
<1> HIDE DEF v
<1>6. Len(v) = n - d /\ \A i \in 1..(n - d) : v[i] = cache[i + d] /\ i + d \in 1..n
  BY <1>1, <1>2, <1>5
<1>7. Keyed(v)
  <2> SUFFICES ASSUME NEW i \in 1..Len(v), NEW j \in 1..Len(v), v[i].s = v[j].s PROVE i = j
    BY <1>5 DEF Keyed
  <2>1. i + d = j + d
    BY <1>6 DEF Keyed
  <2> QED BY <1>2, <2>1
<1>8. Within(v, cache)
  BY <1>6 DEF Within
<1> QED BY <1>2, <1>3, <1>6, <1>7, <1>8

\* An entry put anywhere into a cache without its session.
LEMMA InsertedIs ==
    ASSUME NEW cache, Keyed(cache), NEW x \in Cached, \A i \in 1..Len(cache) : cache[i].s # x.s, NEW p \in 0..Len(cache)
    PROVE  LET new == SubSeq(cache, 1, p) \o <<x>> \o SubSeq(cache, p + 1, Len(cache)) IN
           Keyed(new) /\ \A i \in 1..Len(new) : new[i] = x \/ \E j \in 1..Len(cache) : new[i] = cache[j]
<1> DEFINE n == Len(cache)
           a == SubSeq(cache, 1, p)
           b == SubSeq(cache, p + 1, n)
           c == a \o <<x>>
           new == c \o b
<1>1. cache \in Seq(Cached) /\ n \in Nat /\ p \in Nat /\ p <= n
  BY LenProperties DEF Keyed
<1>2. \A i \in 1..n : cache[i] \in Cached
  BY <1>1, ElementOfSeq
<1>3. a \in Seq(Cached) /\ Len(a) = p /\ \A i \in 1..p : a[i] = cache[i]
  <2>1. /\ a \in Seq(Cached) /\ Len(a) = (IF 1 <= p THEN p - 1 + 1 ELSE 0)
        /\ \A i \in 1..(p - 1 + 1) : a[i] = cache[1 + i - 1]
    <3>1. \A i \in 1..p : cache[i] \in Cached
      BY <1>1, <1>2
    <3> QED BY <1>1, <3>1, SubSeqProperties
  <2> HIDE DEF a
  <2> QED BY <1>1, <2>1
<1>4. b \in Seq(Cached) /\ Len(b) = n - p /\ \A i \in 1..(n - p) : b[i] = cache[p + i]
  <2>1. /\ b \in Seq(Cached) /\ Len(b) = (IF p + 1 <= n THEN n - (p + 1) + 1 ELSE 0)
        /\ \A i \in 1..(n - (p + 1) + 1) : b[i] = cache[(p + 1) + i - 1]
    <3>1. \A i \in (p + 1)..n : cache[i] \in Cached
      BY <1>1, <1>2
    <3>2. p + 1 \in 1..(n + 1)
      BY <1>1
    <3> HIDE DEF n
    <3> QED BY <1>1, <3>1, <3>2, SubSeqProperties
  <2> HIDE DEF b
  <2> QED BY <1>1, <2>1
<1> HIDE DEF a, b
<1>5. c \in Seq(Cached) /\ Len(c) = p + 1 /\ (\A i \in 1..p : c[i] = cache[i]) /\ c[p + 1] = x
  <2>1. c = Append(a, x)
    BY <1>3, AppendIsConcat
  <2> QED BY <1>1, <1>3, <2>1, Appending
<1> HIDE DEF c
<1>6. /\ new \in Seq(Cached) /\ Len(new) = n + 1
      /\ \A i \in 1..(n + 1) : new[i] = IF i <= p + 1 THEN c[i] ELSE b[i - (p + 1)]
  <2>1. new \in Seq(Cached) /\ Len(new) = Len(c) + Len(b)
        /\ \A i \in 1..(Len(c) + Len(b)) : new[i] = IF i <= Len(c) THEN c[i] ELSE b[i - Len(c)]
    BY <1>4, <1>5, ConcatProperties, ZenonT(60)
  <2>2. Len(c) + Len(b) = n + 1
    BY <1>1, <1>4, <1>5
  <2> QED BY <1>5, <2>1, <2>2
<1> HIDE DEF new
<1> DEFINE at(i) == IF i <= p THEN i ELSE i - 1
<1>7. \A i \in 1..(n + 1) : i = p + 1 \/ (at(i) \in 1..n /\ new[i] = cache[at(i)])
  <2> TAKE i \in 1..(n + 1)
  <2>1. CASE i <= p
    <3>1. i \in 1..p /\ i \in 1..n /\ i <= p + 1
      BY <1>1, <2>1
    <3> QED BY <1>5, <1>6, <2>1, <3>1
  <2>2. CASE i > p + 1
    <3>1. i - (p + 1) \in 1..(n - p) /\ p + (i - (p + 1)) = i - 1 /\ i - 1 \in 1..n /\ ~(i <= p + 1) /\ ~(i <= p)
      <4> HIDE DEF n
      <4>1. i \in Int /\ i <= n + 1 /\ i > p + 1 /\ n \in Nat /\ p \in Nat
        BY <1>1, <2>2
      <4>2. i - (p + 1) \in 1..(n - p)
        BY <4>1
      <4> QED BY <4>1, <4>2
    <3>2. new[i] = b[i - (p + 1)] /\ b[i - (p + 1)] = cache[p + (i - (p + 1))]
      BY <1>4, <1>6, <3>1
    <3>3. at(i) = i - 1
      BY <3>1
    <3> HIDE DEF at
    <3> QED BY <3>1, <3>2, <3>3
  <2> QED BY <1>1, <2>1, <2>2
<1>8. new[p + 1] = x
  BY <1>1, <1>5, <1>6
<1>9. \A i, j \in 1..(n + 1) : (i # p + 1 /\ j # p + 1 /\ at(i) = at(j)) => i = j
  BY <1>1
<1> HIDE DEF at
<1>10. Keyed(new)
  <2> SUFFICES ASSUME NEW i \in 1..(n + 1), NEW j \in 1..(n + 1), new[i].s = new[j].s PROVE i = j
    BY <1>6 DEF Keyed
  <2>1. CASE i = p + 1 \/ j = p + 1
    BY <1>7, <1>8, <2>1
  <2>2. CASE i # p + 1 /\ j # p + 1
    <3>1. at(i) = at(j)
      BY <1>7, <2>2 DEF Keyed
    <3> QED BY <1>9, <2>2, <3>1
  <2> QED BY <2>1, <2>2
<1>11. \A i \in 1..Len(new) : new[i] = x \/ \E j \in 1..n : new[i] = cache[j]
  BY <1>6, <1>7, <1>8
<1> QED BY <1>10, <1>11 DEF new, c, a, b

----------------------------------------------------------------------------
(* The chat entry: what every step of a task leaves true.                  *)

\* What the invariant says of a message, a session and a task, after a step.
NextObjectOf(o, s) == chat'[o].pc # "new" /\ chat'[o].sess = s
NextAccounted(m, s) ==
    \/ m[1] \in dbFailed'
    \/ m \in Range(chatDb'[s])
    \/ m[2] = "user" /\ chat'[m[1]].pc = "user"
    \/ m[2] = "assistant" /\ chat'[m[1]].pc = "reply"
NextAfter(t) == chat'[t].pc \in {"run", "reply", "done"}
NextBefore(s, m, n) == \E i, j \in 1..Len(chatDb'[s]) : i < j /\ chatDb'[s][i] = m /\ chatDb'[s][j] = n

\* A step of the task t, which goes on and keeps its session and its object.
Onward(t) ==
    /\ chat' \in [ChatJobs -> ChatState] /\ \A q \in ChatJobs \ {t} : chat'[q] = chat[q]
    /\ chat'[t].pc # "new" /\ chat[t].pc # "done" /\ (After(t) => NextAfter(t))
    /\ chat[t].pc # "new" => chat'[t].sess = chat[t].sess /\ chat'[t].obj = chat[t].obj
    /\ dbFailed \subseteq dbFailed'
\* The tables get a message at most.
Extends == \A s \in ChatSessions : chatDb'[s] = chatDb[s] \/ \E m \in Line : chatDb'[s] = Append(chatDb[s], m)

LEMMA Lines ==
    ASSUME NEW s \in Seq(Line)
    PROVE  /\ \A i \in 1..Len(s) : s[i] \in Line /\ s[i] \in Range(s)
           /\ \A m : m \in Range(s) => \E i \in 1..Len(s) : s[i] = m
<1>1. DOMAIN s = 1..Len(s)
  BY LenProperties
<1>2. \A i \in 1..Len(s) : s[i] \in Line
  BY ElementOfSeq
<1> QED BY <1>1, <1>2 DEF Range

LEMMA LineAdded ==
    ASSUME NEW s \in Seq(Line), NEW m \in Line
    PROVE  /\ Append(s, m) \in Seq(Line) /\ Range(s) \subseteq Range(Append(s, m)) /\ m \in Range(Append(s, m))
           /\ \A x \in Range(Append(s, m)) : x = m \/ x \in Range(s)
<1> DEFINE a == Append(s, m)
<1>1. /\ a \in Seq(Line) /\ Len(s) \in Nat /\ Len(a) = Len(s) + 1 /\ (\A i \in 1..Len(s) : a[i] = s[i]) /\ a[Len(s) + 1] = m
      /\ \A i \in 1..(Len(s) + 1) : i \in 1..Len(s) \/ i = Len(s) + 1
  BY Appending
<1> HIDE DEF a
<1>2. DOMAIN s = 1..Len(s) /\ DOMAIN a = 1..(Len(s) + 1)
  BY <1>1, LenProperties
<1>3. \A i \in 1..Len(s) : i \in 1..(Len(s) + 1)
  BY <1>1
<1>4. Len(s) + 1 \in 1..(Len(s) + 1)
  BY <1>1
<1>5. Range(s) \subseteq Range(a)
  BY <1>1, <1>2, <1>3 DEF Range
<1>6. m \in Range(a)
  BY <1>1, <1>2, <1>4 DEF Range
<1>7. \A x \in Range(a) : x = m \/ x \in Range(s)
  BY <1>1, <1>2 DEF Range
<1> QED BY <1>1, <1>5, <1>6, <1>7 DEF a

LEMMA TablesExtend ==
    ASSUME ChInv, Extends
    PROVE  \A s \in ChatSessions : /\ Range(chatDb[s]) \subseteq Range(chatDb'[s])
                                   /\ \A m, n : Before(s, m, n) => NextBefore(s, m, n)
<1> TAKE s \in ChatSessions
<1>1. chatDb[s] \in Seq(Line)
  BY DEF ChInv, ChTypes
<1>2. CASE chatDb'[s] = chatDb[s]
  BY <1>2 DEF Before, NextBefore
<1>3. CASE chatDb'[s] # chatDb[s]
  <2>1. PICK m \in Line : chatDb'[s] = Append(chatDb[s], m)
    BY <1>3 DEF Extends
  <2>2. Range(chatDb[s]) \subseteq Range(chatDb'[s])
    BY <1>1, <2>1, LineAdded
  <2>3. /\ Len(chatDb[s]) \in Nat /\ Len(chatDb'[s]) = Len(chatDb[s]) + 1
        /\ \A i \in 1..Len(chatDb[s]) : chatDb'[s][i] = chatDb[s][i]
    BY <1>1, <2>1, Appending
  <2>4. ASSUME NEW x, NEW y, Before(s, x, y) PROVE NextBefore(s, x, y)
    <3>1. PICK i \in 1..Len(chatDb[s]), j \in 1..Len(chatDb[s]) : i < j /\ chatDb[s][i] = x /\ chatDb[s][j] = y
      BY <2>4 DEF Before, NextBefore
    <3>2. i \in 1..Len(chatDb'[s]) /\ j \in 1..Len(chatDb'[s]) /\ chatDb'[s][i] = x /\ chatDb'[s][j] = y
      BY <2>3, <3>1
    <3> QED BY <3>1, <3>2 DEF Before, NextBefore
  <2> QED BY <2>2, <2>4
<1> QED BY <1>2, <1>3

LEMMA Grows ==
    ASSUME ChInv, NEW t \in ChatJobs, Onward(t)
    PROVE  /\ \A o \in ChatJobs : chat[o].pc # "new" => chat'[o].pc # "new" /\ chat'[o].sess = chat[o].sess /\ chat'[o].obj = chat[o].obj
           /\ \A o \in ChatJobs : \A s : ObjectOf(o, s) => NextObjectOf(o, s)
           /\ \A o \in ChatJobs : (After(o) => NextAfter(o)) /\ (chat[o].pc = "done" => chat'[o].pc = "done")
<1>1. \A o \in ChatJobs : chat[o].pc # "new" => chat'[o].pc # "new" /\ chat'[o].sess = chat[o].sess /\ chat'[o].obj = chat[o].obj
  BY DEF Onward
<1>2. \A o \in ChatJobs : \A s : ObjectOf(o, s) => NextObjectOf(o, s)
  BY <1>1 DEF ObjectOf, NextObjectOf
<1>3. ASSUME NEW o \in ChatJobs PROVE (After(o) => NextAfter(o)) /\ (chat[o].pc = "done" => chat'[o].pc = "done")
  <2>1. CASE o = t
    BY <2>1 DEF Onward
  <2>2. CASE o # t
    <3>1. chat'[o] = chat[o]
      BY <2>2 DEF Onward
    <3> QED BY <3>1 DEF After, NextAfter
  <2> QED BY <2>1, <2>2
<1> QED BY <1>1, <1>2, <1>3

\* A message that is accounted for goes on being it, unless its statement is skipped.
LEMMA AccountStays ==
    ASSUME ChInv, NEW t \in ChatJobs, Onward(t), Extends,
           chat[t].pc = "user" => chat'[t].pc = "user" \/ t \in dbFailed' \/ <<t, "user">> \in Range(chatDb'[chat[t].sess]),
           chat[t].pc = "reply" => chat'[t].pc = "reply" \/ t \in dbFailed' \/ <<t, "assistant">> \in Range(chatDb'[chat[t].sess]),
           NEW m \in Line, NEW s \in ChatSessions, ObjectOf(m[1], s), Accounted(m, s)
    PROVE  NextObjectOf(m[1], s) /\ NextAccounted(m, s)
<1>1. m[1] \in ChatJobs /\ m[2] \in Roles /\ m = <<m[1], m[2]>>
  BY DEF Line
<1>2. NextObjectOf(m[1], s)
  BY <1>1, Grows
<1>3. dbFailed \subseteq dbFailed' /\ Range(chatDb[s]) \subseteq Range(chatDb'[s])
  BY TablesExtend DEF Onward
<1>4. CASE m[1] \in dbFailed \/ m \in Range(chatDb[s])
  BY <1>2, <1>3, <1>4 DEF Accounted, NextAccounted
<1>5. CASE m[1] # t
  <2>1. chat'[m[1]] = chat[m[1]]
    BY <1>1, <1>5 DEF Onward
  <2> QED BY <1>2, <1>3, <2>1 DEF Accounted, NextAccounted
<1>6. CASE m[1] = t /\ ~(m[1] \in dbFailed \/ m \in Range(chatDb[s]))
  <2>1. chat[t].sess = s
    BY <1>6 DEF ObjectOf, NextObjectOf
  <2>2. (m[2] = "user" /\ chat[t].pc = "user") \/ (m[2] = "assistant" /\ chat[t].pc = "reply")
    BY <1>6 DEF Accounted, NextAccounted
  <2>3. CASE m[2] = "user" /\ chat[t].pc = "user"
    <3>1. m = <<t, "user">>
      BY <1>1, <1>6, <2>3
    <3> QED BY <1>2, <1>6, <2>1, <2>3, <3>1 DEF Accounted, NextAccounted
  <2>4. CASE m[2] = "assistant" /\ chat[t].pc = "reply"
    <3>1. m = <<t, "assistant">>
      BY <1>1, <1>6, <2>4
    <3> QED BY <1>2, <1>6, <2>1, <2>4, <3>1 DEF Accounted, NextAccounted
  <2> QED BY <2>2, <2>3, <2>4
<1> QED BY <1>4, <1>5, <1>6

\* The objects stay accounted for, when one of them at most gets a message.
LEMMA HeldStays ==
    ASSUME ChInv, NEW t \in ChatJobs, Onward(t), Extends,
           chat[t].pc = "user" => chat'[t].pc = "user" \/ t \in dbFailed' \/ <<t, "user">> \in Range(chatDb'[chat[t].sess]),
           chat[t].pc = "reply" => chat'[t].pc = "reply" \/ t \in dbFailed' \/ <<t, "assistant">> \in Range(chatDb'[chat[t].sess]),
           \/ held' = held
           \/ /\ chat[t].pc # "new"
              /\ \E r \in Roles : /\ held' = [held EXCEPT ![chat[t].obj] = Append(@, <<t, r>>)]
                                  /\ NextAccounted(<<t, r>>, chat[t].sess)
    PROVE  held' \in [ChatJobs -> Seq(Line)] /\ HeldIsAccounted'
<1>1. held \in [ChatJobs -> Seq(Line)] /\ chat \in [ChatJobs -> ChatState]
  BY DEF ChInv, ChTypes
<1>2. \A o \in ChatJobs : \A i \in 1..Len(held[o]) :
        chat'[o].pc # "new" /\ chat'[o].sess = chat[o].sess /\ NextObjectOf(held[o][i][1], chat[o].sess) /\ NextAccounted(held[o][i], chat[o].sess)
  <2> TAKE o \in ChatJobs
  <2> TAKE i \in 1..Len(held[o])
  <2>1. held[o][i] \in Line /\ chat[o].sess \in ChatSessions
    BY <1>1, Lines DEF ChatState
  <2>2. chat[o].pc # "new" /\ ObjectOf(held[o][i][1], chat[o].sess) /\ Accounted(held[o][i], chat[o].sess)
    BY DEF ChInv, HeldIsAccounted
  <2>3. chat'[o].pc # "new" /\ chat'[o].sess = chat[o].sess
    BY <2>2, Grows
  <2> QED BY <2>1, <2>2, <2>3, AccountStays
<1>3. CASE held' = held
  <2>1. ASSUME NEW o \in ChatJobs, NEW i \in 1..Len(held'[o])
        PROVE  chat'[o].pc # "new" /\ NextObjectOf(held'[o][i][1], chat'[o].sess) /\ NextAccounted(held'[o][i], chat'[o].sess)
    <3>1. i \in 1..Len(held[o]) /\ held'[o][i] = held[o][i]
      BY <1>3, SMTT(30)
    <3> QED BY <1>2, <3>1
  <2> QED BY <1>1, <1>3, <2>1 DEF HeldIsAccounted, ObjectOf, NextObjectOf, Accounted, NextAccounted
<1>4. CASE held' # held
  <2>1. PICK r \in Roles : held' = [held EXCEPT ![chat[t].obj] = Append(@, <<t, r>>)] /\ NextAccounted(<<t, r>>, chat[t].sess)
                           /\ chat[t].pc # "new"
    BY <1>4
  <2> DEFINE o == chat[t].obj
             m == <<t, r>>
  <2>2. o \in ChatJobs /\ m \in Line /\ m[1] = t
    BY <1>1 DEF ChatState, Line
  <2>3. ObjectOf(o, chat[t].sess) /\ chat'[t].sess = chat[t].sess /\ chat'[t].pc # "new"
    BY <2>1, Grows DEF ChInv, ObjectsMatch
  <2>4. chat[o].pc # "new" /\ chat[o].sess = chat[t].sess /\ chat'[o].pc # "new" /\ chat'[o].sess = chat[t].sess
    BY <2>2, <2>3, Grows, SMTT(30) DEF ObjectOf, NextObjectOf
  <2> HIDE DEF o, m
  <2>5. held' = [held EXCEPT ![o] = Append(held[o], m)] /\ NextAccounted(m, chat[t].sess)
    BY <2>1 DEF o, m
  <2>6. /\ Append(held[o], m) \in Seq(Line) /\ Len(held[o]) \in Nat /\ Len(Append(held[o], m)) = Len(held[o]) + 1
        /\ (\A i \in 1..Len(held[o]) : Append(held[o], m)[i] = held[o][i]) /\ Append(held[o], m)[Len(held[o]) + 1] = m
        /\ \A i \in 1..(Len(held[o]) + 1) : i \in 1..Len(held[o]) \/ i = Len(held[o]) + 1
    BY <1>1, <2>2, Appending
  <2>7. held' \in [ChatJobs -> Seq(Line)] /\ held'[o] = Append(held[o], m) /\ \A q \in ChatJobs \ {o} : held'[q] = held[q]
    BY <1>1, <2>2, <2>5, <2>6
  <2>8. ASSUME NEW q \in ChatJobs, NEW i \in 1..Len(held'[q])
        PROVE  chat'[q].pc # "new" /\ NextObjectOf(held'[q][i][1], chat'[q].sess) /\ NextAccounted(held'[q][i], chat'[q].sess)
    <3>1. CASE q = o /\ i = Len(held[o]) + 1
      <4>1. held'[q][i] = m
        BY <2>6, <2>7, <3>1
      <4>2. NextObjectOf(t, chat[t].sess)
        BY <2>3 DEF ObjectOf, NextObjectOf
      <4> QED BY <2>2, <2>4, <2>5, <3>1, <4>1, <4>2
    <3>2. CASE i \in 1..Len(held[q]) /\ held'[q][i] = held[q][i]
      BY <1>2, <3>2
    <3>3. (q = o /\ i = Len(held[o]) + 1) \/ (i \in 1..Len(held[q]) /\ held'[q][i] = held[q][i])
      BY <2>6, <2>7
    <3> QED BY <3>1, <3>2, <3>3
  <2> QED BY <2>7, <2>8 DEF HeldIsAccounted, ObjectOf, NextObjectOf, Accounted, NextAccounted
<1> QED BY <1>3, <1>4

\* The rows and objects of the others, and those of the task itself if no row is added.
LEMMA RowsStay ==
    ASSUME ChInv, NEW t \in ChatJobs, Onward(t), UNCHANGED chatDb
    PROVE  RowsAreOwn'
<1>1. \A s \in ChatSessions : \A i \in 1..Len(chatDb[s]) : chatDb[s][i][1] \in ChatJobs
  <2>1. \A s \in ChatSessions : chatDb[s] \in Seq(Line)
    BY DEF ChInv, ChTypes
  <2> QED BY <2>1, Lines DEF Line
<1> SUFFICES ASSUME NEW s \in ChatSessions, NEW i \in 1..Len(chatDb[s])
             PROVE  /\ NextAfter(chatDb[s][i][1]) /\ chat'[chatDb[s][i][1]].sess = s
                    /\ chatDb[s][i][2] = "assistant" => chat'[chatDb[s][i][1]].pc = "done"
                    /\ \A j \in 1..Len(chatDb[s]) : chatDb[s][i] = chatDb[s][j] => i = j
  BY DEF RowsAreOwn, After, NextAfter
<1> DEFINE q == chatDb[s][i][1]
<1>2. /\ q \in ChatJobs /\ After(q) /\ chat[q].sess = s /\ (chatDb[s][i][2] = "assistant" => chat[q].pc = "done")
      /\ \A j \in 1..Len(chatDb[s]) : chatDb[s][i] = chatDb[s][j] => i = j
  BY <1>1 DEF ChInv, RowsAreOwn
<1>3. chat[q].pc # "new"
  BY <1>2 DEF After, NextAfter
<1> HIDE DEF q
<1>4. NextAfter(q) /\ chat'[q].sess = s /\ (chat[q].pc = "done" => chat'[q].pc = "done")
  BY <1>2, <1>3, Grows
<1> QED BY <1>2, <1>4 DEF q

LEMMA OthersThere ==
    ASSUME ChInv, NEW t \in ChatJobs, Onward(t), Extends, NEW q \in ChatJobs \ {t}
    PROVE  RowsThere(q)' /\ SaidTrue(q)'
<1>1. chat'[q] = chat[q] /\ q \in ChatJobs
  BY DEF Onward
<1>2. RowsThere(q) /\ SaidTrue(q) /\ chat[q].sess \in ChatSessions
  BY <1>1 DEF ChInv, ChTypes, ChatState
<1>3. dbFailed \subseteq dbFailed' /\ Range(chatDb[chat[q].sess]) \subseteq Range(chatDb'[chat[q].sess])
      /\ \A m, n : Before(chat[q].sess, m, n) => NextBefore(chat[q].sess, m, n)
  BY <1>2, TablesExtend DEF Onward
<1>4. NextAfter(q) <=> After(q)
  BY <1>1 DEF After, NextAfter
<1>5. SaidTrue(q)'
  BY <1>1, <1>2 DEF SaidTrue
<1>6. (chat[q].pc = "done" /\ q \notin dbFailed') => NextBefore(chat'[q].sess, <<q, "user">>, <<q, "assistant">>)
  <2>1. NextBefore(chat[q].sess, <<q, "user">>, <<q, "assistant">>) => NextBefore(chat'[q].sess, <<q, "user">>, <<q, "assistant">>)
    BY <1>1 DEF Before, NextBefore
  <2> QED BY <1>2, <1>3, <2>1 DEF RowsThere
<1>7. RowsThere(q)'
  <2>1. chat[q].pc = "user" => chat[q].dbok
    BY <1>2 DEF RowsThere
  <2>2. (NextAfter(q) /\ ~chat[q].dbok) => q \in dbFailed'
    BY <1>2, <1>3, <1>4 DEF RowsThere
  <2>3. (NextAfter(q) /\ q \notin dbFailed') => <<q, "user">> \in Range(chatDb'[chat[q].sess])
    BY <1>2, <1>3, <1>4 DEF RowsThere
  <2> QED BY <1>1, <1>6, <2>1, <2>2, <2>3 DEF RowsThere, After, NextAfter, Before, NextBefore
<1> QED BY <1>5, <1>7

\* The caches stay what they are when the entries of one are old ones, or one of a
\* session that is being loaded.
LEMMA CachesStay ==
    ASSUME ChInv, NEW t \in ChatJobs, Onward(t), NEW e \in ChatEngines, NEW c, l1' = [l1 EXCEPT ![e] = c], Keyed(c), Len(c) <= CacheSize,
           \A i \in 1..Len(c) : (\E j \in 1..Len(l1[e]) : c[i] = l1[e][j]) \/ NextObjectOf(c[i].obj, c[i].s)
    PROVE  /\ l1' \in [ChatEngines -> Seq(Cached)] /\ CacheShape'
           /\ \A f \in ChatEngines : \A i \in 1..Len(l1'[f]) : NextObjectOf(l1'[f][i].obj, l1'[f][i].s)
<1>1. l1 \in [ChatEngines -> Seq(Cached)] /\ c \in Seq(Cached)
  BY DEF ChInv, ChTypes, Keyed
<1>2. l1' \in [ChatEngines -> Seq(Cached)] /\ l1'[e] = c /\ \A f \in ChatEngines \ {e} : l1'[f] = l1[f]
  BY <1>1
<1>3. CacheShape'
  BY <1>2 DEF ChInv, CacheShape, Keyed
<1>4. \A f \in ChatEngines : \A i \in 1..Len(l1[f]) : NextObjectOf(l1[f][i].obj, l1[f][i].s)
  <2> TAKE f \in ChatEngines
  <2> TAKE i \in 1..Len(l1[f])
  <2>1. l1[f][i].obj \in ChatJobs
    <3>1. l1[f] \in Seq(Cached)
      BY <1>1
    <3>2. l1[f][i] \in Cached
      BY <3>1, ElementOfSeq
    <3> QED BY <3>2 DEF Cached
  <2> QED BY <2>1, Grows DEF ChInv, ObjectsMatch
<1>5. ASSUME NEW f \in ChatEngines, NEW i \in 1..Len(l1'[f]) PROVE NextObjectOf(l1'[f][i].obj, l1'[f][i].s)
  <2>1. CASE f = e
    <3>1. l1'[f][i] = c[i] /\ i \in 1..Len(c)
      BY <1>2, <2>1
    <3>2. CASE \E j \in 1..Len(l1[e]) : c[i] = l1[e][j]
      <4>1. PICK j \in 1..Len(l1[e]) : c[i] = l1[e][j]
        BY <3>2
      <4>2. NextObjectOf(c[i].obj, c[i].s)
        BY <1>4, <4>1
      <4> QED BY <3>1, <4>2 DEF ObjectOf, NextObjectOf
    <3>3. CASE NextObjectOf(c[i].obj, c[i].s)
      BY <3>1, <3>3 DEF ObjectOf, NextObjectOf
    <3> QED BY <3>1, <3>2, <3>3
  <2>2. CASE f # e
    <3>1. l1'[f] = l1[f]
      BY <1>2, <2>2
    <3> QED BY <1>4, <3>1 DEF ObjectOf, NextObjectOf
  <2> QED BY <2>1, <2>2
<1> QED BY <1>2, <1>3, <1>5

----------------------------------------------------------------------------
(* The chat entry: its actions.                                            *)

LEMMA ChatMoves ==
    ASSUME ChInv, NEW t \in ChatJobs, NEW st \in ChatState, chat' = [chat EXCEPT ![t] = st], st.pc # "new", chat[t].pc # "done",
           After(t) => st.pc \in {"run", "reply", "done"}, chat[t].pc # "new" => st.sess = chat[t].sess /\ st.obj = chat[t].obj,
           dbFailed \subseteq dbFailed'
    PROVE  Onward(t) /\ chat'[t] = st
<1>1. chat \in [ChatJobs -> ChatState]
  BY DEF ChInv, ChTypes
<1>2. chat' \in [ChatJobs -> ChatState] /\ chat'[t] = st /\ \A q \in ChatJobs \ {t} : chat'[q] = chat[q]
  BY <1>1
<1> QED BY <1>2 DEF Onward, NextAfter

LEMMA FailsIs ==
    ASSUME ChInv, NEW t \in ChatJobs, Fails(t)
    PROVE  dbFailed' \subseteq ChatJobs /\ IsFiniteSet(dbFailed') /\ Cardinality(dbFailed') <= DbFailures
           /\ dbFailed \subseteq dbFailed' /\ t \in dbFailed'
<1>1. dbFailed \subseteq ChatJobs /\ IsFiniteSet(dbFailed) /\ Cardinality(dbFailed) < DbFailures /\ dbFailed' = dbFailed \union {t}
  BY DEF ChInv, ChTypes, Fails
<1>2. Cardinality(dbFailed) \in Nat /\ DbFailures \in Nat
  BY <1>1, FS_CardinalityType, ChatAssumption
<1>3. IsFiniteSet(dbFailed') /\ Cardinality(dbFailed') \in {Cardinality(dbFailed), Cardinality(dbFailed) + 1}
  BY <1>1, FS_AddElement
<1> QED BY <1>1, <1>2, <1>3

LEMMA MatchStays ==
    ASSUME ChInv, NEW t \in ChatJobs, Onward(t), \A f \in ChatEngines : \A i \in 1..Len(l1'[f]) : NextObjectOf(l1'[f][i].obj, l1'[f][i].s),
           NextObjectOf(chat'[t].obj, chat'[t].sess), chat'[t].pc = "load" => chat'[t].obj = t
    PROVE  ObjectsMatch'
<1>1. ASSUME NEW q \in ChatJobs, chat'[q].pc # "new"
      PROVE  NextObjectOf(chat'[q].obj, chat'[q].sess) /\ (chat'[q].pc = "load" => chat'[q].obj = q)
  <2>1. CASE q = t
    BY <2>1
  <2>2. CASE q # t
    <3>1. chat'[q] = chat[q] /\ chat[q].obj \in ChatJobs
      BY <2>2 DEF Onward, ChInv, ChTypes, ChatState
    <3>2. ObjectOf(chat[q].obj, chat[q].sess) /\ (chat[q].pc = "load" => chat[q].obj = q)
      BY <1>1, <3>1 DEF ChInv, ObjectsMatch
    <3> QED BY <3>1, <3>2, Grows
  <2> QED BY <2>1, <2>2
<1> QED BY <1>1 DEF ObjectsMatch, ObjectOf, NextObjectOf

\* A step of a task that has its session object, and leaves the caches.
LEMMA ChatGoesOn ==
    ASSUME ChInv, NEW t \in ChatJobs, Onward(t), chat[t].pc # "new", chat'[t].pc # "load", l1' = l1, chatRows' \subseteq ChatSessions,
           chatDb' \in [ChatSessions -> Seq(Line)], Extends,
           dbFailed' \subseteq ChatJobs /\ IsFiniteSet(dbFailed') /\ Cardinality(dbFailed') <= DbFailures,
           chat[t].pc = "user" => chat'[t].pc = "user" \/ t \in dbFailed' \/ <<t, "user">> \in Range(chatDb'[chat[t].sess]),
           chat[t].pc = "reply" => chat'[t].pc = "reply" \/ t \in dbFailed' \/ <<t, "assistant">> \in Range(chatDb'[chat[t].sess]),
           \/ held' = held
           \/ \E r \in Roles : /\ held' = [held EXCEPT ![chat[t].obj] = Append(@, <<t, r>>)]
                               /\ NextAccounted(<<t, r>>, chat[t].sess),
           RowsAreOwn', RowsThere(t)', SaidTrue(t)'
    PROVE  ChInv'
<1>1. held' \in [ChatJobs -> Seq(Line)] /\ HeldIsAccounted'
  BY HeldStays
<1>2. ChTypes'
  BY <1>1 DEF Onward, ChInv, ChTypes
<1>3. CacheShape'
  BY DEF ChInv, CacheShape
<1>4. ObjectsMatch'
  <2>1. \A f \in ChatEngines : \A i \in 1..Len(l1'[f]) : NextObjectOf(l1'[f][i].obj, l1'[f][i].s)
    <3> TAKE f \in ChatEngines
    <3> TAKE i \in 1..Len(l1'[f])
    <3>1. l1[f] \in Seq(Cached) /\ i \in 1..Len(l1[f])
      BY DEF ChInv, ChTypes
    <3>2. l1[f][i] \in Cached
      BY <3>1, ElementOfSeq
    <3>3. l1[f][i].obj \in ChatJobs /\ ObjectOf(l1[f][i].obj, l1[f][i].s)
      BY <3>1, <3>2 DEF Cached, ChInv, ObjectsMatch
    <3> QED BY <3>3, Grows
  <2>2. chat[t].obj \in ChatJobs /\ ObjectOf(chat[t].obj, chat[t].sess) /\ chat'[t].obj = chat[t].obj /\ chat'[t].sess = chat[t].sess
    BY DEF ChInv, ChTypes, ChatState, ObjectsMatch, Onward
  <2>3. NextObjectOf(chat'[t].obj, chat'[t].sess)
    BY <2>2, Grows
  <2> QED BY <2>1, <2>3, MatchStays
<1>5. \A q \in ChatJobs : RowsThere(q)' /\ SaidTrue(q)'
  <2> TAKE q \in ChatJobs
  <2>1. CASE q = t
    BY <2>1
  <2>2. CASE q # t
    BY <2>2, OthersThere
  <2> QED BY <2>1, <2>2
<1> QED BY SMTT(30), <1>1, <1>2, <1>3, <1>4, <1>5 DEF ChInv

LEMMA ChatTypes0 ==
    ASSUME ChInv, NEW t \in ChatJobs
    PROVE  /\ chat \in [ChatJobs -> ChatState] /\ chat[t] \in ChatState /\ held \in [ChatJobs -> Seq(Line)]
           /\ chat[t].sess \in ChatSessions /\ chat[t].obj \in ChatJobs /\ chat[t].eng \in ChatEngines
           /\ chatDb \in [ChatSessions -> Seq(Line)] /\ chatRows \subseteq ChatSessions
           /\ dbFailed \subseteq ChatJobs /\ IsFiniteSet(dbFailed) /\ Cardinality(dbFailed) <= DbFailures
           /\ l1 \in [ChatEngines -> Seq(Cached)]
BY DEF ChInv, ChTypes, ChatState

LEMMA ChatParts ==
    ASSUME ChInv, NEW t \in ChatJobs, RunPart(t)
    PROVE  ChInv'
<1>1. PICK ok \in BOOLEAN : chat' = [chat EXCEPT ![t].parts = @ + 1, ![t].worked = @ \/ ok]
  BY DEF RunPart
<1> DEFINE w == chat[t].worked \/ ok
           st == [chat[t] EXCEPT !.parts = @ + 1, !.worked = w]
<1>2. /\ chat[t].pc = "run" /\ chat[t].parts < (IF chat[t].mode = "auto" THEN ChainLength ELSE 1)
      /\ UNCHANGED <<held, l1, chatRows, chatDb, dbFailed>>
  BY DEF RunPart
<1>3. w \in BOOLEAN /\ chat' = [chat EXCEPT ![t].parts = @ + 1, ![t].worked = w]
  BY <1>1, ChatTypes0
<1> HIDE DEF w
<1>4. /\ st \in ChatState /\ st.pc = "run" /\ st.sess = chat[t].sess /\ st.obj = chat[t].obj /\ st.said = chat[t].said
      /\ st.dbok = chat[t].dbok /\ st.parts = chat[t].parts + 1 /\ chat' = [chat EXCEPT ![t] = st]
  <2>1. chat[t].parts + 1 \in 0..ChainLength
    <3>1. chat[t].parts \in 0..ChainLength /\ ChainLength \in Nat \ {0}
      BY ChatTypes0, ChatAssumption DEF ChatState
    <3>2. chat[t].parts < ChainLength \/ chat[t].parts < 1
      BY <1>2
    <3> QED BY <3>1, <3>2
  <2> QED BY <1>2, <1>3, <2>1, ChatTypes0 DEF ChatState
<1> HIDE DEF st
<1>5. Onward(t) /\ chat'[t] = st
  BY <1>2, <1>4, ChatMoves
<1>6. Extends /\ RowsAreOwn'
  BY <1>2, <1>5, RowsStay DEF Extends
<1>7. RowsThere(t)' /\ SaidTrue(t)'
  <2>1. RowsThere(t) /\ SaidTrue(t) /\ chat[t].parts \in Nat
    BY ChatAssumption DEF ChInv, ChTypes, ChatState
  <2>2. chat[t].said \in {"nothing", "success", "failure"}
    BY ChatTypes0 DEF ChatState
  <2> QED BY <1>2, <1>4, <1>5, <2>1, <2>2 DEF RowsThere, SaidTrue, After, Before
<1> QED BY <1>2, <1>4, <1>5, <1>6, <1>7, ChatTypes0, ChatGoesOn

LEMMA ChatEnsured ==
    ASSUME ChInv, NEW t \in ChatJobs, EnsureRow(t)
    PROVE  ChInv'
<1>1. /\ chat[t].pc = "ensure" /\ held' = [held EXCEPT ![chat[t].obj] = Append(@, <<t, "user">>)] /\ UNCHANGED <<l1, chatDb>>
      /\ RowsThere(t) /\ SaidTrue(t)
  BY DEF EnsureRow, Heard, ChInv
<1>2. CASE /\ chatRows' = chatRows \union {chat[t].sess}
           /\ chat' = [chat EXCEPT ![t].pc = "user", ![t].dbok = TRUE] /\ UNCHANGED dbFailed
  <2> DEFINE st == [chat[t] EXCEPT !.pc = "user", !.dbok = TRUE]
  <2>1. /\ st \in ChatState /\ st.pc = "user" /\ st.sess = chat[t].sess /\ st.obj = chat[t].obj /\ st.said = chat[t].said
        /\ st.dbok /\ st.parts = chat[t].parts /\ st.worked = chat[t].worked /\ st.mode = chat[t].mode
        /\ chat' = [chat EXCEPT ![t] = st]
    BY <1>2, ChatTypes0 DEF ChatState
  <2> HIDE DEF st
  <2>2. ~After(t)
    BY <1>1 DEF After
  <2>3. Onward(t) /\ chat'[t] = st
    BY <1>1, <1>2, <2>1, <2>2, ChatMoves
  <2>4. Extends /\ RowsAreOwn'
    BY <1>1, <2>3, RowsStay DEF Extends
  <2>5. NextAccounted(<<t, "user">>, chat[t].sess)
    BY <2>1, <2>3 DEF NextAccounted
  <2>6. RowsThere(t)' /\ SaidTrue(t)'
    BY <1>1, <2>1, <2>3 DEF RowsThere, SaidTrue, After, Before
  <2>7. "user" \in Roles
    BY DEF Roles
  <2> QED BY <1>1, <1>2, <2>1, <2>3, <2>4, <2>5, <2>6, <2>7, ChatTypes0, ChatGoesOn
<1>3. CASE Fails(t) /\ chat' = [chat EXCEPT ![t].pc = "run"] /\ UNCHANGED chatRows
  <2> DEFINE st == [chat[t] EXCEPT !.pc = "run"]
  <2>1. /\ st \in ChatState /\ st.pc = "run" /\ st.sess = chat[t].sess /\ st.obj = chat[t].obj /\ st.said = chat[t].said
        /\ st.dbok = chat[t].dbok /\ st.parts = chat[t].parts /\ st.worked = chat[t].worked /\ st.mode = chat[t].mode
        /\ chat' = [chat EXCEPT ![t] = st]
    BY <1>3, ChatTypes0 DEF ChatState
  <2> HIDE DEF st
  <2>2. ~After(t)
    BY <1>1 DEF After
  <2>3. /\ dbFailed' \subseteq ChatJobs /\ IsFiniteSet(dbFailed') /\ Cardinality(dbFailed') <= DbFailures
        /\ dbFailed \subseteq dbFailed' /\ t \in dbFailed'
    BY <1>3, FailsIs
  <2>4. Onward(t) /\ chat'[t] = st
    BY <1>1, <2>1, <2>2, <2>3, ChatMoves
  <2>5. Extends /\ RowsAreOwn'
    BY <1>1, <2>4, RowsStay DEF Extends
  <2>6. NextAccounted(<<t, "user">>, chat[t].sess)
    BY <2>3 DEF NextAccounted
  <2>7. RowsThere(t)' /\ SaidTrue(t)'
    BY <1>1, <2>1, <2>3, <2>4 DEF RowsThere, SaidTrue, After, Before
  <2>8. "user" \in Roles
    BY DEF Roles
  <2> QED BY <1>1, <1>3, <2>1, <2>3, <2>4, <2>5, <2>6, <2>7, <2>8, ChatTypes0, ChatGoesOn
<1> QED BY <1>2, <1>3 DEF EnsureRow

LEMMA ChatFinished ==
    ASSUME ChInv, NEW t \in ChatJobs, Finish(t)
    PROVE  ChInv'
<1>1. /\ chat[t].pc = "run" /\ held' = [held EXCEPT ![chat[t].obj] = Append(@, <<t, "assistant">>)]
      /\ UNCHANGED <<l1, chatRows, chatDb, dbFailed>> /\ RowsThere(t) /\ SaidTrue(t) /\ chat[t] \in ChatState
  BY ChatTypes0 DEF Finish, Heard, ChInv
<1>2. PICK v \in Verdicts(t) : chat' = [chat EXCEPT ![t].said = v, ![t].pc = IF chat[t].dbok THEN "reply" ELSE "done"]
  BY DEF Finish
<1>3. /\ v \in {"success", "failure"} /\ (v = "success" /\ chat[t].mode = "direct" => chat[t].worked)
      /\ (v = "failure" => ~chat[t].worked)
  <2>1. chat[t].mode \in {"auto", "direct"} /\ chat[t].parts \in 0..ChainLength /\ chat[t].worked \in BOOLEAN
    BY <1>1 DEF ChatState
  <2>2. CASE chat[t].mode = "direct"
    <3>1. Verdicts(t) = {IF chat[t].worked THEN "success" ELSE "failure"}
      BY <2>2 DEF Verdicts
    <3> QED BY <3>1
  <2>3. CASE chat[t].mode = "auto" /\ chat[t].parts > 0
    <3>1. Verdicts(t) = {"success"}
      BY <2>3 DEF Verdicts
    <3> QED BY <2>3, <3>1
  <2>4. CASE chat[t].mode = "auto" /\ ~(chat[t].parts > 0)
    <3>1. Verdicts(t) = {"success", "failure"}
      BY <2>4 DEF Verdicts
    <3>2. chat[t].parts = 0
      BY <2>1, <2>4, ChatAssumption
    <3> QED BY <1>1, <2>4, <3>1, <3>2 DEF SaidTrue
  <2> QED BY <2>1, <2>2, <2>3, <2>4
<1> DEFINE p == IF chat[t].dbok THEN "reply" ELSE "done"
           st == [chat[t] EXCEPT !.said = v, !.pc = p]
<1>4. p \in {"reply", "done"} /\ (chat[t].dbok => p = "reply") /\ chat' = [chat EXCEPT ![t].said = v, ![t].pc = p]
  BY <1>2
<1> HIDE DEF p
<1>5. /\ st \in ChatState /\ st.pc = p /\ st.sess = chat[t].sess /\ st.obj = chat[t].obj /\ st.said = v
      /\ st.dbok = chat[t].dbok /\ st.parts = chat[t].parts /\ st.worked = chat[t].worked /\ st.mode = chat[t].mode
      /\ chat' = [chat EXCEPT ![t] = st]
  BY <1>1, <1>3, <1>4, ChatTypes0 DEF ChatState
<1> HIDE DEF st
<1>6. Onward(t) /\ chat'[t] = st
  BY <1>1, <1>4, <1>5, ChatMoves
<1>7. Extends /\ RowsAreOwn'
  BY <1>1, <1>6, RowsStay DEF Extends
<1>8. After(t) /\ (p = "done" => t \in dbFailed)
  BY <1>1, <1>4 DEF RowsThere, After
<1>9. NextAccounted(<<t, "assistant">>, chat[t].sess)
  BY <1>1, <1>4, <1>5, <1>6, <1>8 DEF NextAccounted
<1>10. RowsThere(t)' /\ SaidTrue(t)'
  <2>1. SaidTrue(t)'
    BY <1>1, <1>3, <1>4, <1>5, <1>6 DEF SaidTrue
  <2>2. RowsThere(t)'
    BY <1>1, <1>4, <1>5, <1>6, <1>8 DEF RowsThere, After
  <2> QED BY <2>1, <2>2
<1>11. "assistant" \in Roles /\ p # "load"
  BY <1>4 DEF Roles
<1> QED BY <1>1, <1>5, <1>6, <1>7, <1>9, <1>10, <1>11, ChatTypes0, ChatGoesOn

\* A row of t is added to the table of its session.
LEMMA RowAdded ==
    ASSUME ChInv, NEW t \in ChatJobs, Onward(t), NEW role \in Roles, Stores(t, role), chat[t].pc # "new", NextAfter(t),
           role = "user" => ~After(t), role = "assistant" => chat[t].pc = "reply" /\ chat'[t].pc = "done"
    PROVE  /\ Extends /\ chatDb' \in [ChatSessions -> Seq(Line)] /\ RowsAreOwn'
           /\ <<t, role>> \in Range(chatDb'[chat[t].sess])
           /\ <<t, "user">> \in Range(chatDb[chat[t].sess]) => NextBefore(chat[t].sess, <<t, "user">>, <<t, role>>)
<1> DEFINE s == chat[t].sess
           m == <<t, role>>
           a == Append(chatDb[s], m)
<1>1. s \in ChatSessions /\ m \in Line /\ chatDb \in [ChatSessions -> Seq(Line)] /\ m[1] = t /\ m[2] = role
      /\ chatDb' = [chatDb EXCEPT ![s] = a] /\ chat'[t].sess = s
  BY ChatTypes0 DEF Line, Stores, Onward
<1> HIDE DEF s, m
<1>2. /\ a \in Seq(Line) /\ Len(chatDb[s]) \in Nat /\ Len(a) = Len(chatDb[s]) + 1
      /\ (\A i \in 1..Len(chatDb[s]) : a[i] = chatDb[s][i]) /\ a[Len(chatDb[s]) + 1] = m
      /\ \A i \in 1..(Len(chatDb[s]) + 1) : i \in 1..Len(chatDb[s]) \/ i = Len(chatDb[s]) + 1
  BY <1>1, Appending
<1>3. Range(chatDb[s]) \subseteq Range(a) /\ m \in Range(a)
  BY <1>1, LineAdded
<1> HIDE DEF a
<1>4. chatDb' \in [ChatSessions -> Seq(Line)] /\ chatDb'[s] = a /\ \A q \in ChatSessions \ {s} : chatDb'[q] = chatDb[q]
  BY <1>1, <1>2
<1>5. Extends
  BY <1>1, <1>4 DEF Extends, a
<1>6. \A i \in 1..Len(chatDb[s]) : chatDb[s][i] # m
  <2> TAKE i \in 1..Len(chatDb[s])
  <2>1. /\ After(chatDb[s][i][1])
        /\ chatDb[s][i][2] = "assistant" => chat[chatDb[s][i][1]].pc = "done"
    BY <1>1 DEF ChInv, RowsAreOwn
  <2>2. role \in {"user", "assistant"}
    BY DEF Roles
  <2> QED BY <1>1, <2>1, <2>2
<1>7. \A q \in ChatSessions : \A i \in 1..Len(chatDb[q]) :
        /\ NextAfter(chatDb[q][i][1]) /\ chat'[chatDb[q][i][1]].sess = q
        /\ chatDb[q][i][2] = "assistant" => chat'[chatDb[q][i][1]].pc = "done"
  <2> TAKE q \in ChatSessions
  <2> TAKE i \in 1..Len(chatDb[q])
  <2> DEFINE o == chatDb[q][i][1]
  <2>1. chatDb[q][i] \in Line
    BY <1>1, Lines
  <2>2. o \in ChatJobs /\ After(o) /\ chat[o].sess = q /\ (chatDb[q][i][2] = "assistant" => chat[o].pc = "done")
    BY <2>1 DEF Line, ChInv, RowsAreOwn
  <2>3. chat[o].pc # "new"
    BY <2>2 DEF After
  <2> HIDE DEF o
  <2>4. NextAfter(o) /\ chat'[o].sess = q /\ (chat[o].pc = "done" => chat'[o].pc = "done")
    BY <2>2, <2>3, Grows
  <2> QED BY <2>2, <2>4 DEF o
<1>8. RowsAreOwn'
  <2>1. ASSUME NEW q \in ChatSessions, NEW i \in 1..Len(chatDb'[q])
        PROVE  /\ NextAfter(chatDb'[q][i][1]) /\ chat'[chatDb'[q][i][1]].sess = q
               /\ chatDb'[q][i][2] = "assistant" => chat'[chatDb'[q][i][1]].pc = "done"
               /\ \A j \in 1..Len(chatDb'[q]) : chatDb'[q][i] = chatDb'[q][j] => i = j
    <3>1. CASE q # s
      <4>1. chatDb'[q] = chatDb[q]
        BY <1>4, <3>1
      <4>2. \A j \in 1..Len(chatDb[q]) : chatDb[q][i] = chatDb[q][j] => i = j
        BY <4>1 DEF ChInv, RowsAreOwn
      <4> QED BY <1>7, <4>1, <4>2
    <3>2. CASE q = s /\ i \in 1..Len(chatDb[s])
      <4>1. chatDb'[q][i] = chatDb[s][i]
        BY <1>2, <1>4, <3>2
      <4>2. \A j \in 1..Len(chatDb[s]) : chatDb[s][i] = chatDb[s][j] => i = j
        BY <1>1, <3>2 DEF ChInv, RowsAreOwn
      <4>3. \A j \in 1..Len(chatDb'[q]) : chatDb'[q][i] = chatDb'[q][j] => i = j
        BY <1>2, <1>4, <1>6, <3>2, <4>1, <4>2
      <4> QED BY <1>1, <1>7, <3>2, <4>1, <4>3
    <3>3. CASE q = s /\ i = Len(chatDb[s]) + 1
      <4>1. chatDb'[q][i] = m
        BY <1>2, <1>4, <3>3
      <4>2. \A j \in 1..Len(chatDb'[q]) : chatDb'[q][i] = chatDb'[q][j] => i = j
        BY <1>2, <1>4, <1>6, <3>3, <4>1
      <4> QED BY <1>1, <3>3, <4>1, <4>2
    <3> QED BY <1>2, <1>4, <3>1, <3>2, <3>3
  <2> QED BY <2>1 DEF RowsAreOwn, After, NextAfter
<1>9. <<t, "user">> \in Range(chatDb[s]) => NextBefore(s, <<t, "user">>, m)
  <2> SUFFICES ASSUME <<t, "user">> \in Range(chatDb[s]) PROVE NextBefore(s, <<t, "user">>, m)
    OBVIOUS
  <2>1. PICK i \in 1..Len(chatDb[s]) : chatDb[s][i] = <<t, "user">>
    BY <1>1, Lines
  <2> DEFINE j == Len(chatDb[s]) + 1
  <2>2. i < j /\ i \in 1..Len(a) /\ j \in 1..Len(a) /\ a[i] = <<t, "user">> /\ a[j] = m
    BY <1>2, <2>1
  <2> HIDE DEF j
  <2> QED BY <1>4, <2>2 DEF NextBefore
<1> QED BY <1>3, <1>4, <1>5, <1>8, <1>9 DEF s, m

LEMMA ChatStoresUser ==
    ASSUME ChInv, NEW t \in ChatJobs, StoreUser(t)
    PROVE  ChInv'
<1> DEFINE st == [chat[t] EXCEPT !.pc = "run"]
<1>1. /\ chat[t].pc = "user" /\ chat' = [chat EXCEPT ![t].pc = "run"] /\ UNCHANGED <<held, l1, chatRows>>
      /\ RowsThere(t) /\ SaidTrue(t) /\ ~After(t) /\ chat[t].dbok
  BY DEF StoreUser, ChInv, RowsThere, After
<1>2. /\ st \in ChatState /\ st.pc = "run" /\ st.sess = chat[t].sess /\ st.obj = chat[t].obj /\ st.said = chat[t].said
      /\ st.dbok = chat[t].dbok /\ st.parts = chat[t].parts /\ st.worked = chat[t].worked /\ st.mode = chat[t].mode
      /\ chat' = [chat EXCEPT ![t] = st]
  BY <1>1, ChatTypes0 DEF ChatState
<1> HIDE DEF st
<1>3. (Stores(t, "user") /\ UNCHANGED dbFailed) \/ (Fails(t) /\ UNCHANGED chatDb)
  BY DEF StoreUser
<1>4. /\ dbFailed' \subseteq ChatJobs /\ IsFiniteSet(dbFailed') /\ Cardinality(dbFailed') <= DbFailures
      /\ dbFailed \subseteq dbFailed' /\ (t \in dbFailed' \/ Stores(t, "user"))
  BY <1>3, FailsIs, ChatTypes0
<1>5. Onward(t) /\ chat'[t] = st
  BY <1>1, <1>2, <1>4, ChatMoves
<1>6. "user" \in Roles /\ NextAfter(t)
  BY <1>2, <1>5 DEF Roles, NextAfter
<1>7. /\ Extends /\ chatDb' \in [ChatSessions -> Seq(Line)] /\ RowsAreOwn'
      /\ t \in dbFailed' \/ <<t, "user">> \in Range(chatDb'[chat[t].sess])
  <2>1. CASE Stores(t, "user")
    BY <1>1, <1>5, <1>6, <2>1, RowAdded
  <2>2. CASE UNCHANGED chatDb /\ Fails(t)
    BY <1>4, <1>5, <2>2, FailsIs, RowsStay, ChatTypes0 DEF Extends
  <2> QED BY <1>3, <2>1, <2>2
<1>8. RowsThere(t)' /\ SaidTrue(t)'
  <2>1. SaidTrue(t)'
    BY <1>1, <1>2, <1>5 DEF SaidTrue
  <2>2. RowsThere(t)'
    BY <1>1, <1>2, <1>5, <1>7 DEF RowsThere, After
  <2> QED BY <2>1, <2>2
<1> QED BY <1>1, <1>2, <1>4, <1>5, <1>7, <1>8, ChatTypes0, ChatGoesOn

LEMMA ChatStoresReply ==
    ASSUME ChInv, NEW t \in ChatJobs, StoreReply(t)
    PROVE  ChInv'
<1> DEFINE st == [chat[t] EXCEPT !.pc = "done"]
<1>1. /\ chat[t].pc = "reply" /\ chat' = [chat EXCEPT ![t].pc = "done"] /\ UNCHANGED <<held, l1, chatRows>>
      /\ RowsThere(t) /\ SaidTrue(t) /\ After(t)
  BY DEF StoreReply, ChInv, After
<1>2. /\ st \in ChatState /\ st.pc = "done" /\ st.sess = chat[t].sess /\ st.obj = chat[t].obj /\ st.said = chat[t].said
      /\ st.dbok = chat[t].dbok /\ st.parts = chat[t].parts /\ st.worked = chat[t].worked /\ st.mode = chat[t].mode
      /\ chat' = [chat EXCEPT ![t] = st]
  BY <1>1, ChatTypes0 DEF ChatState
<1> HIDE DEF st
<1>3. (Stores(t, "assistant") /\ UNCHANGED dbFailed) \/ (Fails(t) /\ UNCHANGED chatDb)
  BY DEF StoreReply
<1>4. /\ dbFailed' \subseteq ChatJobs /\ IsFiniteSet(dbFailed') /\ Cardinality(dbFailed') <= DbFailures
      /\ dbFailed \subseteq dbFailed' /\ (t \in dbFailed' \/ Stores(t, "assistant"))
  BY <1>3, FailsIs, ChatTypes0
<1>5. Onward(t) /\ chat'[t] = st
  BY <1>1, <1>2, <1>4, ChatMoves
<1>6. "assistant" \in Roles /\ NextAfter(t) /\ chat[t].sess \in ChatSessions
  BY <1>2, <1>5, ChatTypes0 DEF Roles, NextAfter
<1>7. t \in dbFailed \/ <<t, "user">> \in Range(chatDb[chat[t].sess])
  BY <1>1 DEF RowsThere
<1>8. /\ Extends /\ chatDb' \in [ChatSessions -> Seq(Line)] /\ RowsAreOwn'
      /\ t \in dbFailed' \/ <<t, "assistant">> \in Range(chatDb'[chat[t].sess])
      /\ t \in dbFailed' \/ NextBefore(chat[t].sess, <<t, "user">>, <<t, "assistant">>)
  <2>1. CASE Stores(t, "assistant")
    <3>1. /\ Extends /\ chatDb' \in [ChatSessions -> Seq(Line)] /\ RowsAreOwn'
          /\ <<t, "assistant">> \in Range(chatDb'[chat[t].sess])
          /\ <<t, "user">> \in Range(chatDb[chat[t].sess]) => NextBefore(chat[t].sess, <<t, "user">>, <<t, "assistant">>)
      BY <1>1, <1>2, <1>5, <1>6, <2>1, RowAdded
    <3> QED BY <1>4, <1>7, <3>1
  <2>2. CASE UNCHANGED chatDb /\ Fails(t)
    BY <1>4, <1>5, <2>2, FailsIs, RowsStay, ChatTypes0 DEF Extends
  <2> QED BY <1>3, <2>1, <2>2
<1>9. Range(chatDb[chat[t].sess]) \subseteq Range(chatDb'[chat[t].sess])
  BY <1>6, <1>8, TablesExtend
<1>10. RowsThere(t)' /\ SaidTrue(t)'
  <2>1. SaidTrue(t)'
    BY <1>1, <1>2, <1>5 DEF SaidTrue
  <2>2. (~chat'[t].dbok) => t \in dbFailed'
    BY <1>1, <1>2, <1>4, <1>5 DEF RowsThere
  <2>3. t \notin dbFailed' => <<t, "user">> \in Range(chatDb'[chat[t].sess])
    BY SMTT(30), <1>4, <1>7, <1>9
  <2>4. RowsThere(t)'
    BY <1>2, <1>5, <1>8, <2>2, <2>3 DEF RowsThere, Before, NextBefore
  <2> QED BY <2>1, <2>4
<1> QED BY <1>1, <1>2, <1>4, <1>5, <1>8, <1>10, ChatTypes0, ChatGoesOn

\* A step that changes a cache, of a task whose object is one of its session then.
LEMMA ChatCaches ==
    ASSUME ChInv, NEW t \in ChatJobs, Onward(t), chat[t].pc \in {"new", "load"}, UNCHANGED <<held, chatRows, chatDb, dbFailed>>,
           chat'[t].pc \in {"load", "ensure"}, chat'[t].parts = chat[t].parts, chat'[t].worked = chat[t].worked,
           chat'[t].said = chat[t].said,
           NextObjectOf(chat'[t].obj, chat'[t].sess), chat'[t].pc = "load" => chat'[t].obj = t,
           l1' \in [ChatEngines -> Seq(Cached)], CacheShape',
           \A f \in ChatEngines : \A i \in 1..Len(l1'[f]) : NextObjectOf(l1'[f][i].obj, l1'[f][i].s)
    PROVE  ChInv'
<1>1. Extends
  BY DEF Extends
<1>2. held' \in [ChatJobs -> Seq(Line)] /\ HeldIsAccounted'
  BY <1>1, HeldStays
<1>3. ChTypes'
  BY <1>2 DEF Onward, ChInv, ChTypes
<1>4. ObjectsMatch' /\ RowsAreOwn'
  BY MatchStays, RowsStay
<1>5. RowsThere(t)' /\ SaidTrue(t)'
  <2>1. SaidTrue(t)
    BY DEF ChInv
  <2> QED BY <2>1 DEF RowsThere, SaidTrue, After
<1>6. \A q \in ChatJobs : RowsThere(q)' /\ SaidTrue(q)'
  <2> TAKE q \in ChatJobs
  <2>1. CASE q = t
    BY <1>5, <2>1
  <2>2. CASE q # t
    BY <1>1, <2>2, OthersThere
  <2> QED BY <2>1, <2>2
<1> QED BY <1>2, <1>3, <1>4, <1>6 DEF ChInv

LEMMA CacheIs ==
    ASSUME ChInv, NEW e \in ChatEngines
    PROVE  Keyed(l1[e]) /\ Len(l1[e]) <= CacheSize /\ \A i \in 1..Len(l1[e]) : l1[e][i] \in Cached
<1>1. l1[e] \in Seq(Cached)
  BY DEF ChInv, ChTypes
<1> QED BY <1>1, ElementOfSeq DEF Keyed, ChInv, CacheShape

LEMMA ChatSubmitted ==
    ASSUME ChInv, NEW t \in ChatJobs, SubmitChat(t)
    PROVE  ChInv'
<1>1. PICK e \in ChatEngines, s \in ChatSessions, mode \in {"auto", "direct"} :
        /\ chat' = [chat EXCEPT ![t].eng = e, ![t].sess = s, ![t].mode = mode,
                        ![t].pc = IF Places(l1[e], s) = {} THEN "load" ELSE "ensure",
                        ![t].obj = IF Places(l1[e], s) = {} THEN t ELSE l1[e][PlaceIn(l1[e], s)].obj]
        /\ l1' = [l1 EXCEPT ![e] = Touched(@, s)]
  BY DEF SubmitChat
<1> DEFINE none == Places(l1[e], s) = {}
           p == IF none THEN "load" ELSE "ensure"
           x == l1[e][PlaceIn(l1[e], s)]
           o == IF none THEN t ELSE x.obj
           st == [chat[t] EXCEPT !.eng = e, !.sess = s, !.mode = mode, !.pc = p, !.obj = o]
           c == Touched(l1[e], s)
<1>2. chat[t].pc = "new" /\ UNCHANGED <<held, chatRows, chatDb, dbFailed>>
  BY DEF SubmitChat
<1>3. /\ chat' = [chat EXCEPT ![t].eng = e, ![t].sess = s, ![t].mode = mode, ![t].pc = p, ![t].obj = o]
      /\ l1' = [l1 EXCEPT ![e] = c]
  BY <1>1
<1>4. Keyed(l1[e]) /\ Len(l1[e]) <= CacheSize /\ \A i \in 1..Len(l1[e]) : l1[e][i] \in Cached
  BY CacheIs
<1>5. Keyed(c) /\ Within(c, l1[e]) /\ Len(c) <= CacheSize
  BY <1>4, TouchedIs
<1>6. ~none => PlaceIn(l1[e], s) \in 1..Len(l1[e]) /\ x.s = s
  BY <1>4, WithoutIs
<1>7. ~none => x \in Cached /\ x.s = s /\ ObjectOf(x.obj, x.s)
  BY <1>4, <1>6 DEF ChInv, ObjectsMatch
<1>8. o \in ChatJobs /\ p \in {"load", "ensure"} /\ (p = "load" => o = t) /\ (o = t \/ ObjectOf(o, s))
  BY <1>7 DEF Cached
<1> HIDE DEF c, x, o, p, none
<1>9. /\ st \in ChatState /\ st.pc = p /\ st.sess = s /\ st.obj = o /\ st.said = chat[t].said
      /\ st.parts = chat[t].parts /\ st.worked = chat[t].worked /\ chat' = [chat EXCEPT ![t] = st]
  BY <1>2, <1>3, <1>8, ChatTypes0 DEF ChatState
<1> HIDE DEF st
<1>10. Onward(t) /\ chat'[t] = st
  <2>1. ~After(t) /\ dbFailed \subseteq dbFailed'
    BY <1>2 DEF After
  <2> QED BY <1>2, <1>8, <1>9, <2>1, ChatMoves
<1>11. NextObjectOf(o, s)
  <2>1. CASE o = t
    BY <1>8, <1>9, <1>10, <2>1 DEF NextObjectOf
  <2>2. CASE ObjectOf(o, s)
    BY <1>8, <1>10, <2>2, Grows
  <2> QED BY <1>8, <2>1, <2>2
<1>12. \A i \in 1..Len(c) : \E j \in 1..Len(l1[e]) : c[i] = l1[e][j]
  BY <1>5 DEF Within
<1>13. /\ l1' \in [ChatEngines -> Seq(Cached)] /\ CacheShape'
       /\ \A f \in ChatEngines : \A i \in 1..Len(l1'[f]) : NextObjectOf(l1'[f][i].obj, l1'[f][i].s)
  BY <1>3, <1>5, <1>10, <1>12, CachesStay
<1> QED BY SMTT(30), <1>2, <1>8, <1>9, <1>10, <1>11, <1>13, ChatCaches

WithAt(cache, p, x) == SubSeq(cache, 1, p) \o <<x>> \o SubSeq(cache, p + 1, Len(cache))

LEMMA WithAtIs ==
    ASSUME NEW cache, NEW x, NEW p, Keyed(cache), x \in Cached, p \in 0..Len(cache), \A i \in 1..Len(cache) : cache[i].s # x.s
    PROVE  Keyed(WithAt(cache, p, x))
           /\ \A i \in 1..Len(WithAt(cache, p, x)) : WithAt(cache, p, x)[i] = x \/ \E j \in 1..Len(cache) : WithAt(cache, p, x)[i] = cache[j]
<1> DEFINE n == SubSeq(cache, 1, p) \o <<x>> \o SubSeq(cache, p + 1, Len(cache))
<1>1. Keyed(n) /\ \A i \in 1..Len(n) : n[i] = x \/ \E j \in 1..Len(cache) : n[i] = cache[j]
  BY InsertedIs
<1>2. WithAt(cache, p, x) = n
  BY DEF WithAt
<1> HIDE DEF n
<1> QED BY <1>1, <1>2

LEMMA ChatLoaded ==
    ASSUME ChInv, NEW t \in ChatJobs, LoadSession(t)
    PROVE  ChInv'
<1> DEFINE e == chat[t].eng
           s == chat[t].sess
           old == l1[e]
           rest == Without(old, s)
           new == [s |-> s, obj |-> t]
           st == [chat[t] EXCEPT !.pc = "ensure"]
<1>1. chat[t].pc = "load" /\ chat' = [chat EXCEPT ![t].pc = "ensure"] /\ UNCHANGED <<held, chatRows, chatDb, dbFailed>>
  BY DEF LoadSession
<1>2. PICK p \in (IF s \in chatRows THEN 0..Len(rest) ELSE {0}) : l1' = [l1 EXCEPT ![e] = Touched(Evicted(WithAt(rest, p, new)), s)]
  BY DEF LoadSession, WithAt
<1>3. e \in ChatEngines /\ s \in ChatSessions /\ new \in Cached /\ new.s = s /\ new.obj = t
  BY ChatTypes0 DEF Cached
<1>4. Keyed(old)
  BY <1>3, CacheIs
<1>5. Keyed(rest) /\ Within(rest, old) /\ \A i \in 1..Len(rest) : rest[i].s # s
  BY <1>4, WithoutIs
<1>6. p \in 0..Len(rest)
  <2>1. Len(rest) \in Nat
    BY <1>5, LenProperties DEF Keyed
  <2> QED BY <1>2, <2>1
<1>7. /\ st \in ChatState /\ st.pc = "ensure" /\ st.sess = s /\ st.obj = chat[t].obj /\ st.said = chat[t].said
      /\ st.parts = chat[t].parts /\ st.worked = chat[t].worked /\ chat' = [chat EXCEPT ![t] = st]
  BY <1>1, ChatTypes0 DEF ChatState
<1> HIDE DEF st
<1>8. Onward(t) /\ chat'[t] = st
  <2>1. ~After(t) /\ dbFailed \subseteq dbFailed'
    BY <1>1 DEF After
  <2> QED BY <1>1, <1>7, <2>1, ChatMoves
<1>9. NextObjectOf(t, s)
  BY <1>7, <1>8 DEF NextObjectOf
<1> DEFINE a == WithAt(rest, p, new)
           b == Evicted(a)
           c == Touched(b, s)
<1> HIDE DEF new, rest
<1>10. Keyed(a) /\ \A i \in 1..Len(a) : a[i] = new \/ \E j \in 1..Len(rest) : a[i] = rest[j]
  <2>1. \A i \in 1..Len(rest) : rest[i].s # new.s
    BY <1>3, <1>5
  <2> QED BY <1>3, <1>5, <1>6, <2>1, WithAtIs
<1>11. l1' = [l1 EXCEPT ![e] = c]
  BY <1>2
<1> HIDE DEF a, old
<1>12. Keyed(b) /\ Within(b, a) /\ Len(b) <= CacheSize
  BY <1>10, EvictedIs
<1> HIDE DEF b
<1>13. Keyed(c) /\ Within(c, b) /\ Len(c) <= CacheSize
  BY <1>12, TouchedIs
<1> HIDE DEF c
<1>14. \A i \in 1..Len(c) : c[i] = new \/ \E j \in 1..Len(old) : c[i] = old[j]
  <2> TAKE i \in 1..Len(c)
  <2>1. PICK j \in 1..Len(b) : c[i] = b[j]
    BY <1>13 DEF Within
  <2>2. PICK k \in 1..Len(a) : b[j] = a[k]
    BY <1>12 DEF Within
  <2>3. a[k] = new \/ \E l \in 1..Len(rest) : a[k] = rest[l]
    BY <1>10
  <2>4. CASE \E l \in 1..Len(rest) : a[k] = rest[l]
    <3>1. PICK l \in 1..Len(rest) : a[k] = rest[l]
      BY <2>4
    <3>2. \E n \in 1..Len(old) : rest[l] = old[n]
      BY <1>5 DEF Within
    <3> QED BY <2>1, <2>2, <3>1, <3>2
  <2> QED BY <2>1, <2>2, <2>3, <2>4
<1>15. \A i \in 1..Len(c) : (\E j \in 1..Len(l1[e]) : c[i] = l1[e][j]) \/ NextObjectOf(c[i].obj, c[i].s)
  BY <1>3, <1>9, <1>14 DEF old
<1>16. /\ l1' \in [ChatEngines -> Seq(Cached)] /\ CacheShape'
       /\ \A f \in ChatEngines : \A i \in 1..Len(l1'[f]) : NextObjectOf(l1'[f][i].obj, l1'[f][i].s)
  BY <1>3, <1>8, <1>11, <1>13, <1>15, CachesStay
<1>17. chat[t].obj = t
  BY <1>1 DEF ChInv, ObjectsMatch
<1> QED BY <1>1, <1>7, <1>8, <1>9, <1>16, <1>17, ChatCaches

LEMMA ChatRead ==
    ASSUME ChInv, NEW e \in ChatEngines, NEW s \in ChatSessions, ReadMessages(e, s)
    PROVE  ChInv'
<1> DEFINE all == chatDb[s]
           k == IF Len(all) < ReadLimit THEN Len(all) ELSE ReadLimit
           rows == SubSeq(all, 1, k)
           x == l1[e][PlaceIn(l1[e], s)]
           o == x.obj
<1>1. /\ Places(l1[e], s) # {} /\ held' = [held EXCEPT ![o] = rows]
      /\ UNCHANGED <<chat, l1, chatRows, chatDb, dbFailed>>
  BY DEF ReadMessages, RowsOf
<1>2. PlaceIn(l1[e], s) \in 1..Len(l1[e]) /\ x.s = s
  BY <1>1, CacheIs, WithoutIs
<1>3. x \in Cached /\ ObjectOf(x.obj, x.s)
  BY <1>2, CacheIs DEF ChInv, ObjectsMatch
<1>4. o \in ChatJobs /\ chat[o].pc # "new" /\ chat[o].sess = s
  BY <1>2, <1>3 DEF Cached, ObjectOf
<1>5. all \in Seq(Line) /\ Len(all) \in Nat /\ held \in [ChatJobs -> Seq(Line)]
  BY LenProperties DEF ChInv, ChTypes
<1>6. rows \in Seq(Line) /\ \A i \in 1..Len(rows) : i \in 1..Len(all) /\ rows[i] = all[i]
  <2>1. k \in Nat /\ k <= Len(all)
    BY <1>5, ChatAssumption
  <2> HIDE DEF k, all
  <2>2. \A i \in 1..k : all[i] \in Line
    BY <1>5, <2>1, ElementOfSeq
  <2>3. /\ rows \in Seq(Line) /\ Len(rows) = IF 1 <= k THEN k - 1 + 1 ELSE 0
        /\ \A i \in 1..(k - 1 + 1) : rows[i] = all[1 + i - 1]
    BY <1>5, <2>1, <2>2, SubSeqProperties
  <2> HIDE DEF rows
  <2> QED BY <1>5, <2>1, <2>3
<1> HIDE DEF rows, k, o, x
<1>7. held' \in [ChatJobs -> Seq(Line)] /\ held'[o] = rows /\ \A q \in ChatJobs \ {o} : held'[q] = held[q]
  BY <1>1, <1>4, <1>5, <1>6
<1>8. HeldIsAccounted'
  <2>1. ASSUME NEW q \in ChatJobs, NEW i \in 1..Len(held'[q])
        PROVE  chat[q].pc # "new" /\ ObjectOf(held'[q][i][1], chat[q].sess) /\ NextAccounted(held'[q][i], chat[q].sess)
    <3>1. CASE q = o
      <4>1. held'[q][i] = all[i] /\ i \in 1..Len(all)
        BY <1>6, <1>7, <3>1
      <4>2. all[i] \in Range(all) /\ After(all[i][1]) /\ chat[all[i][1]].sess = s
        BY <1>5, <4>1, Lines DEF ChInv, RowsAreOwn
      <4>3. ObjectOf(all[i][1], s)
        BY <4>2 DEF ObjectOf, After
      <4>4. NextAccounted(all[i], s)
        BY <1>1, <4>2 DEF NextAccounted
      <4> HIDE DEF all
      <4> QED BY <1>4, <3>1, <4>1, <4>3, <4>4
    <3>2. CASE q # o
      <4>1. held'[q] = held[q]
        BY <1>7, <3>2
      <4>2. chat[q].pc # "new" /\ ObjectOf(held[q][i][1], chat[q].sess) /\ Accounted(held[q][i], chat[q].sess)
        BY <4>1 DEF ChInv, HeldIsAccounted
      <4>3. NextAccounted(held[q][i], chat[q].sess)
        BY <1>1, <4>2 DEF Accounted, NextAccounted
      <4> QED BY <4>1, <4>2, <4>3
    <3> QED BY <3>1, <3>2
  <2> QED BY <1>1, <2>1 DEF HeldIsAccounted, ObjectOf, Accounted, NextAccounted
<1>9. ChTypes' /\ CacheShape' /\ ObjectsMatch' /\ RowsAreOwn'
  BY <1>1, <1>7 DEF ChInv, ChTypes, CacheShape, ObjectsMatch, ObjectOf, RowsAreOwn, After
<1>10. \A q \in ChatJobs : RowsThere(q)' /\ SaidTrue(q)'
  BY <1>1 DEF ChInv, RowsThere, SaidTrue, After, Before
<1> QED BY <1>8, <1>9, <1>10 DEF ChInv

LEMMA ChatStart == ChInit => ChInv
<1> SUFFICES ASSUME ChInit PROVE ChInv
  OBVIOUS
<1>1. <<>> \in Seq(Line) /\ <<>> \in Seq(Cached) /\ Len(<<>>) = 0
  BY EmptySeq
<1>2. /\ \A t \in ChatJobs : chat[t] \in ChatState /\ chat[t].pc = "new" /\ chat[t].said = "nothing" /\ ~chat[t].worked
      /\ \A t \in ChatJobs : held[t] = <<>>
      /\ \A e \in ChatEngines : l1[e] = <<>>
      /\ \A s \in ChatSessions : chatDb[s] = <<>>
  BY ChatAssumption DEF ChInit, ChatState
<1>3. dbFailed = {} /\ IsFiniteSet(dbFailed) /\ Cardinality(dbFailed) = 0
  BY FS_EmptySet DEF ChInit
<1>4. ChTypes
  BY <1>1, <1>2, <1>3, ChatAssumption DEF ChTypes, ChInit
<1>5. CacheShape /\ ObjectsMatch /\ HeldIsAccounted /\ RowsAreOwn
  BY <1>1, <1>2, ChatAssumption DEF CacheShape, ObjectsMatch, HeldIsAccounted, RowsAreOwn
<1>6. \A t \in ChatJobs : RowsThere(t) /\ SaidTrue(t)
  BY <1>2 DEF RowsThere, SaidTrue, After
<1> QED BY <1>4, <1>5, <1>6 DEF ChInv

LEMMA ChatStutter == ChInv /\ UNCHANGED chVars => ChInv'
<1> SUFFICES ASSUME ChInv, UNCHANGED chVars PROVE ChInv'
  OBVIOUS
<1>1. ChTypes' /\ CacheShape' /\ ObjectsMatch' /\ RowsAreOwn'
  BY DEF chVars, ChInv, ChTypes, CacheShape, ObjectsMatch, ObjectOf, RowsAreOwn, After
<1>2. HeldIsAccounted'
  BY DEF chVars, ChInv, HeldIsAccounted, ObjectOf, Accounted
<1>3. \A q \in ChatJobs : RowsThere(q)' /\ SaidTrue(q)'
  BY DEF chVars, ChInv, RowsThere, SaidTrue, After, Before
<1> QED BY <1>1, <1>2, <1>3 DEF ChInv

LEMMA ChatSteps ==
    ASSUME ChInv, ChNext
    PROVE  ChInv'
<1>1. CASE \E t \in ChatJobs : SubmitChat(t) \/ ChatStep(t)
  <2>1. PICK t \in ChatJobs : SubmitChat(t) \/ ChatStep(t)
    BY <1>1
  <2>2. \/ SubmitChat(t) \/ LoadSession(t) \/ EnsureRow(t) \/ StoreUser(t) \/ RunPart(t) \/ Finish(t) \/ StoreReply(t)
    BY <2>1 DEF ChatStep
  <2> QED BY <2>2, ChatSubmitted, ChatLoaded, ChatEnsured, ChatStoresUser, ChatParts, ChatFinished, ChatStoresReply
<1>2. CASE \E e \in ChatEngines, s \in ChatSessions : ReadMessages(e, s)
  BY <1>2, ChatRead
<1> QED BY <1>1, <1>2 DEF ChNext

LEMMA ChatHolds == ChInv => ConversationsKept
<1> SUFFICES ASSUME ChInv PROVE ConversationsKept
  OBVIOUS
<1>1. \A s \in ChatSessions : chatDb[s] \in Seq(Line)
  BY DEF ChInv, ChTypes
<1>2. ChTypeOK
  <2>1. \A s \in ChatSessions : Range(chatDb[s]) \subseteq ChatJobs \X {"user", "assistant"}
    <3> SUFFICES ASSUME NEW s \in ChatSessions, NEW m \in Range(chatDb[s]) PROVE m \in ChatJobs \X {"user", "assistant"}
      OBVIOUS
    <3>1. PICK i \in 1..Len(chatDb[s]) : chatDb[s][i] = m
      BY <1>1, Lines
    <3> QED BY <1>1, <3>1, Lines DEF Line, Roles
  <2>2. \A t \in ChatJobs : chat[t] \in ChatState
    BY ChatTypes0
  <2> QED BY <2>1, <2>2 DEF ChTypeOK, ChInv, ChTypes, CacheShape, ChatState
<1>3. ConversationsStored
  <2>1. ASSUME NEW t \in ChatJobs, NEW s \in ChatSessions, NEW r \in {"user", "assistant"}
        PROVE  Cardinality({i \in 1..Len(chatDb[s]) : chatDb[s][i] = <<t, r>>}) <= (IF s = chat[t].sess THEN 1 ELSE 0)
    <3> DEFINE T == {i \in 1..Len(chatDb[s]) : chatDb[s][i] = <<t, r>>}
    <3>1. CASE T = {}
      <4>1. Cardinality(T) = 0
        BY <3>1, FS_EmptySet
      <4> QED BY <4>1
    <3>2. CASE T # {}
      <4>1. PICK i \in T : TRUE
        BY <3>2
      <4>2. i \in 1..Len(chatDb[s]) /\ chatDb[s][i] = <<t, r>> /\ chatDb[s][i][1] = t
        BY <4>1
      <4>3. \A j \in 1..Len(chatDb[s]) : chatDb[s][i] = chatDb[s][j] => i = j
        BY <4>2 DEF ChInv, RowsAreOwn
      <4>4. T = {i}
        BY <4>2, <4>3
      <4>5. chat[t].sess = s
        BY <4>2 DEF ChInv, RowsAreOwn
      <4>6. Cardinality(T) = 1
        BY <4>4, One
      <4> QED BY <4>5, <4>6
    <3> QED BY <3>1, <3>2
  <2>2. ASSUME NEW t \in ChatJobs, chat[t].pc = "done", t \notin dbFailed
        PROVE  Before(chat[t].sess, <<t, "user">>, <<t, "assistant">>)
    BY <2>2 DEF ChInv, RowsThere
  <2> QED BY <2>1, <2>2 DEF ConversationsStored
<1>4. CachesHoldHistory
  <2> SUFFICES ASSUME dbFailed = {}, \A t \in ChatJobs : chat[t].pc \in {"new", "done"},
                      NEW e \in ChatEngines, NEW i \in 1..Len(l1[e]), NEW m \in Range(held[l1[e][i].obj])
               PROVE  m \in Range(chatDb[l1[e][i].s])
    BY DEF CachesHoldHistory
  <2> DEFINE o == l1[e][i].obj
  <2>1. l1[e][i] \in Cached /\ ObjectOf(o, l1[e][i].s)
    BY CacheIs DEF ChInv, ObjectsMatch
  <2>2. o \in ChatJobs /\ chat[o].sess = l1[e][i].s
    BY <2>1 DEF Cached, ObjectOf
  <2>3. held[o] \in Seq(Line)
    BY <2>2 DEF ChInv, ChTypes
  <2>4. PICK k \in 1..Len(held[o]) : held[o][k] = m
    BY <2>3, Lines
  <2>5. m \in Line
    BY <2>3, <2>4, Lines
  <2>6. Accounted(m, chat[o].sess)
    BY <2>2, <2>4 DEF ChInv, HeldIsAccounted
  <2>7. chat[m[1]].pc \notin {"user", "reply"}
    BY <2>5 DEF Line
  <2> QED BY <2>2, <2>6, <2>7 DEF Accounted
<1>5. FailuresAreLoud
  BY DEF ChInv, SaidTrue, FailuresAreLoud
<1> QED BY <1>2, <1>3, <1>4, <1>5 DEF ConversationsKept

LEMMA ChatTogether == ChInv /\ [Next]_mcVars => ChInv'
<1> SUFFICES ASSUME ChInv, [Next]_mcVars PROVE ChInv'
  OBVIOUS
<1>1. ChNext \/ UNCHANGED chVars
  <2>1. CASE UNCHANGED mcVars
    BY <2>1 DEF mcVars
  <2>2. CASE Next
    BY <2>2, Zenon DEF Next
  <2> QED BY <2>1, <2>2
<1> QED BY <1>1, ChatSteps, ChatStutter

\* A conversation survives its caches and its failures: each task that ends without a
\* failed statement has its question and then its answer in the table of its session,
\* once; a cache of a quiet system holds nothing the table has not; and a task that
\* failed says so: for any number of engines, sessions and tasks and any size of cache.
THEOREM ConversationsStayKept == Spec => []ConversationsKept
<1>1. Init => ChInv
  BY ChatStart DEF Init
<1> QED BY <1>1, ChatTogether, ChatHolds, PTL DEF Spec, mcVars
\* The bus in memory: the log is the end of all that was sent, and what a publish has
\* passed over of its steady callbacks is no more than the list has slid under it.
NoTenant == CHOOSE t \in BusTenants : TRUE
NoProc == CHOOSE p \in BusProcs : TRUE
SentTypes ==
    /\ sent \in [BusMessages -> [pc: {"new", "calling", "added", "stored", "told", "done"}, at: Nat \ {0}, over: SUBSET BusMessages,
                                 tenant: BusTenants \union {NoTenant}, proc: BusProcs \union {Elsewhere, NoProc}]]
    /\ everSent \in Seq(BusMessages)
    /\ \A i \in 1..Len(everSent) : sent[everSent[i]].pc # "new"
MemTypes ==
    /\ subs \in Seq(Callbacks) /\ (\A i, j \in 1..Len(subs) : subs[i] = subs[j] => i = j)
    /\ busLog \in Seq(BusMessages) /\ leaves \in Nat
    /\ heard \in [BusMessages -> [Callbacks -> Nat]]
    /\ steady \in [BusMessages -> SUBSET Callbacks] /\ slid \in [BusMessages -> Nat]
LogIsTheEnd ==
    /\ Len(busLog) <= BusLog /\ Len(busLog) <= Len(everSent)
    /\ \A i \in 1..Len(busLog) : busLog[i] = everSent[Len(everSent) - Len(busLog) + i]
Passed(m, c) == \E i \in 1..Len(subs) : i < sent[m].at /\ subs[i] = c
Missed(m) == {c \in steady[m] : heard[m][c] = 0 /\ (sent[m].pc = "calling" => Passed(m, c))}
Publishing(m) ==
    /\ sent[m].pc \in {"new", "calling", "done"}
    /\ steady[m] \subseteq Range(subs)
    /\ sent[m].pc = "new" => steady[m] = {} /\ sent[m].at = 1 /\ heard[m] = [c \in Callbacks |-> 0]
    /\ \A c \in steady[m] : heard[m][c] <= 1 /\ (sent[m].pc = "calling" /\ heard[m][c] = 1 => Passed(m, c))
    /\ Cardinality(Missed(m)) <= slid[m]
MemInv == SentTypes /\ MemTypes /\ LogIsTheEnd /\ \A m \in BusMessages : Publishing(m)
MemIdle ==
    /\ subs = <<>> /\ busLog = <<>> /\ leaves = 0 /\ heard = [m \in BusMessages |-> [c \in Callbacks |-> 0]]
    /\ steady = [m \in BusMessages |-> {}] /\ slid = [m \in BusMessages |-> 0]

\* The bus over Redis: a stream is its tenant's share of all that was sent, a snapshot
\* is behind it by what overlapped and by what has no snapshot yet, and a message on
\* the wire was not heard yet, on a channel that was asked for.
RedisTypes ==
    /\ stream \in [BusTenants -> Seq(BusMessages)] /\ snapshot \in [BusTenants -> BusMessages \union {NoMessage}]
    /\ channels \in [BusProcs -> SUBSET BusChannels] /\ tuned \in [BusProcs -> SUBSET BusChannels]
    /\ asked \in [BusProcs -> SUBSET BusChannels]
    /\ wired \in [BusProcs -> Seq(BusMessages)] /\ cbs \in [BusProcs -> Nat]
    /\ rheard \in [BusMessages -> [BusProcs -> [local: Nat, wire: Nat]]]
SentShape == \A m \in BusMessages :
    /\ sent[m].pc \in {"new", "added", "stored", "told", "done"}
    /\ sent[m].pc # "new" => sent[m].tenant \in BusTenants /\ sent[m].proc \in BusProcs \union {Elsewhere}
StreamsShare == \A t \in BusTenants :
    /\ stream[t] = OfTenant(everSent, t)
    /\ \A i \in 1..Len(stream[t]) : sent[stream[t][i]].pc # "new" /\ sent[stream[t][i]].tenant = t
SnapshotsFollow == \A t \in BusTenants :
    IF snapshot[t] = NoMessage THEN \A i \in 1..Len(stream[t]) : sent[stream[t][i]].pc = "added"
    ELSE /\ sent[snapshot[t]].pc \notin {"new", "added"}
         /\ \A i, j \in 1..Len(stream[t]) : (i < j /\ stream[t][i] = snapshot[t]) =>
                stream[t][j] \in sent[snapshot[t]].over \/ sent[stream[t][j]].pc = "added"
ChannelsAsked == \A p \in BusProcs : channels[p] \subseteq asked[p] /\ tuned[p] \subseteq asked[p]
WiresAreNew == \A p \in BusProcs :
    /\ \A i, j \in 1..Len(wired[p]) : wired[p][i] = wired[p][j] => i = j
    /\ \A i \in 1..Len(wired[p]) : LET m == wired[p][i] IN
        sent[m].pc \in {"told", "done"} /\ rheard[m][p].wire = 0 /\ sent[m].tenant \in asked[p]
HeardOnce == \A m \in BusMessages, p \in BusProcs :
    /\ rheard[m][p].wire # 0 => rheard[m][p].wire = 1 /\ sent[m].pc \in {"told", "done"} /\ sent[m].tenant \in asked[p]
    /\ rheard[m][p].local # 0 => rheard[m][p].local = 1 /\ sent[m].pc = "done" /\ p = sent[m].proc
RedisInv ==
    SentTypes /\ RedisTypes /\ SentShape /\ StreamsShare /\ SnapshotsFollow /\ ChannelsAsked /\ WiresAreNew /\ HeardOnce
RedisIdle ==
    /\ stream = [t \in BusTenants |-> <<>>] /\ snapshot = [t \in BusTenants |-> NoMessage]
    /\ cbs = [p \in BusProcs |-> 0] /\ asked = [p \in BusProcs |-> {}]
    /\ channels = [p \in BusProcs |-> {}] /\ tuned = [p \in BusProcs |-> {}] /\ wired = [p \in BusProcs |-> <<>>]
    /\ rheard = [m \in BusMessages |-> [p \in BusProcs |-> [local |-> 0, wire |-> 0]]]
BusInv == IF part = "redisbus" THEN MemIdle /\ RedisInv ELSE RedisIdle /\ MemInv

----------------------------------------------------------------------------
(* The messages of a sequence that are in a set, in their order.           *)

Keeps(g, s, ms, n) == \A i \in 0..n : g[i] = IF i = 0 THEN <<>> ELSE IF s[i] \in ms THEN Append(g[i - 1], s[i]) ELSE g[i - 1]

LEMMA KeepsExists ==
    ASSUME NEW S, NEW s \in Seq(S), NEW ms, NEW n \in 0..Len(s)
    PROVE  \E g \in [0..n -> Seq(S)] : Keeps(g, s, ms, n)
<1> DEFINE T == {k \in 0..n : \A g \in [0..k -> Seq(S)] : ~Keeps(g, s, ms, k)}
<1>0. n \in Nat /\ Len(s) \in Nat /\ \A i \in 1..n : s[i] \in S
  BY LenProperties, ElementOfSeq
<1>1. T = {}
  <2> SUFFICES ASSUME T # {} PROVE FALSE
    OBVIOUS
  <2>1. T \in SUBSET Nat
    BY <1>0
  <2> HIDE DEF T
  <2>2. PICK x \in T : \A y \in T : x <= y
    BY <2>1, Least
  <2>3. x \in 0..n /\ \A g \in [0..x -> Seq(S)] : ~Keeps(g, s, ms, x)
    BY <2>2 DEF T
  <2>4. x # 0
    <3> SUFFICES ASSUME x = 0 PROVE FALSE
      OBVIOUS
    <3> DEFINE g == [i \in 0..0 |-> <<>>]
    <3>1. <<>> \in Seq(S)
      BY EmptySeq
    <3>2. g \in [0..0 -> Seq(S)] /\ Keeps(g, s, ms, 0)
      BY <3>1 DEF Keeps
    <3> QED BY <2>3, <3>2
  <2>5. x - 1 \in 0..n /\ x - 1 \notin T
    BY <1>0, <2>2, <2>3, <2>4
  <2>6. PICK g \in [0..(x - 1) -> Seq(S)] : Keeps(g, s, ms, x - 1)
    BY <2>5 DEF T
  <2> DEFINE new == IF s[x] \in ms THEN Append(g[x - 1], s[x]) ELSE g[x - 1]
             h == [i \in 0..x |-> IF i = x THEN new ELSE g[i]]
  <2>7. new \in Seq(S)
    <3>1. g[x - 1] \in Seq(S) /\ s[x] \in S
      BY <1>0, <2>3, <2>4, <2>6
    <3> QED BY <3>1, AppendProperties
  <2>8. h \in [0..x -> Seq(S)]
    <3> HIDE DEF new
    <3>1. \A i \in 0..x : i = x \/ i \in 0..(x - 1)
      BY <1>0, <2>3
    <3> QED BY <2>6, <2>7, <3>1
  <2>9. Keeps(h, s, ms, x)
    <3> SUFFICES ASSUME NEW i \in 0..x
                 PROVE h[i] = IF i = 0 THEN <<>> ELSE IF s[i] \in ms THEN Append(h[i - 1], s[i]) ELSE h[i - 1]
      BY DEF Keeps
    <3>1. CASE i = x
      <4>1. h[i - 1] = g[i - 1]
        BY <1>0, <2>3, <2>4, <3>1
      <4>2. h[i] = new
        BY <3>1
      <4> QED BY <2>4, <3>1, <4>1, <4>2
    <3>2. CASE i # x
      <4>1. i \in 0..(x - 1) /\ h[i] = g[i] /\ (i # 0 => h[i - 1] = g[i - 1])
        BY <1>0, <2>3, <3>2
      <4>2. g[i] = IF i = 0 THEN <<>> ELSE IF s[i] \in ms THEN Append(g[i - 1], s[i]) ELSE g[i - 1]
        BY <2>6, <4>1 DEF Keeps
      <4> HIDE DEF h
      <4> QED BY <4>1, <4>2
    <3> QED BY <3>1, <3>2
  <2> QED BY <2>3, <2>8, <2>9
<1>2. n \in 0..n /\ n \notin T
  BY <1>0, <1>1
<1> QED BY <1>2

LEMMA AmongIs ==
    ASSUME NEW S, NEW s \in Seq(S), NEW ms
    PROVE  \E g \in [0..Len(s) -> Seq(S)] : Keeps(g, s, ms, Len(s)) /\ Among(s, ms) = g[Len(s)]
<1> DEFINE n == Len(s)
           step(k) == [i \in 0..n |-> IF i = 0 THEN <<>> ELSE IF s[i] \in ms THEN Append(k[i - 1], s[i]) ELSE k[i - 1]]
           kept == CHOOSE k : k = step(k)
<1>1. n \in Nat /\ n \in 0..n
  BY LenProperties
<1>2. Among(s, ms) = kept[n]
  BY DEF Among
<1>3. PICK g \in [0..n -> Seq(S)] : Keeps(g, s, ms, n)
  BY <1>1, KeepsExists
<1>4. g = step(g)
  BY <1>3 DEF Keeps
<1> HIDE DEF step
<1>5. kept = step(kept)
  BY <1>4
<1> HIDE DEF kept
<1>6. Keeps(kept, s, ms, n)
  BY <1>5 DEF Keeps, step
<1>7. \A i \in 0..n : kept[i] = g[i]
  <2> DEFINE T == {i \in 0..n : kept[i] # g[i]}
  <2> SUFFICES ASSUME T # {} PROVE FALSE
    OBVIOUS
  <2>1. T \in SUBSET Nat
    BY <1>1
  <2> HIDE DEF T
  <2>2. PICK x \in T : \A y \in T : x <= y
    BY <2>1, Least
  <2>3. x \in 0..n /\ kept[x] # g[x]
    BY <2>2 DEF T
  <2>4. x # 0
    BY <1>3, <1>6, <2>3 DEF Keeps
  <2>5. x - 1 \in 0..n /\ x - 1 \notin T
    BY <1>1, <2>2, <2>3, <2>4
  <2>6. kept[x - 1] = g[x - 1]
    BY <2>5 DEF T
  <2> QED BY <1>3, <1>6, <2>3, <2>4, <2>6 DEF Keeps
<1>8. Among(s, ms) = g[n]
  BY <1>1, <1>2, <1>7
<1> QED BY <1>3, <1>8

IsEnd(v, w) == Len(v) <= Len(w) /\ \A i \in 1..Len(v) : v[i] = w[Len(w) - Len(v) + i]
SameOf(t, ms, ns) == \A i \in 1..Len(t) : t[i] \in ms <=> t[i] \in ns

\* The end of a sequence keeps the end of what the sequence keeps.
LEMMA AmongEnd ==
    ASSUME NEW S, NEW s \in Seq(S), NEW t \in Seq(S), NEW ms, NEW ns, IsEnd(t, s), SameOf(t, ms, ns)
    PROVE  /\ Among(t, ns) \in Seq(S) /\ Among(s, ms) \in Seq(S)
           /\ \E u \in Seq(S) : /\ Among(s, ms) = u \o Among(t, ns)
                                /\ Len(s) = Len(t) => u = <<>>
<1> DEFINE n == Len(s)
           k == Len(t)
           d == n - k
<1>0. k <= n /\ \A i \in 1..k : t[i] = s[n - k + i]
  BY DEF IsEnd
<1>1. n \in Nat /\ k \in Nat /\ d \in Nat /\ k \in 0..k /\ d + k = n /\ \A i \in 1..k : t[i] \in S
  BY <1>0, LenProperties, ElementOfSeq
<1>2. PICK g \in [0..n -> Seq(S)] : Keeps(g, s, ms, n) /\ Among(s, ms) = g[n]
  BY AmongIs
<1>3. PICK h \in [0..k -> Seq(S)] : Keeps(h, t, ns, k) /\ Among(t, ns) = h[k]
  BY AmongIs
<1>4. \A i \in 1..k : t[i] = s[d + i] /\ (t[i] \in ms <=> t[i] \in ns)
  BY <1>0, <1>1 DEF SameOf
<1> HIDE DEF n, k, d
<1>5. g[d] \in Seq(S) /\ (d = 0 => g[d] = <<>>)
  <2>1. d \in 0..n
    BY <1>1
  <2>2. d = 0 => g[d] = <<>>
    BY <1>2, <2>1 DEF Keeps
  <2> QED BY <1>2, <2>1, <2>2
<1>6. \A i \in 0..k : g[d + i] = g[d] \o h[i]
  <2> DEFINE T == {i \in 0..k : g[d + i] # g[d] \o h[i]}
  <2> SUFFICES ASSUME T # {} PROVE FALSE
    OBVIOUS
  <2>1. T \in SUBSET Nat
    BY <1>1
  <2> HIDE DEF T
  <2>2. PICK x \in T : \A y \in T : x <= y
    BY <2>1, Least
  <2>3. x \in 0..k /\ g[d + x] # g[d] \o h[x]
    BY <2>2 DEF T
  <2>4. x # 0
    <3> SUFFICES ASSUME x = 0 PROVE FALSE
      OBVIOUS
    <3>1. h[x] = <<>> /\ d + x = d
      BY <1>1, <1>3, <2>3 DEF Keeps
    <3> QED BY <1>5, <2>3, <3>1, ConcatEmptySeq
  <2>5. x - 1 \in 0..k /\ x - 1 \notin T /\ x \in 1..k
    BY <1>1, <2>2, <2>3, <2>4
  <2>6. g[d + (x - 1)] = g[d] \o h[x - 1]
    BY <2>5 DEF T
  <2>7. d + x \in 0..n /\ d + x # 0 /\ (d + x) - 1 = d + (x - 1)
    BY <1>1, <2>5
  <2>8. t[x] = s[d + x] /\ (t[x] \in ms <=> t[x] \in ns) /\ t[x] \in S /\ h[x - 1] \in Seq(S)
    BY <1>1, <1>3, <1>4, <2>5
  <2>9. h[x] = IF t[x] \in ns THEN Append(h[x - 1], t[x]) ELSE h[x - 1]
    BY <1>3, <2>3, <2>4 DEF Keeps
  <2>10. g[d + x] = IF s[d + x] \in ms THEN Append(g[d] \o h[x - 1], s[d + x]) ELSE g[d] \o h[x - 1]
    BY <1>2, <2>6, <2>7 DEF Keeps
  <2>11. Append(g[d] \o h[x - 1], t[x]) = g[d] \o Append(h[x - 1], t[x])
    <3>1. g[d] \in Seq(S) /\ h[x - 1] \in Seq(S) /\ t[x] \in S
      BY <1>5, <2>8
    <3>2. SameBehind(g[d], h[x - 1], t[x])
      BY <3>1, AppendBehind, Zenon
    <3> QED BY <3>2 DEF SameBehind
  <2> QED BY <2>3, <2>8, <2>9, <2>10, <2>11
<1>7. Among(s, ms) = g[d] \o Among(t, ns)
  BY <1>1, <1>2, <1>3, <1>6
<1>8. n = k => d = 0
  BY <1>1
<1>9. Among(t, ns) \in Seq(S) /\ Among(s, ms) \in Seq(S)
  BY <1>1, <1>2, <1>3
<1> QED BY <1>5, <1>7, <1>8, <1>9 DEF n, k

LEMMA AmongSame ==
    ASSUME NEW S, NEW s \in Seq(S), NEW ms, NEW ns, \A i \in 1..Len(s) : s[i] \in ms <=> s[i] \in ns
    PROVE  Among(s, ms) = Among(s, ns)
<1>1. Len(s) \in Nat
  BY LenProperties
<1>2. IsEnd(s, s) /\ SameOf(s, ms, ns)
  <2>1. \A i \in 1..Len(s) : Len(s) - Len(s) + i = i
    BY <1>1
  <2>2. Len(s) <= Len(s) /\ \A i \in 1..Len(s) : s[i] = s[Len(s) - Len(s) + i]
    BY <1>1, <2>1
  <2> QED BY <2>2 DEF IsEnd, SameOf
<1>3. /\ Among(s, ns) \in Seq(S)
      /\ \E u \in Seq(S) : Among(s, ms) = u \o Among(s, ns) /\ (Len(s) = Len(s) => u = <<>>)
  BY <1>2, AmongEnd
<1>4. PICK u \in Seq(S) : Among(s, ms) = u \o Among(s, ns) /\ u = <<>>
  BY <1>3
<1> QED BY <1>3, <1>4, ConcatEmptySeq

LEMMA AmongMore ==
    ASSUME NEW S, NEW s \in Seq(S), NEW x \in S, NEW ms
    PROVE  Among(Append(s, x), ms) = IF x \in ms THEN Append(Among(s, ms), x) ELSE Among(s, ms)
<1> DEFINE a == Append(s, x)
           n == Len(s)
<1>1. a \in Seq(S) /\ n \in Nat /\ Len(a) = n + 1 /\ (\A i \in 1..n : a[i] = s[i]) /\ a[n + 1] = x
  BY Appending
<1> HIDE DEF a
<1>2. PICK g \in [0..Len(a) -> Seq(S)] : Keeps(g, a, ms, Len(a)) /\ Among(a, ms) = g[Len(a)]
  BY <1>1, AmongIs
<1>3. PICK h \in [0..n -> Seq(S)] : Keeps(h, s, ms, n) /\ Among(s, ms) = h[n]
  BY AmongIs
<1> HIDE DEF n
<1>4. \A i \in 0..n : g[i] = h[i]
  <2> DEFINE T == {i \in 0..n : g[i] # h[i]}
  <2> SUFFICES ASSUME T # {} PROVE FALSE
    OBVIOUS
  <2>1. T \in SUBSET Nat
    BY <1>1
  <2> HIDE DEF T
  <2>2. PICK y \in T : \A z \in T : y <= z
    BY <2>1, Least
  <2>3. y \in 0..n /\ g[y] # h[y]
    BY <2>2 DEF T
  <2>4. y # 0
    BY <1>1, <1>2, <1>3, <2>3 DEF Keeps
  <2>5. y - 1 \in 0..n /\ y - 1 \notin T /\ y \in 1..n /\ y \in 0..Len(a)
    BY <1>1, <2>2, <2>3, <2>4
  <2>6. g[y - 1] = h[y - 1] /\ a[y] = s[y]
    BY <1>1, <2>5 DEF T
  <2> QED BY <1>2, <1>3, <2>3, <2>4, <2>5, <2>6 DEF Keeps
<1>5. g[n + 1] = IF a[n + 1] \in ms THEN Append(g[n], a[n + 1]) ELSE g[n]
  <2>1. n + 1 \in 0..Len(a) /\ n + 1 # 0 /\ (n + 1) - 1 = n
    BY <1>1
  <2> QED BY <1>2, <2>1 DEF Keeps
<1>6. g[n] = h[n]
  BY <1>1, <1>4
<1> QED BY <1>1, <1>2, <1>3, <1>5, <1>6 DEF a

----------------------------------------------------------------------------
(* Ends and beginnings of sequences.                                       *)

LEMMA ReverseIs ==
    ASSUME NEW S, NEW s \in Seq(S)
    PROVE  /\ Reverse(s) \in Seq(S) /\ Len(Reverse(s)) = Len(s)
           /\ \A i \in 1..Len(s) : Reverse(s)[i] = s[(Len(s) - i) + 1]
<1> DEFINE n == Len(s)
           r == [i \in 1..n |-> s[(n - i) + 1]]
<1>1. n \in Nat /\ \A i \in 1..n : s[i] \in S
  BY LenProperties, ElementOfSeq
<1> HIDE DEF n
<1>2. \A i \in 1..n : (n - i) + 1 \in 1..n
  BY <1>1
<1>3. r \in [1..n -> S]
  BY <1>1, <1>2
<1>4. r \in Seq(S) /\ Len(r) = n /\ \A i \in 1..n : r[i] = s[(n - i) + 1]
  BY <1>1, <1>3
<1>5. Reverse(s) = r
  BY DEF Reverse, n
<1> HIDE DEF r
<1> QED BY <1>4, <1>5 DEF n

LEMMA PrefixIs ==
    ASSUME NEW S, NEW s \in Seq(S), NEW t \in Seq(S), Len(s) <= Len(t), \A i \in 1..Len(s) : s[i] = t[i]
    PROVE  IsPrefix(s, t)
<1> DEFINE n == Len(s)
           a == SubSeq(s, 1, n)
           b == SubSeq(t, 1, n)
<1>1. n \in Nat /\ Len(t) \in Nat /\ (\A i \in 1..n : s[i] \in S /\ t[i] \in S)
  BY LenProperties, ElementOfSeq
<1>2. a \in Seq(S) /\ Len(a) = n /\ \A i \in 1..n : a[i] = s[i]
  <2>1. /\ a \in Seq(S) /\ Len(a) = (IF 1 <= n THEN n - 1 + 1 ELSE 0) /\ \A i \in 1..(n - 1 + 1) : a[i] = s[1 + i - 1]
    BY <1>1, SubSeqProperties
  <2> HIDE DEF a
  <2> QED BY <1>1, <2>1
<1>3. b \in Seq(S) /\ Len(b) = n /\ \A i \in 1..n : b[i] = t[i]
  <2>1. /\ b \in Seq(S) /\ Len(b) = (IF 1 <= n THEN n - 1 + 1 ELSE 0) /\ \A i \in 1..(n - 1 + 1) : b[i] = t[1 + i - 1]
    BY <1>1, SubSeqProperties
  <2> HIDE DEF b
  <2> QED BY <1>1, <2>1
<1> HIDE DEF a, b
<1>4. a = b
  BY <1>2, <1>3, SeqEqual
<1> QED BY <1>4 DEF IsPrefix, a, b

LEMMA EndIsSuffix ==
    ASSUME NEW S, NEW v \in Seq(S), NEW w \in Seq(S), IsEnd(v, w)
    PROVE  IsSuffix(v, w)
<1> DEFINE a == Reverse(v)
           b == Reverse(w)
           n == Len(v)
           k == Len(w)
<1>1. /\ a \in Seq(S) /\ Len(a) = n /\ (\A i \in 1..n : a[i] = v[(n - i) + 1])
      /\ b \in Seq(S) /\ Len(b) = k /\ (\A i \in 1..k : b[i] = w[(k - i) + 1])
  BY ReverseIs
<1>2. n \in Nat /\ k \in Nat /\ n <= k /\ \A i \in 1..n : v[i] = w[k - n + i]
  BY LenProperties DEF IsEnd
<1> HIDE DEF a, b, n, k
<1>3. \A i \in 1..n : a[i] = b[i]
  <2> TAKE i \in 1..n
  <2>1. (n - i) + 1 \in 1..n /\ k - n + ((n - i) + 1) = (k - i) + 1 /\ i \in 1..k
    BY <1>2
  <2>2. v[(n - i) + 1] = w[(k - i) + 1]
    BY <1>2, <2>1
  <2> QED BY <1>1, <2>1, <2>2
<1>4. IsPrefix(a, b)
  BY <1>1, <1>2, <1>3, PrefixIs
<1> QED BY <1>4 DEF IsSuffix, a, b

LEMMA LastOfIs ==
    ASSUME NEW S, NEW s \in Seq(S), NEW n \in Nat \ {0}
    PROVE  LastOf(s, n) \in Seq(S) /\ IsEnd(LastOf(s, n), s)
<1> DEFINE k == Len(s)
           a == SubSeq(s, k - n + 1, k)
<1>1. k \in Nat /\ \A i \in 1..k : s[i] \in S
  BY LenProperties, ElementOfSeq
<1>2. CASE k <= n
  <2> DEFINE z == LastOf(s, n)
  <2>1. z = s
    BY <1>2 DEF LastOf
  <2> HIDE DEF z
  <2>2. ASSUME NEW i \in 1..Len(z) PROVE Len(s) - Len(z) + i = i
    BY <1>1, <2>1
  <2>3. Len(z) <= Len(s) /\ \A i \in 1..Len(z) : z[i] = s[Len(s) - Len(z) + i]
    BY <1>1, <2>1, <2>2
  <2>4. z \in Seq(S) /\ IsEnd(z, s)
    BY <2>1, <2>3 DEF IsEnd
  <2> QED BY <2>4 DEF z
<1>3. CASE ~(k <= n)
  <2>1. \A i \in (k - n + 1)..k : s[i] \in S
    BY <1>1, <1>3
  <2>2. k - n + 1 \in Int /\ k \in Int
    BY <1>1
  <2> DEFINE m == k - n + 1
  <2>3. /\ SubSeq(s, m, k) \in Seq(S) /\ Len(SubSeq(s, m, k)) = (IF m <= k THEN k - m + 1 ELSE 0)
        /\ \A i \in 1..(k - m + 1) : SubSeq(s, m, k)[i] = s[m + i - 1]
    <3> HIDE DEF m, k
    <3> QED BY <2>1, <2>2, SubSeqProperties DEF m
  <2>4. a \in Seq(S) /\ Len(a) = k - m + 1 /\ \A i \in 1..(k - m + 1) : a[i] = s[m + i - 1]
    <3>1. m <= k
      BY <1>1, <1>3
    <3> QED BY <2>3, <3>1
  <2>5. LastOf(s, n) = a
    BY <1>3 DEF LastOf
  <2> HIDE DEF a
  <2>6. k - m + 1 = n
    BY <1>1
  <2>7. \A i \in 1..n : a[i] = s[k - n + i]
    <3> TAKE i \in 1..n
    <3>1. m + i - 1 = k - n + i
      BY <1>1
    <3> QED BY <2>4, <2>6, <3>1
  <2>8. a \in Seq(S) /\ Len(a) = n
    BY <2>4, <2>6
  <2>9. Len(a) <= Len(s) /\ \A i \in 1..Len(a) : a[i] = s[Len(s) - Len(a) + i]
    BY <1>1, <1>3, <2>7, <2>8
  <2>10. IsEnd(a, s)
    BY <2>9 DEF IsEnd
  <2> QED BY <2>5, <2>8, <2>10
<1> QED BY <1>2, <1>3

LEMMA EndOfEnd ==
    ASSUME NEW S, NEW u \in Seq(S), NEW v \in Seq(S), NEW w \in Seq(S), IsEnd(w, v)
    PROVE  IsEnd(w, u \o v)
<1> DEFINE a == u \o v
<1>1. a \in Seq(S) /\ Len(a) = Len(u) + Len(v)
      /\ \A i \in 1..(Len(u) + Len(v)) : a[i] = IF i <= Len(u) THEN u[i] ELSE v[i - Len(u)]
  BY ConcatProperties
<1>2. Len(u) \in Nat /\ Len(v) \in Nat /\ Len(w) \in Nat
  BY LenProperties
<1> HIDE DEF a
<1>3. \A i \in 1..Len(w) : w[i] = a[Len(a) - Len(w) + i]
  <2> TAKE i \in 1..Len(w)
  <2> DEFINE j == Len(a) - Len(w) + i
  <2>1. j \in 1..(Len(u) + Len(v)) /\ ~(j <= Len(u)) /\ j - Len(u) = Len(v) - Len(w) + i
    BY <1>1, <1>2 DEF IsEnd
  <2> HIDE DEF j
  <2>2. a[j] = v[Len(v) - Len(w) + i]
    BY <1>1, <2>1
  <2> QED BY <2>2 DEF IsEnd, j
<1> QED BY <1>1, <1>2, <1>3 DEF IsEnd, a

----------------------------------------------------------------------------
(* The bus in memory.                                                      *)

LEMMA RangeIs ==
    ASSUME NEW S, NEW s \in Seq(S)
    PROVE  IsFiniteSet(Range(s)) /\ \A x : x \in Range(s) <=> \E i \in 1..Len(s) : s[i] = x
<1>1. Len(s) \in Nat /\ s \in [1..Len(s) -> S] /\ DOMAIN s = 1..Len(s)
  BY LenProperties
<1>2. s \in Surjection(1..Len(s), Range(s))
  BY <1>1, Fun_RangeProperties
<1>3. IsFiniteSet(1..Len(s))
  BY <1>1, UpTo
<1>4. IsFiniteSet(Range(s))
  BY <1>2, <1>3, FS_Surjection
<1> QED BY <1>1, <1>4 DEF Range

LEMMA MissedFinite ==
    ASSUME MemInv, NEW m \in BusMessages
    PROVE  IsFiniteSet(Missed(m)) /\ Cardinality(Missed(m)) \in Nat /\ Missed(m) \subseteq steady[m]
           /\ steady[m] \subseteq Callbacks /\ slid[m] \in Nat /\ Cardinality(Missed(m)) <= slid[m]
<1>1. IsFiniteSet(Range(subs)) /\ steady[m] \subseteq Range(subs) /\ Missed(m) \subseteq steady[m]
  BY RangeIs DEF MemInv, MemTypes, Publishing, Missed
<1>2. IsFiniteSet(Missed(m))
  BY <1>1, FS_Subset
<1>3. Cardinality(Missed(m)) \in Nat
  BY <1>2, FS_CardinalityType
<1> QED BY <1>1, <1>2, <1>3 DEF MemInv, MemTypes, Publishing

LEMMA Bounded ==
    ASSUME NEW X, NEW Y, IsFiniteSet(X), NEW x, Y \subseteq X \union {x}
    PROVE  /\ Cardinality(Y) <= Cardinality(X) + 1
           /\ Y \subseteq X => Cardinality(Y) <= Cardinality(X)
<1> DEFINE Z == X \union {x}
<1>1. IsFiniteSet(Z) /\ Cardinality(Z) = IF x \in X THEN Cardinality(X) ELSE Cardinality(X) + 1
  BY FS_AddElement
<1>2. Cardinality(Y) <= Cardinality(Z) /\ IsFiniteSet(Y)
  BY <1>1, FS_Subset
<1>3. Cardinality(X) \in Nat /\ Cardinality(Y) \in Nat
  BY <1>2, FS_CardinalityType
<1>4. Y \subseteq X => Cardinality(Y) <= Cardinality(X)
  BY FS_Subset
<1> HIDE DEF Z
<1> QED BY <1>1, <1>2, <1>3, <1>4

\* A publish that is not at its turn, while the list of callbacks changes.
LEMMA PublishStays ==
    ASSUME MemInv, NEW m \in BusMessages, sent'[m] = sent[m], heard'[m] = heard[m], steady'[m] \subseteq steady[m],
           steady'[m] \subseteq Range(subs'), slid'[m] \in Nat,
           \A c \in steady'[m] : Passed(m, c) => Passed(m, c)',
           \/ slid'[m] = slid[m] /\ \A c \in steady'[m] : Passed(m, c)' => Passed(m, c)
           \/ sent[m].pc # "calling" /\ slid'[m] = slid[m]
           \/ slid'[m] = slid[m] + 1 /\ \E x : \A c \in steady'[m] : Passed(m, c)' => Passed(m, c) \/ c = x
    PROVE  Publishing(m)'
<1>1. Publishing(m)
  BY DEF MemInv
<1>2. Cardinality(Missed(m)') <= slid'[m]
  <2>1. CASE \A c \in steady'[m] : sent[m].pc = "calling" /\ Passed(m, c)' => Passed(m, c)
    <3>1. Missed(m)' \subseteq Missed(m) \union {m} /\ Missed(m)' \subseteq Missed(m)
      BY <2>1 DEF Missed
    <3>2. Cardinality(Missed(m)') <= Cardinality(Missed(m)) /\ slid'[m] >= slid[m]
      BY <3>1, MissedFinite, Bounded
    <3>3. Missed(m)' \subseteq Missed(m)
      BY <3>1
    <3>4. IsFiniteSet(Missed(m)')
      BY <3>3, MissedFinite, FS_Subset
    <3>5. Cardinality(Missed(m)') \in Nat
      BY <3>4, FS_CardinalityType
    <3> QED BY <3>2, <3>5, MissedFinite
  <2>2. CASE slid'[m] = slid[m] + 1 /\ \E x : \A c \in steady'[m] : Passed(m, c)' => Passed(m, c) \/ c = x
    <3>1. PICK x : \A c \in steady'[m] : Passed(m, c)' => Passed(m, c) \/ c = x
      BY <2>2
    <3>2. Missed(m)' \subseteq Missed(m) \union {x}
      BY <3>1 DEF Missed
    <3>3. Cardinality(Missed(m)') <= Cardinality(Missed(m)) + 1
      BY <3>2, MissedFinite, Bounded
    <3>4. IsFiniteSet(Missed(m) \union {x})
      BY MissedFinite, FS_AddElement
    <3>5. IsFiniteSet(Missed(m)')
      BY <3>2, <3>4, FS_Subset
    <3>6. Cardinality(Missed(m)') \in Nat
      BY <3>5, FS_CardinalityType
    <3> QED BY <2>2, <3>3, <3>6, MissedFinite
  <2> QED BY <2>1, <2>2
<1>3. /\ sent[m].pc = "new" => steady[m] = {} /\ sent[m].at = 1 /\ heard[m] = [c \in Callbacks |-> 0]
      /\ \A c \in steady[m] : heard[m][c] <= 1 /\ (sent[m].pc = "calling" /\ heard[m][c] = 1 => Passed(m, c))
      /\ sent[m].pc \in {"new", "calling", "done"}
  BY <1>1 DEF Publishing
<1> QED BY <1>2, <1>3 DEF Publishing

LEMMA MemSubscribed ==
    ASSUME MemInv, NEW c \in Callbacks, Subscribe(c)
    PROVE  MemInv'
<1> DEFINE n == Len(subs)
<1>1. c \notin Range(subs) /\ subs' = Append(subs, c) /\ UNCHANGED <<busLog, sent, heard, leaves, steady, slid, everSent>>
      /\ subs \in Seq(Callbacks)
  BY DEF Subscribe, MemInv, MemTypes
<1>2. /\ subs' \in Seq(Callbacks) /\ n \in Nat /\ Len(subs') = n + 1 /\ (\A i \in 1..n : subs'[i] = subs[i]) /\ subs'[n + 1] = c
      /\ \A i \in 1..(n + 1) : i \in 1..n \/ i = n + 1
  BY <1>1, Appending
<1>3. /\ \A x : x \in Range(subs) <=> \E i \in 1..n : subs[i] = x
      /\ \A x : x \in Range(subs') <=> \E i \in 1..Len(subs') : subs'[i] = x
  <2>1. \A x : x \in Range(subs) <=> \E i \in 1..Len(subs) : subs[i] = x
    BY <1>1, RangeIs
  <2>2. \A x : x \in Range(subs') <=> \E i \in 1..Len(subs') : subs'[i] = x
    BY <1>2, RangeIs
  <2> QED BY <2>1, <2>2
<1>4. \A i \in 1..n : subs[i] # c
  BY <1>1, <1>3
<1>5. \A i, j \in 1..Len(subs') : subs'[i] = subs'[j] => i = j
  <2>1. \A i, j \in 1..n : subs[i] = subs[j] => i = j
    BY DEF MemInv, MemTypes
  <2> QED BY <1>2, <1>4, <2>1
<1>6. MemTypes' /\ SentTypes' /\ LogIsTheEnd'
  BY <1>1, <1>2, <1>5 DEF MemInv, MemTypes, SentTypes, LogIsTheEnd
<1>7. Range(subs) \subseteq Range(subs')
  BY <1>2, <1>3
<1>8. ASSUME NEW m \in BusMessages PROVE Publishing(m)'
  <2>1. steady[m] \subseteq Range(subs) /\ slid[m] \in Nat
    BY DEF MemInv, Publishing, MemTypes
  <2>2. \A d \in steady[m] : Passed(m, d)' <=> Passed(m, d)
    <3> SUFFICES ASSUME NEW d \in steady[m] PROVE Passed(m, d)' <=> Passed(m, d)
      OBVIOUS
    <3>1. d # c
      BY <1>1, <2>1
    <3> QED BY <1>1, <1>2, <3>1 DEF Passed
  <2> QED BY <1>1, <1>7, <2>1, <2>2, PublishStays
<1> QED BY <1>6, <1>8 DEF MemInv

LEMMA MemUnsubscribed ==
    ASSUME MemInv, NEW c \in Callbacks, Unsubscribe(c)
    PROVE  MemInv'
<1>1. PICK i \in 1..Len(subs) :
        /\ subs[i] = c /\ subs' = RemoveAt(subs, i) /\ steady' = [m \in BusMessages |-> steady[m] \ {c}]
        /\ slid' = [m \in BusMessages |-> slid[m] + IF sent[m].pc = "calling" /\ i < sent[m].at THEN 1 ELSE 0]
        /\ leaves' = leaves + 1 /\ UNCHANGED <<busLog, sent, heard, everSent>>
  BY DEF Unsubscribe
<1> DEFINE n == Len(subs)
           Kept(j) == IF j < i THEN j ELSE j + 1
<1>2. subs \in Seq(Callbacks) /\ n \in Nat /\ i \in 1..n /\ \A j, k \in 1..n : subs[j] = subs[k] => j = k
  BY LenProperties DEF MemInv, MemTypes
<1>3. /\ subs' \in Seq(Callbacks) /\ Len(subs') = n - 1
      /\ \A j \in 1..(n - 1) : subs'[j] = IF j < i THEN subs[j] ELSE subs[j + 1]
  BY <1>1, <1>2, RemoveAtSeq
<1> HIDE DEF n
<1>4. \A j \in 1..(n - 1) : Kept(j) \in 1..n /\ Kept(j) # i /\ subs'[j] = subs[Kept(j)]
  BY <1>2, <1>3
<1>5. \A j \in 1..n : j # i => \E k \in 1..(n - 1) : Kept(k) = j /\ k <= j /\ j <= k + 1
  <2> SUFFICES ASSUME NEW j \in 1..n, j # i PROVE \E k \in 1..(n - 1) : Kept(k) = j /\ k <= j /\ j <= k + 1
    OBVIOUS
  <2>1. CASE j < i
    BY <1>2, <2>1
  <2>2. CASE ~(j < i)
    <3>1. j - 1 \in 1..(n - 1) /\ ~(j - 1 < i) /\ (j - 1) + 1 = j
      BY <1>2, <2>2
    <3>2. Kept(j - 1) = j
      BY <3>1
    <3>3. j - 1 <= j /\ j <= (j - 1) + 1
      BY <1>2
    <3> DEFINE k == j - 1
    <3>4. k \in 1..(n - 1) /\ Kept(k) = j /\ k <= j /\ j <= k + 1
      BY <3>1, <3>2, <3>3
    <3> HIDE DEF k, Kept
    <3> QED BY <3>4
  <2> QED BY <2>1, <2>2
<1>6. \A j, k \in 1..(n - 1) : Kept(j) = Kept(k) => j = k
  BY <1>2
<1>7. \A j, k \in 1..Len(subs') : subs'[j] = subs'[k] => j = k
  BY <1>2, <1>3, <1>4, <1>6
<1>8. /\ leaves' \in Nat /\ steady' \in [BusMessages -> SUBSET Callbacks] /\ slid' \in [BusMessages -> Nat]
  BY <1>1 DEF MemInv, MemTypes
<1>9. MemTypes' /\ SentTypes' /\ LogIsTheEnd'
  BY <1>1, <1>3, <1>7, <1>8 DEF MemInv, MemTypes, SentTypes, LogIsTheEnd
<1>10. /\ \A x : x \in Range(subs) <=> \E j \in 1..n : subs[j] = x
       /\ \A x : x \in Range(subs') <=> \E j \in 1..(n - 1) : subs'[j] = x
  BY <1>2, <1>3, RangeIs DEF n
<1>11. ASSUME NEW m \in BusMessages PROVE Publishing(m)'
  <2>1. steady[m] \subseteq Range(subs) /\ slid[m] \in Nat /\ sent[m].at \in Nat /\ sent' = sent
    BY <1>1 DEF MemInv, Publishing, MemTypes, SentTypes
  <2>2. steady'[m] = steady[m] \ {c} /\ slid'[m] = slid[m] + IF sent[m].pc = "calling" /\ i < sent[m].at THEN 1 ELSE 0
    BY <1>1
  <2>3. \A d \in steady'[m] : \E k \in 1..(n - 1) : subs'[k] = d
    <3> SUFFICES ASSUME NEW d \in steady'[m] PROVE \E k \in 1..(n - 1) : subs'[k] = d
      OBVIOUS
    <3>1. PICK j \in 1..n : subs[j] = d
      BY <1>10, <2>1, <2>2
    <3>2. j # i
      BY <1>1, <2>2, <3>1
    <3>3. PICK k \in 1..(n - 1) : Kept(k) = j
      BY <1>5, <3>2
    <3> QED BY <1>4, <3>1, <3>3
  <2>4. steady'[m] \subseteq Range(subs')
    BY <1>10, <2>3
  <2>5. ASSUME NEW d \in steady'[m], Passed(m, d) PROVE Passed(m, d)'
    <3>1. PICK j \in 1..n : j < sent[m].at /\ subs[j] = d
      BY <2>5 DEF Passed, n
    <3>2. j # i
      BY <1>1, <2>2, <3>1
    <3>3. PICK k \in 1..(n - 1) : Kept(k) = j /\ k <= j
      BY <1>5, <3>2
    <3>4. subs'[k] = d /\ k < sent[m].at
      BY <1>4, <2>1, <3>1, <3>3
    <3> QED BY <1>2, <1>3, <2>1, <3>4 DEF Passed
  <2>6. ASSUME NEW d \in steady'[m], Passed(m, d)'
        PROVE  \E k \in 1..(n - 1) : k < sent[m].at /\ subs[Kept(k)] = d /\ Kept(k) \in 1..n
    <3>1. PICK k \in 1..(n - 1) : k < sent[m].at /\ subs'[k] = d
      BY <1>3, <2>1, <2>6 DEF Passed
    <3> QED BY <1>4, <3>1
  <2>7. CASE sent[m].pc # "calling"
    BY <1>1, <2>1, <2>2, <2>4, <2>5, <2>7, PublishStays
  <2>8. CASE sent[m].pc = "calling" /\ ~(i < sent[m].at)
    <3>1. \A d \in steady'[m] : Passed(m, d)' => Passed(m, d)
      <4> SUFFICES ASSUME NEW d \in steady'[m], Passed(m, d)' PROVE Passed(m, d)
        OBVIOUS
      <4>1. PICK k \in 1..(n - 1) : k < sent[m].at /\ subs[Kept(k)] = d /\ Kept(k) \in 1..n
        BY <2>6
      <4>2. Kept(k) = k
        BY <1>2, <2>1, <2>8, <4>1
      <4> QED BY <4>1, <4>2 DEF Passed, n
    <3> QED BY <1>1, <2>1, <2>2, <2>4, <2>5, <2>8, <3>1, PublishStays
  <2>9. CASE sent[m].pc = "calling" /\ i < sent[m].at
    <3>1. \A d \in steady'[m] : Passed(m, d)' => Passed(m, d) \/ d = subs[sent[m].at]
      <4> SUFFICES ASSUME NEW d \in steady'[m], Passed(m, d)', d # subs[sent[m].at] PROVE Passed(m, d)
        OBVIOUS
      <4>1. PICK k \in 1..(n - 1) : k < sent[m].at /\ subs[Kept(k)] = d /\ Kept(k) \in 1..n
        BY <2>6
      <4>2. Kept(k) < sent[m].at
        BY <1>2, <2>1, <4>1
      <4> QED BY <4>1, <4>2 DEF Passed, n
    <3>2. slid'[m] = slid[m] + 1 /\ slid'[m] \in Nat
      BY <2>1, <2>2, <2>9
    <3> QED BY <1>1, <2>1, <2>2, <2>4, <2>5, <3>1, <3>2, PublishStays
  <2> QED BY <2>7, <2>8, <2>9
<1> QED BY <1>9, <1>11 DEF MemInv

LEMMA LogMoves ==
    ASSUME SentTypes, busLog \in Seq(BusMessages), LogIsTheEnd, NEW m \in BusMessages,
           busLog' = Logged(m), everSent' = Append(everSent, m)
    PROVE  busLog' \in Seq(BusMessages) /\ everSent' \in Seq(BusMessages) /\ LogIsTheEnd'
<1> DEFINE n == Len(busLog)
           k == Len(everSent)
           all == Append(busLog, m)
<1>1. everSent \in Seq(BusMessages) /\ BusLog \in Nat \ {0}
  BY BusAssumption DEF SentTypes
<1>2. /\ all \in Seq(BusMessages) /\ n \in Nat /\ Len(all) = n + 1 /\ (\A i \in 1..n : all[i] = busLog[i]) /\ all[n + 1] = m
      /\ \A i \in 1..(n + 1) : i \in 1..n \/ i = n + 1
  BY Appending
<1>3. /\ everSent' \in Seq(BusMessages) /\ k \in Nat /\ Len(everSent') = k + 1
      /\ (\A i \in 1..k : everSent'[i] = everSent[i]) /\ everSent'[k + 1] = m
  BY <1>1, Appending
<1>4. busLog' = IF Len(all) > BusLog THEN Tail(all) ELSE all
  BY DEF Logged
<1>5. n <= BusLog /\ n <= k /\ \A i \in 1..n : busLog[i] = everSent[k - n + i]
  BY DEF LogIsTheEnd
<1> HIDE DEF all, n, k
<1>6. \A i \in 1..(n + 1) : all[i] = everSent'[k - n + i]
  <2> TAKE i \in 1..(n + 1)
  <2>1. CASE i \in 1..n
    <3>1. k - n + i \in 1..k
      BY <1>2, <1>3, <1>5, <2>1
    <3> QED BY <1>2, <1>3, <1>5, <2>1, <3>1
  <2>2. CASE i = n + 1
    <3>1. k - n + i = k + 1
      BY <1>2, <1>3, <2>2
    <3> QED BY <1>2, <1>3, <2>2, <3>1
  <2> QED BY <1>2, <2>1, <2>2
<1>7. CASE Len(all) > BusLog
  <2> DEFINE b == Tail(all)
  <2>1. all # <<>>
    BY <1>2, EmptySeq
  <2>2. b \in Seq(BusMessages) /\ Len(b) = n /\ \A i \in 1..n : b[i] = all[i + 1]
    <3>1. b \in Seq(BusMessages) /\ Len(b) = Len(all) - 1 /\ \A i \in 1..Len(b) : b[i] = all[i + 1]
      BY <1>2, <2>1, HeadTailProperties
    <3> HIDE DEF b
    <3>2. Len(b) = n
      BY <1>2, <3>1
    <3> QED BY <3>1, <3>2
  <2>3. busLog' = b
    BY <1>4, <1>7
  <2> HIDE DEF b
  <2>4. \A i \in 1..n : b[i] = everSent'[(k + 1) - n + i]
    <3> TAKE i \in 1..n
    <3>1. i + 1 \in 1..(n + 1) /\ k - n + (i + 1) = (k + 1) - n + i
      BY <1>2, <1>3
    <3> QED BY <1>6, <2>2, <3>1
  <2>5. n <= BusLog /\ n <= k + 1
    BY <1>2, <1>3, <1>5
  <2> QED BY <1>3, <2>2, <2>3, <2>4, <2>5 DEF LogIsTheEnd
<1>8. CASE ~(Len(all) > BusLog)
  <2>1. busLog' = all
    BY <1>4, <1>8
  <2>2. n + 1 <= BusLog /\ n + 1 <= k + 1
    BY <1>1, <1>2, <1>3, <1>5, <1>8
  <2>3. \A i \in 1..(n + 1) : (k + 1) - (n + 1) + i = k - n + i
    BY <1>2, <1>3
  <2>4. \A i \in 1..(n + 1) : all[i] = everSent'[(k + 1) - (n + 1) + i]
    BY <1>6, <2>3
  <2>5. Len(all) <= BusLog /\ Len(all) <= Len(everSent') /\ \A i \in 1..Len(all) : all[i] = everSent'[Len(everSent') - Len(all) + i]
    BY <1>2, <1>3, <2>2, <2>4
  <2> QED BY <1>2, <1>3, <2>1, <2>5 DEF LogIsTheEnd
<1> QED BY <1>7, <1>8

SentState == [pc: {"new", "calling", "added", "stored", "told", "done"}, at: Nat \ {0}, over: SUBSET BusMessages,
              tenant: BusTenants \union {NoTenant}, proc: BusProcs \union {Elsewhere, NoProc}]

\* A message goes on, and may have been sent by this step.
LEMMA SentMoves ==
    ASSUME SentTypes, NEW m \in BusMessages, NEW st \in SentState, st.pc # "new", sent' = [sent EXCEPT ![m] = st],
           everSent' = everSent \/ everSent' = Append(everSent, m)
    PROVE  SentTypes' /\ sent'[m] = st /\ \A n \in BusMessages \ {m} : sent'[n] = sent[n]
<1>1. sent \in [BusMessages -> SentState] /\ everSent \in Seq(BusMessages) /\ \A i \in 1..Len(everSent) : sent[everSent[i]].pc # "new"
  BY DEF SentTypes, SentState
<1>2. sent' \in [BusMessages -> SentState] /\ sent'[m] = st /\ \A n \in BusMessages \ {m} : sent'[n] = sent[n]
  BY <1>1
<1>3. \A i \in 1..Len(everSent) : sent'[everSent[i]].pc # "new"
  <2> TAKE i \in 1..Len(everSent)
  <2>1. everSent[i] \in BusMessages
    BY <1>1, ElementOfSeq
  <2> QED BY <1>1, <1>2, <2>1
<1>4. everSent' \in Seq(BusMessages) /\ \A i \in 1..Len(everSent') : sent'[everSent'[i]].pc # "new"
  <2>1. CASE everSent' = Append(everSent, m)
    <3>1. /\ everSent' \in Seq(BusMessages) /\ Len(everSent') = Len(everSent) + 1
          /\ (\A i \in 1..Len(everSent) : everSent'[i] = everSent[i]) /\ everSent'[Len(everSent) + 1] = m
          /\ \A i \in 1..(Len(everSent) + 1) : i \in 1..Len(everSent) \/ i = Len(everSent) + 1
      BY <1>1, <2>1, Appending
    <3> QED BY <1>2, <1>3, <3>1
  <2> QED BY <1>1, <1>3, <2>1
<1> QED BY <1>2, <1>4 DEF SentTypes, SentState

LEMMA MemPublished ==
    ASSUME MemInv, NEW m \in BusMessages, Publish(m)
    PROVE  MemInv'
<1>1. PICK t \in BusTenants : sent' = [sent EXCEPT ![m].pc = "calling", ![m].tenant = t]
  BY DEF Publish
<1> DEFINE st == [sent[m] EXCEPT !.pc = "calling", !.tenant = t]
<1>2. /\ sent[m].pc = "new" /\ busLog' = Logged(m) /\ everSent' = Append(everSent, m)
      /\ steady' = [steady EXCEPT ![m] = Range(subs)] /\ UNCHANGED <<subs, heard, leaves, slid>>
  BY DEF Publish
<1>3. SentTypes /\ MemTypes /\ LogIsTheEnd /\ sent[m] \in SentState /\ Publishing(m)
  BY DEF MemInv, SentTypes, SentState
<1>4. st \in SentState /\ st.pc = "calling" /\ st.at = sent[m].at /\ sent' = [sent EXCEPT ![m] = st]
  BY <1>1, <1>3 DEF SentState
<1> HIDE DEF st
<1>5. SentTypes' /\ sent'[m] = st /\ \A n \in BusMessages \ {m} : sent'[n] = sent[n]
  BY <1>2, <1>3, <1>4, SentMoves
<1>6. busLog' \in Seq(BusMessages) /\ LogIsTheEnd'
  BY <1>2, <1>3, LogMoves DEF MemTypes
<1>7. subs \in Seq(Callbacks) /\ Range(subs) \subseteq Callbacks
  BY <1>3, RangeOfSeq DEF MemTypes
<1>8. steady' \in [BusMessages -> SUBSET Callbacks] /\ steady'[m] = Range(subs) /\ \A n \in BusMessages \ {m} : steady'[n] = steady[n]
  BY <1>2, <1>3, <1>7 DEF MemTypes
<1>9. MemTypes'
  BY <1>2, <1>3, <1>6, <1>8 DEF MemTypes
<1>10. ASSUME NEW n \in BusMessages \ {m} PROVE Publishing(n)'
  <2>1. steady[n] \subseteq Range(subs) /\ slid[n] \in Nat
    BY DEF MemInv, Publishing, MemTypes
  <2>2. \A c \in steady'[n] : Passed(n, c)' <=> Passed(n, c)
    BY <1>2, <1>5 DEF Passed
  <2> QED BY <1>2, <1>5, <1>8, <2>1, <2>2, PublishStays
<1>11. Publishing(m)'
  <2>1. sent[m].at = 1 /\ heard[m] = [c \in Callbacks |-> 0] /\ slid[m] \in Nat
    BY <1>2, <1>3 DEF Publishing, MemTypes
  <2>2. \A c : ~Passed(m, c)'
    <3> SUFFICES ASSUME NEW c, NEW i \in 1..Len(subs') PROVE ~(i < sent'[m].at)
      BY DEF Passed
    <3>1. sent'[m].at = 1
      BY <1>4, <1>5, <2>1
    <3>2. Len(subs') \in Nat
      BY <1>2, <1>7, LenProperties
    <3> QED BY <3>1, <3>2
  <2>3. Missed(m)' = {}
    BY <1>4, <1>5, <2>2 DEF Missed
  <2>4. Cardinality(Missed(m)') = 0
    BY <2>3, FS_EmptySet
  <2>5. \A c \in steady'[m] : heard'[m][c] = 0
    BY <1>2, <1>7, <1>8, <2>1
  <2> QED BY <1>2, <1>4, <1>5, <1>8, <2>1, <2>4, <2>5 DEF Publishing
<1> QED BY <1>5, <1>6, <1>9, <1>10, <1>11 DEF MemInv

LEMMA MemCalled ==
    ASSUME MemInv, NEW m \in BusMessages, CallNext(m)
    PROVE  MemInv'
<1> DEFINE n == Len(subs)
           at == sent[m].at
           c == subs[at]
<1>1. sent[m].pc = "calling" /\ UNCHANGED <<subs, busLog, leaves, steady, slid, everSent>>
  BY DEF CallNext
<1>2. /\ SentTypes /\ MemTypes /\ LogIsTheEnd /\ sent[m] \in SentState /\ Publishing(m) /\ at \in Nat \ {0}
      /\ subs \in Seq(Callbacks) /\ n \in Nat /\ heard \in [BusMessages -> [Callbacks -> Nat]]
      /\ \A i, j \in 1..n : subs[i] = subs[j] => i = j
  BY LenProperties DEF MemInv, SentTypes, SentState, MemTypes
<1>3. \A x : x \in Range(subs) <=> \E i \in 1..n : subs[i] = x
  BY <1>2, RangeIs
<1>4. CASE at <= n
  <2> DEFINE next == at + 1
             st == [sent[m] EXCEPT !.at = next]
  <2>1. heard' = [heard EXCEPT ![m][c] = heard[m][c] + 1] /\ sent' = [sent EXCEPT ![m].at = next]
    BY <1>4 DEF CallNext
  <2>2. st \in SentState /\ st.pc = "calling" /\ st.at = at + 1 /\ sent' = [sent EXCEPT ![m] = st]
    <3>1. next \in Nat \ {0} /\ next = at + 1
      BY <1>2
    <3> HIDE DEF next
    <3>2. st \in SentState /\ st.pc = "calling" /\ st.at = next /\ sent' = [sent EXCEPT ![m] = st]
      BY <1>1, <1>2, <2>1, <3>1 DEF SentState
    <3> QED BY <3>1, <3>2
  <2> HIDE DEF st
  <2>3. SentTypes' /\ sent'[m] = st /\ \A k \in BusMessages \ {m} : sent'[k] = sent[k]
    BY <1>1, <1>2, <2>2, SentMoves
  <2>4. c \in Callbacks /\ at \in 1..n
    BY <1>2, <1>4, ElementOfSeq
  <2> HIDE DEF n, at, c
  <2>5. /\ heard' \in [BusMessages -> [Callbacks -> Nat]] /\ heard'[m][c] = heard[m][c] + 1
        /\ (\A d \in Callbacks \ {c} : heard'[m][d] = heard[m][d]) /\ \A k \in BusMessages \ {m} : heard'[k] = heard[k]
    BY <1>2, <2>1, <2>4
  <2>6. MemTypes' /\ LogIsTheEnd'
    BY <1>1, <1>2, <2>5 DEF MemTypes, LogIsTheEnd
  <2>7. ASSUME NEW k \in BusMessages \ {m} PROVE Publishing(k)'
    <3>1. steady[k] \subseteq Range(subs) /\ slid[k] \in Nat
      BY DEF MemInv, Publishing, MemTypes
    <3>2. \A d \in steady'[k] : Passed(k, d)' <=> Passed(k, d)
      BY <1>1, <2>3 DEF Passed
    <3> QED BY <1>1, <2>3, <2>5, <3>1, <3>2, PublishStays
  <2>8. Publishing(m)'
    <3>1. \A d : Passed(m, d)' <=> Passed(m, d) \/ d = c
      <4> TAKE d
      <4>1. \A i \in 1..n : i < at + 1 <=> i < at \/ i = at
        BY <1>2
      <4>2. Passed(m, d) <=> \E i \in 1..n : i < at /\ subs[i] = d
        BY DEF Passed, n, at
      <4>3. Passed(m, d)' <=> \E i \in 1..n : i < at + 1 /\ subs[i] = d
        BY <1>1, <2>2, <2>3 DEF Passed, n, at
      <4> QED BY <2>4, <4>1, <4>2, <4>3 DEF c
    <3>2. ~Passed(m, c)
      <4> SUFFICES ASSUME Passed(m, c) PROVE FALSE
        OBVIOUS
      <4>1. PICK i \in 1..n : i < at /\ subs[i] = c
        BY DEF Passed, n, at
      <4> QED BY <1>2, <2>4, <4>1 DEF c
    <3>3. steady[m] \subseteq Callbacks /\ Cardinality(Missed(m)) <= slid[m] /\ slid[m] \in Nat /\ steady[m] \subseteq Range(subs)
      BY MissedFinite, <1>2 DEF Publishing
    <3>4. \A d \in steady[m] : heard[m][d] <= 1 /\ heard[m][d] \in Nat /\ (heard[m][d] = 1 => Passed(m, d))
      BY <1>1, <1>2, <3>3 DEF Publishing
    <3>5. Missed(m)' \subseteq Missed(m)
      <4> SUFFICES ASSUME NEW d \in steady[m], heard'[m][d] = 0, Passed(m, d)' PROVE heard[m][d] = 0 /\ Passed(m, d)
        BY <1>1, <2>2, <2>3 DEF Missed
      <4>1. heard[m][c] \in Nat
        BY <1>2, <2>4
      <4>2. d # c
        BY <2>5, <4>1
      <4> QED BY <2>5, <3>1, <3>3, <4>2
    <3>6. Cardinality(Missed(m)') <= Cardinality(Missed(m)) /\ Cardinality(Missed(m)') \in Nat /\ Cardinality(Missed(m)) \in Nat
      <4>1. IsFiniteSet(Missed(m)') /\ Cardinality(Missed(m)') <= Cardinality(Missed(m))
        BY <3>5, MissedFinite, FS_Subset
      <4> QED BY <4>1, MissedFinite, FS_CardinalityType
    <3>7. \A d \in steady[m] : heard'[m][d] <= 1 /\ (Passed(m, d)' \/ heard'[m][d] # 1)
      <4> TAKE d \in steady[m]
      <4>1. CASE d = c
        <5>1. heard[m][c] = 0
          BY <3>2, <3>4, <4>1
        <5> QED BY <2>5, <3>1, <4>1, <5>1
      <4>2. CASE d # c
        <5>1. heard'[m][d] = heard[m][d]
          BY <2>5, <3>3, <4>2
        <5> QED BY <3>1, <3>4, <5>1
      <4> QED BY <4>1, <4>2
    <3>8. Cardinality(Missed(m)') <= slid[m]
      BY <3>3, <3>6
    <3>9. \A d \in steady'[m] : heard'[m][d] <= 1 /\ (heard'[m][d] = 1 => Passed(m, d)')
      BY <1>1, <3>7
    <3>10. steady'[m] \subseteq Range(subs') /\ Cardinality(Missed(m)') <= slid'[m]
      BY <1>1, <3>3, <3>8
    <3>11. sent'[m].pc = "calling"
      BY <2>2, <2>3
    <3> QED BY <3>9, <3>10, <3>11 DEF Publishing
  <2> QED BY <2>3, <2>6, <2>7, <2>8 DEF MemInv
<1>5. CASE ~(at <= n)
  <2> DEFINE st == [sent[m] EXCEPT !.pc = "done"]
  <2>1. heard' = heard /\ sent' = [sent EXCEPT ![m].pc = "done"]
    BY <1>5 DEF CallNext
  <2>2. st \in SentState /\ st.pc = "done" /\ st.at = at /\ sent' = [sent EXCEPT ![m] = st]
    BY <1>1, <1>2, <2>1 DEF SentState
  <2> HIDE DEF st
  <2>3. SentTypes' /\ sent'[m] = st /\ \A k \in BusMessages \ {m} : sent'[k] = sent[k]
    BY <1>1, <1>2, <2>2, SentMoves
  <2>4. MemTypes' /\ LogIsTheEnd'
    BY <1>1, <1>2, <2>1 DEF MemTypes, LogIsTheEnd
  <2>5. ASSUME NEW k \in BusMessages \ {m} PROVE Publishing(k)'
    <3>1. steady[k] \subseteq Range(subs) /\ slid[k] \in Nat
      BY DEF MemInv, Publishing, MemTypes
    <3>2. \A d \in steady'[k] : Passed(k, d)' <=> Passed(k, d)
      BY <1>1, <2>3 DEF Passed
    <3> QED BY <1>1, <2>1, <2>3, <3>1, <3>2, PublishStays
  <2>6. Publishing(m)'
    <3>1. \A d \in steady[m] : Passed(m, d)
      <4> SUFFICES ASSUME NEW d \in steady[m] PROVE Passed(m, d)
        OBVIOUS
      <4>1. PICK i \in 1..n : subs[i] = d
        BY <1>2, <1>3 DEF Publishing
      <4>2. i < at
        BY <1>2, <1>5
      <4> QED BY <4>1, <4>2 DEF Passed
    <3>2. Missed(m)' = Missed(m)
      BY <1>1, <2>1, <2>2, <2>3, <3>1 DEF Missed
    <3> QED BY <1>1, <1>2, <2>1, <2>2, <2>3, <3>2 DEF Publishing
  <2> QED BY <2>3, <2>4, <2>5, <2>6 DEF MemInv
<1> QED BY <1>4, <1>5

LEMMA MemSteps ==
    ASSUME MemInv, MemNext
    PROVE  MemInv'
BY MemSubscribed, MemUnsubscribed, MemPublished, MemCalled DEF MemNext

----------------------------------------------------------------------------
(* The bus over Redis.                                                     *)

LEMMA RedisFacts ==
    ASSUME RedisInv
    PROVE  /\ sent \in [BusMessages -> SentState] /\ everSent \in Seq(BusMessages)
           /\ stream \in [BusTenants -> Seq(BusMessages)] /\ snapshot \in [BusTenants -> BusMessages \union {NoMessage}]
           /\ channels \in [BusProcs -> SUBSET BusChannels] /\ tuned \in [BusProcs -> SUBSET BusChannels]
           /\ asked \in [BusProcs -> SUBSET BusChannels]
           /\ wired \in [BusProcs -> Seq(BusMessages)] /\ cbs \in [BusProcs -> Nat]
           /\ rheard \in [BusMessages -> [BusProcs -> [local: Nat, wire: Nat]]]
BY DEF RedisInv, SentTypes, SentState, RedisTypes

\* The listeners and their callbacks come and go; what was sent stays.
LEMMA SentStays ==
    ASSUME RedisInv, UNCHANGED <<sent, everSent, stream, snapshot>>
    PROVE  SentTypes' /\ SentShape' /\ StreamsShare' /\ SnapshotsFollow'
<1>1. SentTypes' /\ SentShape'
  BY DEF RedisInv, SentTypes, SentShape
<1>2. StreamsShare'
  <2>1. \A t \in BusTenants : OfTenant(everSent, t)' = OfTenant(everSent, t)
    BY DEF OfTenant
  <2> QED BY <2>1 DEF RedisInv, StreamsShare
<1>3. SnapshotsFollow'
  BY DEF RedisInv, SnapshotsFollow
<1> QED BY <1>1, <1>2, <1>3

LEMMA RedisSubscribed ==
    ASSUME RedisInv, NEW p \in BusProcs, NEW ch \in BusChannels, RedisSubscribe(p, ch) \/ RedisUnsubscribe(p, ch)
    PROVE  RedisInv'
<1>1. /\ UNCHANGED <<sent, everSent, stream, snapshot, tuned, wired, rheard>>
      /\ cbs' \in [BusProcs -> Nat]
      /\ channels' \in [BusProcs -> SUBSET BusChannels] /\ asked' \in [BusProcs -> SUBSET BusChannels]
      /\ \A q \in BusProcs : channels'[q] \subseteq asked'[q] /\ asked[q] \subseteq asked'[q]
  <2>1. \A q \in BusProcs : channels[q] \subseteq asked[q]
    BY DEF RedisInv, ChannelsAsked
  <2>2. CASE RedisSubscribe(p, ch)
    BY <2>1, <2>2, RedisFacts DEF RedisSubscribe
  <2>3. CASE RedisUnsubscribe(p, ch)
    <3>1. cbs' = [cbs EXCEPT ![p] = cbs[p] - 1] /\ cbs[p] > 0
      BY <2>3 DEF RedisUnsubscribe
    <3>2. cbs' \in [BusProcs -> Nat]
      BY <3>1, RedisFacts
    <3>3. /\ channels' = [channels EXCEPT ![p] = IF cbs[p] = 1 THEN @ \ {ch} ELSE @]
          /\ UNCHANGED <<sent, everSent, stream, snapshot, tuned, wired, asked, rheard>>
      BY <2>3 DEF RedisUnsubscribe
    <3> QED BY <2>1, <3>2, <3>3, RedisFacts
  <2> QED BY <2>2, <2>3
<1>2. RedisTypes' /\ ChannelsAsked'
  BY <1>1, RedisFacts DEF RedisTypes, RedisInv, ChannelsAsked
<1>3. WiresAreNew' /\ HeardOnce'
  BY <1>1 DEF RedisInv, WiresAreNew, HeardOnce
<1> QED BY <1>1, <1>2, <1>3, SentStays DEF RedisInv

LEMMA RedisTuned ==
    ASSUME RedisInv, NEW p \in BusProcs, ListenerTunes(p) \/ ListenerBreaks(p)
    PROVE  RedisInv'
<1>1. /\ UNCHANGED <<sent, everSent, stream, snapshot, channels, rheard, cbs, asked>>
      /\ tuned' \in [BusProcs -> SUBSET BusChannels] /\ wired' \in [BusProcs -> Seq(BusMessages)]
      /\ \A q \in BusProcs : tuned'[q] \subseteq asked[q] /\ (wired'[q] = wired[q] \/ wired'[q] = <<>>)
  <2>1. \A q \in BusProcs : channels[q] \subseteq asked[q] /\ tuned[q] \subseteq asked[q]
    BY DEF RedisInv, ChannelsAsked
  <2>2. <<>> \in Seq(BusMessages)
    BY EmptySeq
  <2>3. CASE ListenerTunes(p)
    BY <2>1, <2>3, RedisFacts DEF ListenerTunes
  <2>4. CASE ListenerBreaks(p)
    BY <2>1, <2>2, <2>4, RedisFacts DEF ListenerBreaks
  <2> QED BY <2>3, <2>4
<1>2. RedisTypes' /\ ChannelsAsked'
  BY <1>1, RedisFacts DEF RedisTypes, RedisInv, ChannelsAsked
<1>3. HeardOnce'
  BY <1>1 DEF RedisInv, HeardOnce
<1>4. WiresAreNew'
  <2> SUFFICES ASSUME NEW q \in BusProcs
               PROVE  /\ \A i, j \in 1..Len(wired'[q]) : wired'[q][i] = wired'[q][j] => i = j
                      /\ \A i \in 1..Len(wired'[q]) :
                            /\ sent'[wired'[q][i]].pc \in {"told", "done"} /\ rheard'[wired'[q][i]][q].wire = 0
                            /\ sent'[wired'[q][i]].tenant \in asked'[q]
    BY DEF WiresAreNew
  <2>1. CASE wired'[q] = wired[q]
    BY <1>1, <2>1 DEF RedisInv, WiresAreNew
  <2>2. CASE wired'[q] = <<>>
    BY <2>2, EmptySeq
  <2> QED BY <1>1, <2>1, <2>2
<1> QED BY <1>1, <1>2, <1>3, <1>4, SentStays DEF RedisInv

LEMMA RedisHeard ==
    ASSUME RedisInv, NEW p \in BusProcs, ListenerHears(p)
    PROVE  RedisInv'
<1> DEFINE w == wired[p]
           m == Head(w)
           r == Tail(w)
           n == Len(w)
<1>1. /\ w # <<>> /\ wired' = [wired EXCEPT ![p] = r]
      /\ rheard' = IF cbs[p] > 0 THEN [rheard EXCEPT ![m][p].wire = rheard[m][p].wire + 1] ELSE rheard
      /\ UNCHANGED <<sent, everSent, stream, snapshot, channels, tuned, cbs, asked>>
  BY DEF ListenerHears
<1>2. w \in Seq(BusMessages) /\ n \in Nat \ {0} /\ n = Len(w)
  BY <1>1, RedisFacts, EmptySeq
<1>3. m = w[1] /\ 1 \in 1..n /\ m \in BusMessages
  BY <1>1, <1>2, HeadTailProperties
<1>4. r \in Seq(BusMessages) /\ Len(r) = n - 1 /\ \A i \in 1..(n - 1) : r[i] = w[i + 1] /\ i + 1 \in 1..n /\ i + 1 # 1
  <2>1. r \in Seq(BusMessages) /\ Len(r) = Len(w) - 1 /\ \A i \in 1..Len(r) : r[i] = w[i + 1]
    BY <1>1, <1>2, HeadTailProperties
  <2> HIDE DEF r, w
  <2> QED BY <1>2, <2>1
<1>5. /\ \A i, j \in 1..n : w[i] = w[j] => i = j
      /\ \A i \in 1..n : sent[w[i]].pc \in {"told", "done"} /\ rheard[w[i]][p].wire = 0 /\ sent[w[i]].tenant \in asked[p]
  BY <1>2 DEF RedisInv, WiresAreNew
<1> HIDE DEF r, n, m, w
<1>6. wired' \in [BusProcs -> Seq(BusMessages)] /\ wired'[p] = r /\ \A q \in BusProcs \ {p} : wired'[q] = wired[q]
  BY <1>1, <1>4, RedisFacts
<1>7. /\ rheard' \in [BusMessages -> [BusProcs -> [local: Nat, wire: Nat]]]
      /\ \A k \in BusMessages, q \in BusProcs :
            /\ rheard'[k][q].local = rheard[k][q].local
            /\ k # m \/ q # p => rheard'[k][q].wire = rheard[k][q].wire
      /\ rheard'[m][p].wire = 0 \/ rheard'[m][p].wire = 1
  <2>1. rheard[m][p].wire = 0
    BY <1>3, <1>5
  <2>2. rheard \in [BusMessages -> [BusProcs -> [local: Nat, wire: Nat]]]
    BY RedisFacts
  <2>3. rheard' = rheard \/ rheard' = [rheard EXCEPT ![m][p].wire = 1]
    BY <1>1, <2>1
  <2>4. CASE rheard' = rheard
    BY <2>1, <2>2, <2>4
  <2>5. CASE rheard' = [rheard EXCEPT ![m][p].wire = 1]
    <3> DEFINE row == [rheard[m][p] EXCEPT !.wire = 1]
               rows == [rheard[m] EXCEPT ![p] = row]
    <3>1. row \in [local: Nat, wire: Nat] /\ row.wire = 1 /\ row.local = rheard[m][p].local
      <4>1. rheard[m][p] \in [local: Nat, wire: Nat]
        BY <1>3, <2>2
      <4> QED BY <4>1
    <3>2. rheard' = [rheard EXCEPT ![m] = rows]
      BY <1>3, <2>2, <2>5
    <3> HIDE DEF row
    <3>3. rows \in [BusProcs -> [local: Nat, wire: Nat]] /\ rows[p] = row /\ \A q \in BusProcs \ {p} : rows[q] = rheard[m][q]
      BY <1>3, <2>2, <3>1
    <3> HIDE DEF rows
    <3>4. /\ rheard' \in [BusMessages -> [BusProcs -> [local: Nat, wire: Nat]]] /\ rheard'[m] = rows
          /\ \A k \in BusMessages \ {m} : rheard'[k] = rheard[k]
      BY <1>3, <2>2, <3>2, <3>3
    <3> QED BY <3>1, <3>3, <3>4
  <2> QED BY <2>3, <2>4, <2>5
<1>8. RedisTypes' /\ ChannelsAsked'
  BY <1>1, <1>6, <1>7, RedisFacts DEF RedisTypes, RedisInv, ChannelsAsked
<1>9. HeardOnce'
  <2> SUFFICES ASSUME NEW k \in BusMessages, NEW q \in BusProcs
               PROVE  /\ rheard'[k][q].wire # 0 => rheard'[k][q].wire = 1 /\ sent[k].pc \in {"told", "done"} /\ sent[k].tenant \in asked[q]
                      /\ rheard'[k][q].local # 0 => rheard'[k][q].local = 1 /\ sent[k].pc = "done" /\ q = sent[k].proc
    BY <1>1 DEF HeardOnce
  <2>1. /\ rheard[k][q].wire # 0 => rheard[k][q].wire = 1 /\ sent[k].pc \in {"told", "done"} /\ sent[k].tenant \in asked[q]
        /\ rheard[k][q].local # 0 => rheard[k][q].local = 1 /\ sent[k].pc = "done" /\ q = sent[k].proc
    BY DEF RedisInv, HeardOnce
  <2>2. CASE k = m /\ q = p
    <3>1. sent[m].pc \in {"told", "done"} /\ sent[m].tenant \in asked[p]
      BY <1>3, <1>5
    <3> QED BY <1>7, <2>1, <2>2, <3>1
  <2>3. CASE ~(k = m /\ q = p)
    BY <1>7, <2>1, <2>3
  <2> QED BY <2>2, <2>3
<1>10. WiresAreNew'
  <2> SUFFICES ASSUME NEW q \in BusProcs
               PROVE  /\ \A i, j \in 1..Len(wired'[q]) : wired'[q][i] = wired'[q][j] => i = j
                      /\ \A i \in 1..Len(wired'[q]) :
                            /\ sent[wired'[q][i]].pc \in {"told", "done"} /\ rheard'[wired'[q][i]][q].wire = 0
                            /\ sent[wired'[q][i]].tenant \in asked[q]
    BY <1>1 DEF WiresAreNew
  <2>1. CASE q = p
    <3>1. \A i, j \in 1..(n - 1) : r[i] = r[j] => i = j
      <4> SUFFICES ASSUME NEW i \in 1..(n - 1), NEW j \in 1..(n - 1), r[i] = r[j] PROVE i = j
        OBVIOUS
      <4>1. i + 1 = j + 1
        BY <1>4, <1>5
      <4> QED BY <1>2, <4>1
    <3>2. ASSUME NEW i \in 1..(n - 1)
          PROVE  sent[r[i]].pc \in {"told", "done"} /\ rheard'[r[i]][p].wire = 0 /\ sent[r[i]].tenant \in asked[p]
      <4>1. r[i] = w[i + 1] /\ i + 1 \in 1..n /\ r[i] # m /\ r[i] \in BusMessages
        BY <1>3, <1>4, <1>5, ElementOfSeq
      <4> QED BY <1>5, <1>7, <4>1, SMTT(30)
    <3> QED BY <1>4, <1>6, <2>1, <3>1, <3>2
  <2>2. CASE q # p
    <3>1. /\ \A i, j \in 1..Len(wired[q]) : wired[q][i] = wired[q][j] => i = j
          /\ \A i \in 1..Len(wired[q]) :
                /\ sent[wired[q][i]].pc \in {"told", "done"} /\ rheard[wired[q][i]][q].wire = 0
                /\ sent[wired[q][i]].tenant \in asked[q]
      BY DEF RedisInv, WiresAreNew
    <3>2. wired'[q] = wired[q] /\ \A i \in 1..Len(wired[q]) : wired[q][i] \in BusMessages
      BY <1>6, <2>2, RedisFacts, ElementOfSeq
    <3>3. \A i \in 1..Len(wired[q]) : rheard'[wired[q][i]][q].wire = 0
      BY <1>7, <2>2, <3>1, <3>2
    <3>4. wired'[q] = wired[q]
      BY <3>2
    <3> QED BY <3>1, <3>3, <3>4
  <2> QED BY <2>1, <2>2
<1> QED BY <1>1, <1>8, <1>9, <1>10, SentStays DEF RedisInv

LEMMA StreamsGoOn ==
    ASSUME RedisInv, NEW m \in BusMessages, NEW st \in SentState, st.pc \in {"added", "stored", "told", "done"},
           sent[m].pc # "new", sent' = [sent EXCEPT ![m] = st], st.tenant = sent[m].tenant, st.proc = sent[m].proc,
           UNCHANGED <<everSent, stream>>
    PROVE  SentTypes' /\ SentShape' /\ StreamsShare' /\ sent'[m] = st /\ \A n \in BusMessages \ {m} : sent'[n] = sent[n]
<1>1. SentTypes' /\ sent'[m] = st /\ \A n \in BusMessages \ {m} : sent'[n] = sent[n]
  BY SentMoves DEF RedisInv
<1>2. SentShape'
  BY <1>1 DEF RedisInv, SentShape
<1>3. StreamsShare'
  <2> SUFFICES ASSUME NEW t \in BusTenants
               PROVE  /\ stream'[t] = OfTenant(everSent, t)'
                      /\ \A i \in 1..Len(stream'[t]) : sent'[stream'[t][i]].pc # "new" /\ sent'[stream'[t][i]].tenant = t
    BY DEF StreamsShare
  <2>1. {n \in BusMessages : sent'[n].tenant = t} = {n \in BusMessages : sent[n].tenant = t}
    BY <1>1
  <2>2. OfTenant(everSent, t)' = OfTenant(everSent, t)
    BY <2>1 DEF OfTenant
  <2>3. /\ stream[t] = OfTenant(everSent, t)
        /\ \A i \in 1..Len(stream[t]) : sent[stream[t][i]].pc # "new" /\ sent[stream[t][i]].tenant = t
    BY DEF RedisInv, StreamsShare
  <2>4. \A i \in 1..Len(stream[t]) : stream[t][i] \in BusMessages
    BY RedisFacts, ElementOfSeq
  <2>5. \A n \in BusMessages : sent[n].pc # "new" /\ sent[n].tenant = t => sent'[n].pc # "new" /\ sent'[n].tenant = t
    BY <1>1
  <2> QED BY <2>2, <2>3, <2>4, <2>5
<1> QED BY <1>1, <1>2, <1>3

\* What listeners are about to hear and what callbacks heard, while m goes on.
LEMMA HeardStays ==
    ASSUME RedisInv, NEW m \in BusMessages, \A n \in BusMessages \ {m} : sent'[n] = sent[n], UNCHANGED <<asked, rheard>>,
           sent[m].pc \in {"told", "done"} =>
               sent'[m].pc \in {"told", "done"} /\ sent'[m].tenant = sent[m].tenant /\ sent'[m].proc = sent[m].proc,
           sent[m].pc = "done" => sent'[m].pc = "done"
    PROVE  HeardOnce' /\ (UNCHANGED wired => WiresAreNew')
<1>1. HeardOnce'
  <2> SUFFICES ASSUME NEW k \in BusMessages, NEW q \in BusProcs
               PROVE  /\ rheard[k][q].wire # 0 => rheard[k][q].wire = 1 /\ sent'[k].pc \in {"told", "done"} /\ sent'[k].tenant \in asked[q]
                      /\ rheard[k][q].local # 0 => rheard[k][q].local = 1 /\ sent'[k].pc = "done" /\ q = sent'[k].proc
    BY DEF HeardOnce
  <2>1. /\ rheard[k][q].wire # 0 => rheard[k][q].wire = 1 /\ sent[k].pc \in {"told", "done"} /\ sent[k].tenant \in asked[q]
        /\ rheard[k][q].local # 0 => rheard[k][q].local = 1 /\ sent[k].pc = "done" /\ q = sent[k].proc
    BY DEF RedisInv, HeardOnce
  <2> QED BY <2>1
<1>2. ASSUME UNCHANGED wired PROVE WiresAreNew'
  <2> SUFFICES ASSUME NEW q \in BusProcs
               PROVE  /\ \A i, j \in 1..Len(wired[q]) : wired[q][i] = wired[q][j] => i = j
                      /\ \A i \in 1..Len(wired[q]) :
                            /\ sent'[wired[q][i]].pc \in {"told", "done"} /\ rheard[wired[q][i]][q].wire = 0
                            /\ sent'[wired[q][i]].tenant \in asked[q]
    BY <1>2 DEF WiresAreNew
  <2>1. /\ \A i, j \in 1..Len(wired[q]) : wired[q][i] = wired[q][j] => i = j
        /\ \A i \in 1..Len(wired[q]) :
              /\ sent[wired[q][i]].pc \in {"told", "done"} /\ rheard[wired[q][i]][q].wire = 0
              /\ sent[wired[q][i]].tenant \in asked[q]
    BY DEF RedisInv, WiresAreNew
  <2>2. \A i \in 1..Len(wired[q]) : wired[q][i] \in BusMessages
    BY RedisFacts, ElementOfSeq
  <2>3. \A k \in BusMessages : sent[k].pc \in {"told", "done"} => sent'[k].pc \in {"told", "done"} /\ sent'[k].tenant = sent[k].tenant
    OBVIOUS
  <2> QED BY <2>1, <2>2, <2>3
<1> QED BY <1>1, <1>2

LEMMA RedisAdded ==
    ASSUME RedisInv, NEW m \in BusMessages, XAdd(m)
    PROVE  RedisInv'
<1>1. PICK u \in BusTenants, p \in BusProcs \union {Elsewhere} :
        /\ sent' = [sent EXCEPT ![m].pc = "added", ![m].tenant = u, ![m].proc = p]
        /\ stream' = [stream EXCEPT ![u] = Append(stream[u], m)]
  BY DEF XAdd
<1> DEFINE st == [sent[m] EXCEPT !.pc = "added", !.tenant = u, !.proc = p]
<1>2. /\ sent[m].pc = "new" /\ everSent' = Append(everSent, m)
      /\ UNCHANGED <<snapshot, channels, tuned, wired, rheard, cbs, asked>>
  BY DEF XAdd
<1>3. st \in SentState /\ st.pc = "added" /\ st.tenant = u /\ st.proc = p /\ sent' = [sent EXCEPT ![m] = st]
  <2>1. sent[m] \in SentState
    BY RedisFacts
  <2> QED BY <1>1, <2>1, RedisFacts DEF SentState
<1> HIDE DEF st
<1>4. SentTypes' /\ sent'[m] = st /\ \A n \in BusMessages \ {m} : sent'[n] = sent[n]
  BY <1>2, <1>3, SentMoves DEF RedisInv
<1>5. SentShape'
  BY <1>3, <1>4 DEF RedisInv, SentShape
<1>6. \A t \in BusTenants : \A i \in 1..Len(stream[t]) :
        stream[t][i] \in BusMessages /\ stream[t][i] # m /\ sent[stream[t][i]].pc # "new" /\ sent[stream[t][i]].tenant = t
  <2>1. \A t \in BusTenants : \A i \in 1..Len(stream[t]) : stream[t][i] \in BusMessages
    BY RedisFacts, ElementOfSeq
  <2>2. \A t \in BusTenants : \A i \in 1..Len(stream[t]) : sent[stream[t][i]].pc # "new" /\ sent[stream[t][i]].tenant = t
    BY DEF RedisInv, StreamsShare
  <2> QED BY <1>2, <2>1, <2>2
<1> DEFINE a == Append(stream[u], m)
           n == Len(stream[u])
<1>7. /\ a \in Seq(BusMessages) /\ n \in Nat /\ Len(a) = n + 1 /\ (\A i \in 1..n : a[i] = stream[u][i]) /\ a[n + 1] = m
      /\ \A i \in 1..(n + 1) : i \in 1..n \/ i = n + 1
  BY RedisFacts, Appending
<1> HIDE DEF a, n
<1>8. stream' \in [BusTenants -> Seq(BusMessages)] /\ stream'[u] = a /\ \A t \in BusTenants \ {u} : stream'[t] = stream[t]
  BY <1>1, <1>7, RedisFacts DEF a
<1>9. ASSUME NEW t \in BusTenants
      PROVE  /\ stream'[t] = OfTenant(everSent, t)'
             /\ \A i \in 1..Len(stream'[t]) : sent'[stream'[t][i]].pc # "new" /\ sent'[stream'[t][i]].tenant = t
  <2> DEFINE now == {k \in BusMessages : sent[k].tenant = t}
             then == {k \in BusMessages : sent'[k].tenant = t}
  <2>1. OfTenant(everSent, t)' = Among(Append(everSent, m), then) /\ OfTenant(everSent, t) = Among(everSent, now)
    BY <1>2 DEF OfTenant
  <2>2. everSent \in Seq(BusMessages) /\ \A i \in 1..Len(everSent) : everSent[i] \in BusMessages /\ everSent[i] # m
    <3>1. \A i \in 1..Len(everSent) : sent[everSent[i]].pc # "new"
      BY DEF RedisInv, SentTypes
    <3> QED BY <1>2, <3>1, RedisFacts, ElementOfSeq
  <2>3. \A i \in 1..Len(everSent) : everSent[i] \in now <=> everSent[i] \in then
    BY <1>4, <2>2
  <2>4. m \in then <=> t = u
    BY <1>3, <1>4
  <2> HIDE DEF now, then
  <2>5. Among(everSent, now) = Among(everSent, then)
    BY <2>2, <2>3, AmongSame
  <2>6. Among(Append(everSent, m), then) = IF m \in then THEN Append(Among(everSent, then), m) ELSE Among(everSent, then)
    BY <2>2, AmongMore
  <2>7. stream[t] = Among(everSent, then)
    BY <2>1, <2>5 DEF RedisInv, StreamsShare
  <2>8. stream'[t] = OfTenant(everSent, t)'
    <3>1. CASE t = u
      BY <1>8, <2>1, <2>4, <2>6, <2>7, <3>1 DEF a
    <3>2. CASE t # u
      BY <1>8, <2>1, <2>4, <2>6, <2>7, <3>2
    <3> QED BY <3>1, <3>2
  <2>9. \A i \in 1..Len(stream[t]) : sent'[stream[t][i]].pc # "new" /\ sent'[stream[t][i]].tenant = t
    BY <1>4, <1>6
  <2>10. \A i \in 1..Len(stream'[t]) : sent'[stream'[t][i]].pc # "new" /\ sent'[stream'[t][i]].tenant = t
    <3>1. CASE t = u
      <4> SUFFICES ASSUME NEW i \in 1..(n + 1) PROVE sent'[a[i]].pc # "new" /\ sent'[a[i]].tenant = t
        BY <1>7, <1>8, <3>1
      <4>1. CASE i \in 1..n
        BY <1>7, <2>9, <3>1, <4>1 DEF n
      <4>2. CASE i = n + 1
        BY <1>3, <1>4, <1>7, <3>1, <4>2
      <4> QED BY <1>7, <4>1, <4>2
    <3>2. CASE t # u
      BY <1>8, <2>9, <3>2
    <3> QED BY <3>1, <3>2
  <2> QED BY <2>8, <2>10
<1>10. StreamsShare'
  BY <1>9 DEF StreamsShare
<1>11. SnapshotsFollow'
  <2> SUFFICES ASSUME NEW t \in BusTenants
               PROVE  IF snapshot[t] = NoMessage THEN \A i \in 1..Len(stream'[t]) : sent'[stream'[t][i]].pc = "added"
                      ELSE /\ sent'[snapshot[t]].pc \notin {"new", "added"}
                           /\ \A i, j \in 1..Len(stream'[t]) : (i < j /\ stream'[t][i] = snapshot[t]) =>
                                stream'[t][j] \in sent'[snapshot[t]].over \/ sent'[stream'[t][j]].pc = "added"
    BY <1>2 DEF SnapshotsFollow
  <2>1. IF snapshot[t] = NoMessage THEN \A i \in 1..Len(stream[t]) : sent[stream[t][i]].pc = "added"
        ELSE /\ sent[snapshot[t]].pc \notin {"new", "added"}
             /\ \A i, j \in 1..Len(stream[t]) : (i < j /\ stream[t][i] = snapshot[t]) =>
                  stream[t][j] \in sent[snapshot[t]].over \/ sent[stream[t][j]].pc = "added"
    BY DEF RedisInv, SnapshotsFollow
  <2>2. snapshot[t] \in BusMessages \union {NoMessage}
    BY RedisFacts
  <2>3. \A i \in 1..Len(stream[t]) : sent'[stream[t][i]] = sent[stream[t][i]]
    BY <1>4, <1>6
  <2>4. \A i \in 1..Len(stream'[t]) :
          \/ (i \in 1..Len(stream[t]) /\ stream'[t][i] = stream[t][i])
          \/ (stream'[t][i] = m /\ \A j \in 1..Len(stream'[t]) : ~(i < j))
    <3>1. CASE t = u
      <4>1. \A j \in 1..(n + 1) : ~(n + 1 < j)
        BY <1>7
      <4> QED BY <1>7, <1>8, <3>1, <4>1 DEF n
    <3>2. CASE t # u
      BY <1>8, <3>2
    <3> QED BY <3>1, <3>2
  <2>5. sent'[m].pc = "added"
    BY <1>3, <1>4
  <2>6. CASE snapshot[t] = NoMessage
    BY <2>1, <2>3, <2>4, <2>5, <2>6
  <2>7. CASE snapshot[t] # NoMessage
    <3>1. snapshot[t] \in BusMessages /\ snapshot[t] # m /\ sent'[snapshot[t]] = sent[snapshot[t]]
      BY <1>2, <1>4, <2>1, <2>2, <2>7
    <3>2. ASSUME NEW i \in 1..Len(stream'[t]), NEW j \in 1..Len(stream'[t]), i < j, stream'[t][i] = snapshot[t]
          PROVE  stream'[t][j] \in sent'[snapshot[t]].over \/ sent'[stream'[t][j]].pc = "added"
      <4>1. i \in 1..Len(stream[t]) /\ stream'[t][i] = stream[t][i]
        BY <2>4, <3>1, <3>2
      <4>2. CASE j \in 1..Len(stream[t]) /\ stream'[t][j] = stream[t][j]
        <5>1. stream[t][j] \in sent[snapshot[t]].over \/ sent[stream[t][j]].pc = "added"
          BY <2>1, <2>7, <3>2, <4>1, <4>2
        <5> QED BY <2>3, <3>1, <4>2, <5>1
      <4>3. CASE stream'[t][j] = m
        BY <2>5, <4>3
      <4> QED BY <2>4, <4>2, <4>3
    <3> QED BY <2>1, <2>7, <3>1, <3>2
  <2> QED BY <2>6, <2>7
<1>12. RedisTypes' /\ ChannelsAsked'
  BY <1>2, <1>8 DEF RedisTypes, RedisInv, ChannelsAsked
<1>13. HeardOnce' /\ WiresAreNew'
  BY <1>2, <1>4, HeardStays
<1> QED BY <1>4, <1>5, <1>10, <1>11, <1>12, <1>13 DEF RedisInv

LEMMA RedisStored ==
    ASSUME RedisInv, NEW m \in BusMessages, SetSnapshot(m)
    PROVE  RedisInv'
<1> DEFINE u == sent[m].tenant
           o == Behind(u, m)
           st == [sent[m] EXCEPT !.pc = "stored", !.over = o]
<1>1. /\ sent[m].pc = "added" /\ sent' = [sent EXCEPT ![m].pc = "stored", ![m].over = o]
      /\ snapshot' = [snapshot EXCEPT ![u] = m]
      /\ UNCHANGED <<everSent, stream, channels, tuned, wired, rheard, cbs, asked>>
  BY DEF SetSnapshot
<1>2. u \in BusTenants /\ sent[m] \in SentState
  BY <1>1, RedisFacts DEF RedisInv, SentShape
<1>3. /\ \A t \in BusTenants : \A i \in 1..Len(stream[t]) :
            stream[t][i] \in BusMessages /\ sent[stream[t][i]].pc # "new" /\ sent[stream[t][i]].tenant = t
      /\ \A x : x \in Range(stream[u]) <=> \E i \in 1..Len(stream[u]) : stream[u][i] = x
  <2>1. \A t \in BusTenants : \A i \in 1..Len(stream[t]) : stream[t][i] \in BusMessages
    BY RedisFacts, ElementOfSeq
  <2>2. \A t \in BusTenants : \A i \in 1..Len(stream[t]) : sent[stream[t][i]].pc # "new" /\ sent[stream[t][i]].tenant = t
    BY DEF RedisInv, StreamsShare
  <2>3. stream[u] \in Seq(BusMessages)
    BY <1>2, RedisFacts
  <2> HIDE DEF u
  <2>4. \A x : x \in Range(stream[u]) <=> \E i \in 1..Len(stream[u]) : stream[u][i] = x
    BY <2>3, RangeIs
  <2> QED BY <2>1, <2>2, <2>4
<1>4. /\ o \subseteq BusMessages
      /\ \A i, j \in 1..Len(stream[u]) : i < j /\ stream[u][i] = m => stream[u][j] \in o
  <2>1. Range(stream[u]) \subseteq BusMessages
    BY <1>2, <1>3
  <2>2. \A i, j \in 1..Len(stream[u]) : i < j /\ stream[u][i] = m => stream[u][j] \in Behind(u, m)
    BY <1>2, <1>3 DEF Behind
  <2> QED BY <2>1, <2>2 DEF Behind
<1> HIDE DEF o
<1>5. /\ st \in SentState /\ st.pc = "stored" /\ st.over = o /\ st.tenant = sent[m].tenant /\ st.proc = sent[m].proc
      /\ sent' = [sent EXCEPT ![m] = st]
  BY <1>1, <1>2, <1>4, RedisFacts DEF SentState
<1> HIDE DEF st
<1>6. SentTypes' /\ SentShape' /\ StreamsShare' /\ sent'[m] = st /\ \A n \in BusMessages \ {m} : sent'[n] = sent[n]
  BY <1>1, <1>5, StreamsGoOn
<1> HIDE DEF u
<1>7. snapshot' \in [BusTenants -> BusMessages \union {NoMessage}] /\ snapshot'[u] = m
      /\ \A t \in BusTenants \ {u} : snapshot'[t] = snapshot[t]
  BY <1>1, <1>2, RedisFacts
<1>8. SnapshotsFollow'
  <2> SUFFICES ASSUME NEW t \in BusTenants
               PROVE  IF snapshot'[t] = NoMessage THEN \A i \in 1..Len(stream[t]) : sent'[stream[t][i]].pc = "added"
                      ELSE /\ sent'[snapshot'[t]].pc \notin {"new", "added"}
                           /\ \A i, j \in 1..Len(stream[t]) : (i < j /\ stream[t][i] = snapshot'[t]) =>
                                stream[t][j] \in sent'[snapshot'[t]].over \/ sent'[stream[t][j]].pc = "added"
    <3>1. stream' = stream
      BY <1>1
    <3> QED BY <3>1, Zenon DEF SnapshotsFollow
  <2>1. CASE t = u
    <3>1. snapshot'[t] = m /\ m # NoMessage
      BY <1>7, <2>1, MessageAssumption
    <3> QED BY <1>4, <1>5, <1>6, <2>1, <3>1
  <2>2. CASE t # u
    <3>1. IF snapshot[t] = NoMessage THEN \A i \in 1..Len(stream[t]) : sent[stream[t][i]].pc = "added"
          ELSE /\ sent[snapshot[t]].pc \notin {"new", "added"}
               /\ \A i, j \in 1..Len(stream[t]) : (i < j /\ stream[t][i] = snapshot[t]) =>
                    stream[t][j] \in sent[snapshot[t]].over \/ sent[stream[t][j]].pc = "added"
      BY DEF RedisInv, SnapshotsFollow
    <3>2. \A i \in 1..Len(stream[t]) : sent'[stream[t][i]] = sent[stream[t][i]]
      BY <1>3, <1>6, <2>2 DEF u
    <3>3. snapshot'[t] = snapshot[t] /\ snapshot[t] \in BusMessages \union {NoMessage}
      BY <1>7, <2>2, RedisFacts
    <3>4. snapshot[t] # NoMessage => sent'[snapshot[t]] = sent[snapshot[t]]
      BY <1>1, <1>6, <3>1, <3>3
    <3> QED BY <3>1, <3>2, <3>3, <3>4
  <2> QED BY <2>1, <2>2
<1>9. RedisTypes' /\ ChannelsAsked'
  BY <1>1, <1>7 DEF RedisTypes, RedisInv, ChannelsAsked
<1>10. HeardOnce' /\ WiresAreNew'
  BY <1>1, <1>6, HeardStays
<1> QED BY <1>6, <1>8, <1>9, <1>10 DEF RedisInv

\* A message whose snapshot is written goes on; the snapshots stay.
LEMMA SnapshotsStay ==
    ASSUME RedisInv, NEW m \in BusMessages, sent[m].pc \notin {"new", "added"}, sent'[m].pc \notin {"new", "added"},
           sent'[m].over = sent[m].over, \A n \in BusMessages \ {m} : sent'[n] = sent[n], UNCHANGED <<stream, snapshot>>
    PROVE  SnapshotsFollow'
<1> SUFFICES ASSUME NEW t \in BusTenants
             PROVE  IF snapshot[t] = NoMessage THEN \A i \in 1..Len(stream[t]) : sent'[stream[t][i]].pc = "added"
                    ELSE /\ sent'[snapshot[t]].pc \notin {"new", "added"}
                         /\ \A i, j \in 1..Len(stream[t]) : (i < j /\ stream[t][i] = snapshot[t]) =>
                              stream[t][j] \in sent'[snapshot[t]].over \/ sent'[stream[t][j]].pc = "added"
  BY DEF SnapshotsFollow
<1>1. IF snapshot[t] = NoMessage THEN \A i \in 1..Len(stream[t]) : sent[stream[t][i]].pc = "added"
      ELSE /\ sent[snapshot[t]].pc \notin {"new", "added"}
           /\ \A i, j \in 1..Len(stream[t]) : (i < j /\ stream[t][i] = snapshot[t]) =>
                stream[t][j] \in sent[snapshot[t]].over \/ sent[stream[t][j]].pc = "added"
  BY DEF RedisInv, SnapshotsFollow
<1>2. \A i \in 1..Len(stream[t]) : stream[t][i] \in BusMessages
  BY RedisFacts, ElementOfSeq
<1>3. snapshot[t] \in BusMessages \union {NoMessage}
  BY RedisFacts
<1>4. \A n \in BusMessages : /\ sent[n].pc = "added" => sent'[n].pc = "added"
                             /\ sent[n].pc \notin {"new", "added"} => sent'[n].pc \notin {"new", "added"}
                             /\ sent'[n].over = sent[n].over
  OBVIOUS
<1> QED BY <1>1, <1>2, <1>3, <1>4

LEMMA RedisAnnounced ==
    ASSUME RedisInv, NEW m \in BusMessages, Announce(m)
    PROVE  RedisInv'
<1> DEFINE st == [sent[m] EXCEPT !.pc = "told"]
<1>1. /\ sent[m].pc = "stored" /\ sent' = [sent EXCEPT ![m].pc = "told"]
      /\ wired' = [p \in BusProcs |-> IF sent[m].tenant \in tuned[p] THEN Append(wired[p], m) ELSE wired[p]]
      /\ UNCHANGED <<everSent, stream, snapshot, channels, tuned, rheard, cbs, asked>>
  BY DEF Announce
<1>2. /\ st \in SentState /\ st.pc = "told" /\ st.over = sent[m].over /\ st.tenant = sent[m].tenant /\ st.proc = sent[m].proc
      /\ sent' = [sent EXCEPT ![m] = st]
  BY <1>1, RedisFacts DEF SentState
<1> HIDE DEF st
<1>3. SentTypes' /\ SentShape' /\ StreamsShare' /\ sent'[m] = st /\ \A n \in BusMessages \ {m} : sent'[n] = sent[n]
  BY <1>1, <1>2, StreamsGoOn
<1>4. SnapshotsFollow'
  BY <1>1, <1>2, <1>3, SnapshotsStay
<1>5. HeardOnce'
  BY <1>1, <1>2, <1>3, HeardStays
<1>6. ASSUME NEW q \in BusProcs
      PROVE  /\ wired'[q] \in Seq(BusMessages)
             /\ \A i, j \in 1..Len(wired'[q]) : wired'[q][i] = wired'[q][j] => i = j
             /\ \A i \in 1..Len(wired'[q]) :
                   /\ sent'[wired'[q][i]].pc \in {"told", "done"} /\ rheard[wired'[q][i]][q].wire = 0
                   /\ sent'[wired'[q][i]].tenant \in asked[q]
  <2> DEFINE w == wired[q]
             n == Len(w)
             a == Append(w, m)
  <2>1. /\ \A i, j \in 1..n : w[i] = w[j] => i = j
        /\ \A i \in 1..n : sent[w[i]].pc \in {"told", "done"} /\ rheard[w[i]][q].wire = 0 /\ sent[w[i]].tenant \in asked[q]
    BY DEF RedisInv, WiresAreNew
  <2>2. w \in Seq(BusMessages) /\ n \in Nat /\ \A i \in 1..n : w[i] \in BusMessages
    BY RedisFacts, ElementOfSeq, LenProperties
  <2>3. /\ a \in Seq(BusMessages) /\ Len(a) = n + 1 /\ (\A i \in 1..n : a[i] = w[i]) /\ a[n + 1] = m
        /\ \A i \in 1..(n + 1) : i \in 1..n \/ i = n + 1
    BY <2>2, Appending
  <2> HIDE DEF a, n
  <2>4. \A i \in 1..n : w[i] # m /\ sent'[w[i]] = sent[w[i]]
    BY <1>1, <1>3, <2>1, <2>2
  <2>5. CASE sent[m].tenant \in tuned[q]
    <3>1. wired'[q] = a
      BY <1>1, <2>5 DEF a
    <3>2. sent[m].tenant \in asked[q]
      BY <2>5 DEF RedisInv, ChannelsAsked
    <3>3. rheard[m][q].wire = 0
      BY <1>1 DEF RedisInv, HeardOnce
    <3>4. \A i, j \in 1..(n + 1) : a[i] = a[j] => i = j
      BY <2>1, <2>3, <2>4
    <3>5. ASSUME NEW i \in 1..(n + 1)
          PROVE  sent'[a[i]].pc \in {"told", "done"} /\ rheard[a[i]][q].wire = 0 /\ sent'[a[i]].tenant \in asked[q]
      <4>1. CASE i \in 1..n
        BY <2>1, <2>3, <2>4, <4>1
      <4>2. CASE i = n + 1
        BY <1>2, <1>3, <2>3, <3>2, <3>3, <4>2
      <4> QED BY <2>3, <4>1, <4>2
    <3> QED BY <2>3, <3>1, <3>4, <3>5
  <2>6. CASE sent[m].tenant \notin tuned[q]
    <3>1. wired'[q] = w
      BY <1>1, <2>6
    <3>2. \A i \in 1..n : sent'[w[i]].pc \in {"told", "done"} /\ rheard[w[i]][q].wire = 0 /\ sent'[w[i]].tenant \in asked[q]
      BY <2>1, <2>4
    <3> HIDE DEF w
    <3> QED BY <2>1, <2>2, <3>1, <3>2 DEF n
  <2> QED BY <2>5, <2>6
<1>7. wired' \in [BusProcs -> Seq(BusMessages)]
  <2>1. wired' = [p \in BusProcs |-> wired'[p]]
    BY <1>1
  <2> QED BY <1>6, <2>1
<1>8. WiresAreNew'
  BY <1>1, <1>6 DEF WiresAreNew
<1>9. RedisTypes' /\ ChannelsAsked'
  BY <1>1, <1>7 DEF RedisTypes, RedisInv, ChannelsAsked
<1> QED BY <1>3, <1>4, <1>5, <1>8, <1>9 DEF RedisInv

LEMMA RedisCalled ==
    ASSUME RedisInv, NEW m \in BusMessages, CallLocal(m)
    PROVE  RedisInv'
<1> DEFINE st == [sent[m] EXCEPT !.pc = "done"]
           p == sent[m].proc
<1>1. /\ sent[m].pc = "told" /\ sent' = [sent EXCEPT ![m].pc = "done"]
      /\ rheard' = IF p # Elsewhere /\ cbs[p] > 0 THEN [rheard EXCEPT ![m][p].local = rheard[m][p].local + 1] ELSE rheard
      /\ UNCHANGED <<everSent, stream, snapshot, channels, tuned, wired, cbs, asked>>
  BY DEF CallLocal
<1>2. /\ st \in SentState /\ st.pc = "done" /\ st.over = sent[m].over /\ st.tenant = sent[m].tenant /\ st.proc = p
      /\ sent' = [sent EXCEPT ![m] = st]
  BY <1>1, RedisFacts DEF SentState
<1>3. p \in BusProcs \union {Elsewhere}
  BY <1>1 DEF RedisInv, SentShape
<1> HIDE DEF st
<1>4. SentTypes' /\ SentShape' /\ StreamsShare' /\ sent'[m] = st /\ \A n \in BusMessages \ {m} : sent'[n] = sent[n]
  BY <1>1, <1>2, StreamsGoOn
<1>5. SnapshotsFollow'
  BY <1>1, <1>2, <1>4, SnapshotsStay
<1>6. /\ rheard' \in [BusMessages -> [BusProcs -> [local: Nat, wire: Nat]]]
      /\ \A k \in BusMessages, q \in BusProcs :
            /\ rheard'[k][q].wire = rheard[k][q].wire
            /\ k # m \/ q # p => rheard'[k][q].local = rheard[k][q].local
            /\ k = m /\ q = p => rheard'[k][q].local \in {0, 1}
  <2>0. rheard \in [BusMessages -> [BusProcs -> [local: Nat, wire: Nat]]]
    BY RedisFacts
  <2>1. \A q \in BusProcs : rheard[m][q].local = 0
    BY <1>1 DEF RedisInv, HeardOnce
  <2>2. rheard' = rheard \/ (p \in BusProcs /\ rheard' = [rheard EXCEPT ![m][p].local = 1])
    <3>1. CASE p # Elsewhere /\ cbs[p] > 0
      <4>1. p \in BusProcs /\ rheard' = [rheard EXCEPT ![m][p].local = rheard[m][p].local + 1]
        BY <1>1, <1>3, <3>1
      <4>2. rheard[m][p].local + 1 = 1
        BY <2>1, <4>1
      <4> QED BY <4>1, <4>2
    <3> QED BY <1>1, <3>1
  <2>3. CASE rheard' = rheard
    BY <2>0, <2>1, <2>3
  <2> HIDE DEF p
  <2>4. CASE p \in BusProcs /\ rheard' = [rheard EXCEPT ![m][p].local = 1]
    <3> DEFINE row == [rheard[m][p] EXCEPT !.local = 1]
               rows == [rheard[m] EXCEPT ![p] = row]
    <3>1. row \in [local: Nat, wire: Nat] /\ row.local = 1 /\ row.wire = rheard[m][p].wire
      <4>1. rheard[m][p] \in [local: Nat, wire: Nat]
        BY <2>0, <2>4
      <4> QED BY <4>1
    <3>2. rheard' = [rheard EXCEPT ![m] = rows]
      BY <2>0, <2>4
    <3> HIDE DEF row
    <3>3. rows \in [BusProcs -> [local: Nat, wire: Nat]] /\ rows[p] = row /\ \A q \in BusProcs \ {p} : rows[q] = rheard[m][q]
      BY <2>0, <2>4, <3>1
    <3> HIDE DEF rows
    <3>4. /\ rheard' \in [BusMessages -> [BusProcs -> [local: Nat, wire: Nat]]] /\ rheard'[m] = rows
          /\ \A k \in BusMessages \ {m} : rheard'[k] = rheard[k]
      BY <2>0, <3>2, <3>3
    <3> QED BY <3>1, <3>3, <3>4
  <2> QED BY <2>2, <2>3, <2>4
<1>7. HeardOnce'
  <2> SUFFICES ASSUME NEW k \in BusMessages, NEW q \in BusProcs
               PROVE  /\ rheard'[k][q].wire # 0 => rheard'[k][q].wire = 1 /\ sent'[k].pc \in {"told", "done"} /\ sent'[k].tenant \in asked[q]
                      /\ rheard'[k][q].local # 0 => rheard'[k][q].local = 1 /\ sent'[k].pc = "done" /\ q = sent'[k].proc
    BY <1>1 DEF HeardOnce
  <2>1. /\ rheard[k][q].wire # 0 => rheard[k][q].wire = 1 /\ sent[k].pc \in {"told", "done"} /\ sent[k].tenant \in asked[q]
        /\ rheard[k][q].local # 0 => rheard[k][q].local = 1 /\ sent[k].pc = "done" /\ q = sent[k].proc
    BY DEF RedisInv, HeardOnce
  <2> QED BY <1>1, <1>2, <1>4, <1>6, <2>1
<1>8. WiresAreNew'
  <2> SUFFICES ASSUME NEW q \in BusProcs
               PROVE  /\ \A i, j \in 1..Len(wired[q]) : wired[q][i] = wired[q][j] => i = j
                      /\ \A i \in 1..Len(wired[q]) :
                            /\ sent'[wired[q][i]].pc \in {"told", "done"} /\ rheard'[wired[q][i]][q].wire = 0
                            /\ sent'[wired[q][i]].tenant \in asked[q]
    BY <1>1 DEF WiresAreNew
  <2>1. /\ \A i, j \in 1..Len(wired[q]) : wired[q][i] = wired[q][j] => i = j
        /\ \A i \in 1..Len(wired[q]) :
              /\ sent[wired[q][i]].pc \in {"told", "done"} /\ rheard[wired[q][i]][q].wire = 0
              /\ sent[wired[q][i]].tenant \in asked[q]
    BY DEF RedisInv, WiresAreNew
  <2>2. \A i \in 1..Len(wired[q]) : wired[q][i] \in BusMessages
    BY RedisFacts, ElementOfSeq
  <2>3. \A k \in BusMessages : sent[k].pc \in {"told", "done"} => sent'[k].pc \in {"told", "done"} /\ sent'[k].tenant = sent[k].tenant
    BY <1>2, <1>4
  <2> QED BY <1>6, <2>1, <2>2, <2>3, ZenonT(60)
<1>9. RedisTypes' /\ ChannelsAsked'
  BY <1>1, <1>6 DEF RedisTypes, RedisInv, ChannelsAsked
<1> QED BY <1>4, <1>5, <1>7, <1>8, <1>9 DEF RedisInv

LEMMA RedisSteps ==
    ASSUME RedisInv, RedisNext
    PROVE  RedisInv' /\ UNCHANGED <<subs, busLog, heard, leaves, steady, slid>>
<1>1. RedisInv'
  <2>1. CASE \E p \in BusProcs : \/ \E ch \in BusChannels : RedisSubscribe(p, ch) \/ RedisUnsubscribe(p, ch)
                                 \/ ListenerTunes(p) \/ ListenerBreaks(p) \/ ListenerHears(p)
    <3>1. PICK p \in BusProcs : \/ \E ch \in BusChannels : RedisSubscribe(p, ch) \/ RedisUnsubscribe(p, ch)
                                \/ ListenerTunes(p) \/ ListenerBreaks(p) \/ ListenerHears(p)
      BY <2>1
    <3> QED BY <3>1, RedisSubscribed, RedisTuned, RedisHeard
  <2>2. CASE \E m \in BusMessages : XAdd(m) \/ SetSnapshot(m) \/ Announce(m) \/ CallLocal(m)
    BY <2>2, RedisAdded, RedisStored, RedisAnnounced, RedisCalled
  <2> QED BY <2>1, <2>2 DEF RedisNext
<1> QED BY <1>1 DEF RedisNext

----------------------------------------------------------------------------
(* What the invariants of the bus say of its readers.                      *)

LEMMA BusStart == BusInit => RedisIdle /\ MemIdle /\ MemInv /\ RedisInv
<1> SUFFICES ASSUME BusInit PROVE RedisIdle /\ MemIdle /\ MemInv /\ RedisInv
  OBVIOUS
<1>1. RedisIdle /\ MemIdle
  BY DEF BusInit, RedisIdle, MemIdle
<1>2. <<>> \in Seq(BusMessages) /\ <<>> \in Seq(Callbacks) /\ Len(<<>>) = 0
  BY EmptySeq
<1>3. sent = [m \in BusMessages |-> [pc |-> "new", at |-> 1, over |-> {}, tenant |-> NoTenant, proc |-> NoProc]] /\ everSent = <<>>
  BY DEF BusInit, NoTenant, NoProc
<1>4. \A m \in BusMessages : sent[m].pc = "new" /\ sent[m].at = 1
  BY <1>3
<1>5. sent \in [BusMessages -> SentState]
  BY <1>3 DEF SentState
<1>6. SentTypes
  BY <1>2, <1>3, <1>5 DEF SentTypes, SentState
<1>7. MemTypes /\ LogIsTheEnd
  <2>1. BusLog \in Nat
    BY BusAssumption
  <2> QED BY <1>1, <1>2, <1>3, <2>1 DEF MemIdle, MemTypes, LogIsTheEnd
<1>8. ASSUME NEW m \in BusMessages PROVE Publishing(m)
  <2>1. steady[m] = {} /\ heard[m] = [c \in Callbacks |-> 0] /\ slid[m] = 0
    BY <1>1 DEF MemIdle
  <2>2. Missed(m) = {}
    BY <2>1 DEF Missed
  <2>3. Cardinality(Missed(m)) = 0
    BY <2>2, FS_EmptySet
  <2> QED BY <1>4, <2>1, <2>3 DEF Publishing
<1>9. RedisTypes /\ ChannelsAsked
  BY <1>1, <1>2 DEF RedisIdle, RedisTypes, ChannelsAsked
<1>10. SentShape
  BY <1>4 DEF SentShape
<1>11. \A ms : Among(<<>>, ms) = <<>>
  <2> TAKE ms
  <2>1. PICK g \in [0..Len(<<>>) -> Seq(BusMessages)] : Keeps(g, <<>>, ms, Len(<<>>)) /\ Among(<<>>, ms) = g[Len(<<>>)]
    BY <1>2, AmongIs
  <2>2. g[0] = <<>> /\ Among(<<>>, ms) = g[0]
    BY <1>2, <2>1 DEF Keeps
  <2> QED BY <2>2
<1>12. \A t \in BusTenants : stream[t] = <<>> /\ snapshot[t] = NoMessage /\ OfTenant(everSent, t) = <<>>
  BY <1>1, <1>3, <1>11 DEF RedisIdle, OfTenant
<1>13. StreamsShare /\ SnapshotsFollow
  BY <1>2, <1>12 DEF StreamsShare, SnapshotsFollow
<1>14. WiresAreNew /\ HeardOnce
  BY <1>1, <1>2 DEF RedisIdle, WiresAreNew, HeardOnce
<1> QED BY <1>1, <1>6, <1>7, <1>8, <1>9, <1>10, <1>13, <1>14 DEF MemInv, RedisInv

LEMMA MemStutter == MemInv /\ UNCHANGED memVars => MemInv'
<1> SUFFICES ASSUME MemInv, UNCHANGED memVars PROVE MemInv'
  OBVIOUS
<1>1. SentTypes' /\ MemTypes' /\ LogIsTheEnd'
  BY DEF memVars, MemInv, SentTypes, MemTypes, LogIsTheEnd
<1>2. ASSUME NEW m \in BusMessages PROVE Publishing(m)'
  <2>1. steady[m] \subseteq Range(subs) /\ slid[m] \in Nat
    BY DEF MemInv, Publishing, MemTypes
  <2>2. \A c \in steady[m] : Passed(m, c)' <=> Passed(m, c)
    BY DEF memVars, Passed
  <2> QED BY <2>1, <2>2, PublishStays DEF memVars
<1> QED BY <1>1, <1>2 DEF MemInv

LEMMA RedisStutter == RedisInv /\ UNCHANGED <<sent, everSent, redisVars>> => RedisInv'
<1> SUFFICES ASSUME RedisInv, UNCHANGED <<sent, everSent, redisVars>> PROVE RedisInv'
  OBVIOUS
<1>1. UNCHANGED <<stream, snapshot, channels, tuned, wired, cbs, asked, rheard>>
  BY DEF redisVars
<1>2. RedisTypes' /\ ChannelsAsked' /\ WiresAreNew' /\ HeardOnce'
  BY <1>1 DEF RedisInv, RedisTypes, ChannelsAsked, WiresAreNew, HeardOnce
<1> QED BY <1>1, <1>2, SentStays DEF RedisInv

LEMMA BusTogether == BusInv /\ [Next]_mcVars => BusInv'
<1> SUFFICES ASSUME BusInv, [Next]_mcVars PROVE BusInv'
  OBVIOUS
<1>1. \/ UNCHANGED <<part, cbVars>>
      \/ part = "bus" /\ MemNext /\ UNCHANGED <<part, redisVars>>
      \/ part = "redisbus" /\ RedisNext /\ UNCHANGED part
  <2>1. CASE UNCHANGED mcVars
    BY <2>1 DEF mcVars
  <2>2. CASE Next
    BY <2>2, Zenon DEF Next
  <2> QED BY <2>1, <2>2
<1>2. CASE UNCHANGED <<part, cbVars>>
  <2>1. UNCHANGED part /\ UNCHANGED memVars /\ UNCHANGED redisVars
    BY <1>2 DEF cbVars
  <2>2. CASE part = "redisbus"
    <3>1. MemIdle'
      BY <2>1, <2>2 DEF BusInv, MemIdle, memVars
    <3>2. RedisInv'
      BY <2>1, <2>2, RedisStutter DEF BusInv, memVars
    <3> QED BY <2>1, <2>2, <3>1, <3>2 DEF BusInv
  <2>3. CASE part # "redisbus"
    <3>1. RedisIdle'
      BY <2>1, <2>3 DEF BusInv, RedisIdle, redisVars
    <3> QED BY <2>1, <2>3, <3>1, MemStutter DEF BusInv
  <2> QED BY <2>2, <2>3
<1>3. CASE part = "bus" /\ MemNext /\ UNCHANGED <<part, redisVars>>
  <2>1. RedisIdle'
    BY <1>3 DEF BusInv, RedisIdle, redisVars
  <2> QED BY <1>3, <2>1, MemSteps DEF BusInv
<1>4. CASE part = "redisbus" /\ RedisNext /\ UNCHANGED part
  <2>1. RedisInv' /\ UNCHANGED <<subs, busLog, heard, leaves, steady, slid>>
    BY <1>4, RedisSteps DEF BusInv
  <2>2. MemIdle'
    BY <1>4, <2>1 DEF BusInv, MemIdle
  <2> QED BY <1>4, <2>1, <2>2 DEF BusInv
<1> QED BY <1>1, <1>2, <1>3, <1>4

LEMMA QueryEnd ==
    ASSUME NEW S, NEW s \in Seq(S), NEW r \in Seq(S), NEW ms, NEW n \in Nat \ {0}, IsEnd(r, s)
    PROVE  IsSuffix(LastOf(Among(r, ms), n), Among(s, ms))
<1> DEFINE a == Among(r, ms)
           b == Among(s, ms)
<1>1. SameOf(r, ms, ms)
  BY DEF SameOf
<1>2. a \in Seq(S) /\ b \in Seq(S) /\ \E u \in Seq(S) : b = u \o a /\ (Len(s) = Len(r) => u = <<>>)
  BY <1>1, AmongEnd
<1> HIDE DEF a, b
<1>3. PICK u \in Seq(S) : b = u \o a
  BY <1>2
<1>4. LastOf(a, n) \in Seq(S) /\ IsEnd(LastOf(a, n), a)
  BY <1>2, LastOfIs
<1>5. IsEnd(LastOf(a, n), b)
  BY <1>2, <1>3, <1>4, EndOfEnd
<1>6. IsSuffix(LastOf(a, n), b)
  BY <1>2, <1>4, <1>5, EndIsSuffix
<1> QED BY <1>6 DEF a, b

LEMMA QueryReads ==
    ASSUME SentTypes, busLog \in Seq(BusMessages), LogIsTheEnd
    PROVE  QueryIsRecent
<1> SUFFICES ASSUME NEW t \in BusTenants PROVE IsSuffix(Query(t), OfTenant(everSent, t))
  BY DEF QueryIsRecent
<1> DEFINE ms == {m \in BusMessages : sent[m].tenant = t}
<1>1. everSent \in Seq(BusMessages) /\ QueryLimit \in Nat \ {0}
  BY BusAssumption DEF SentTypes
<1>2. Query(t) = LastOf(Among(busLog, ms), QueryLimit) /\ OfTenant(everSent, t) = Among(everSent, ms)
  BY DEF Query, OfTenant
<1> HIDE DEF ms
<1>3. IsEnd(busLog, everSent)
  BY DEF LogIsTheEnd, IsEnd
<1>4. IsSuffix(LastOf(Among(busLog, ms), QueryLimit), Among(everSent, ms))
  BY <1>1, <1>3, QueryEnd
<1> QED BY <1>2, <1>4

LEMMA RedisQueryReads ==
    ASSUME RedisInv, NEW t \in BusTenants
    PROVE  IsPrefix(RedisQuery(t), OfTenant(everSent, t))
<1> DEFINE s == stream[t]
           n == IF Len(s) < QueryLimit THEN Len(s) ELSE QueryLimit
           a == SubSeq(s, 1, n)
<1>1. s \in Seq(BusMessages) /\ s = OfTenant(everSent, t) /\ QueryLimit \in Nat \ {0} /\ RedisQuery(t) = a
  BY BusAssumption, RedisFacts DEF RedisInv, StreamsShare, RedisQuery
<1>2. Len(s) \in Nat /\ \A i \in 1..Len(s) : s[i] \in BusMessages
  BY <1>1, LenProperties, ElementOfSeq
<1> HIDE DEF s
<1>3. n \in Nat /\ n <= Len(s)
  BY <1>1, <1>2
<1> HIDE DEF n
<1>4. \A i \in 1..n : s[i] \in BusMessages
  BY <1>2, <1>3
<1>5. a \in Seq(BusMessages) /\ Len(a) = n /\ \A i \in 1..n : a[i] = s[i]
  <2>1. a \in Seq(BusMessages) /\ Len(a) = (IF 1 <= n THEN n - 1 + 1 ELSE 0) /\ \A i \in 1..(n - 1 + 1) : a[i] = s[1 + i - 1]
    BY <1>3, <1>4, SubSeqProperties
  <2> HIDE DEF a
  <2> QED BY <1>3, <2>1
<1> HIDE DEF a
<1>6. IsPrefix(a, s)
  BY <1>1, <1>3, <1>5, PrefixIs
<1> QED BY <1>1, <1>6

LEMMA MemHolds == MemInv /\ RedisIdle => BusDelivers
<1> SUFFICES ASSUME MemInv, RedisIdle PROVE BusDelivers
  OBVIOUS
<1>1. <<>> \in Seq(BusMessages) /\ Len(<<>>) = 0
  BY EmptySeq
<1>2. BusTypeOK
  BY <1>1 DEF MemInv, MemTypes, SentTypes, LogIsTheEnd, RedisIdle, BusTypeOK
<1>3. SteadyHear
  <2> SUFFICES ASSUME NEW m \in BusMessages
               PROVE  /\ \A c \in steady[m] : heard[m][c] <= 1
                      /\ sent[m].pc = "done" => Cardinality({c \in steady[m] : heard[m][c] = 0}) <= slid[m]
    BY DEF SteadyHear
  <2>1. Publishing(m)
    BY DEF MemInv
  <2>2. sent[m].pc = "done" => Missed(m) = {c \in steady[m] : heard[m][c] = 0}
    BY DEF Missed
  <2> QED BY <2>1, <2>2 DEF Publishing
<1>4. QueryIsRecent
  BY QueryReads DEF MemInv, MemTypes
<1>5. SnapshotIsRecent
  <2> SUFFICES ASSUME NEW t \in BusTenants PROVE stream[t] = <<>> /\ RedisQuery(t) = <<>>
    BY DEF SnapshotIsRecent
  <2>1. stream[t] = <<>>
    BY DEF RedisIdle
  <2>2. QueryLimit \in Nat \ {0} /\ 0 \in Int /\ 1 \in Int
    BY BusAssumption
  <2>3. RedisQuery(t) = SubSeq(<<>>, 1, 0)
    BY <1>1, <2>1, <2>2 DEF RedisQuery
  <2>4. SubSeq(<<>>, 1, 0) = <<>>
    BY <2>2, SubSeqEmpty
  <2> QED BY <2>1, <2>3, <2>4
<1>6. HeardAsAsked
  BY DEF RedisIdle, HeardAsAsked
<1> QED BY <1>2, <1>3, <1>4, <1>5, <1>6 DEF BusDelivers

LEMMA RedisHolds == RedisInv /\ MemIdle => BusDelivers
<1> SUFFICES ASSUME RedisInv, MemIdle PROVE BusDelivers
  OBVIOUS
<1>1. <<>> \in Seq(Callbacks) /\ <<>> \in Seq(BusMessages) /\ Len(<<>>) = 0 /\ BusLog \in Nat
  BY EmptySeq, BusAssumption
<1>2. BusTypeOK
  <2>1. \A m \in BusMessages : sent[m].pc \in {"new", "calling", "added", "stored", "told", "done"} /\ sent[m].at \in Nat
    BY RedisFacts DEF SentState
  <2>2. \A p \in BusProcs : tuned[p] \subseteq BusTenants \union {AllTenants} /\ wired[p] \in Seq(BusMessages)
    BY RedisFacts, BusAssumption
  <2>3. \A t \in BusTenants : snapshot[t] \in BusMessages \union {NoMessage}
    BY RedisFacts
  <2> QED BY <1>1, <2>1, <2>2, <2>3 DEF MemIdle, BusTypeOK
<1>3. SteadyHear
  <2> SUFFICES ASSUME NEW m \in BusMessages
               PROVE  /\ \A c \in steady[m] : heard[m][c] <= 1
                      /\ Cardinality({c \in steady[m] : heard[m][c] = 0}) <= slid[m]
    BY DEF SteadyHear
  <2>1. steady[m] = {} /\ slid[m] = 0
    BY DEF MemIdle
  <2>2. {c \in steady[m] : heard[m][c] = 0} = {}
    BY <2>1
  <2>3. Cardinality({c \in steady[m] : heard[m][c] = 0}) = 0
    BY <2>2, FS_EmptySet
  <2> QED BY <2>1, <2>3
<1>4. QueryIsRecent
  BY DEF MemIdle, QueryIsRecent
<1>5. SnapshotIsRecent
  <2> SUFFICES ASSUME NEW t \in BusTenants, stream[t] # <<>>, \A m \in Range(stream[t]) : sent[m].pc # "added"
               PROVE  snapshot[t] # NoMessage /\ Behind(t, snapshot[t]) \subseteq sent[snapshot[t]].over
    BY RedisQueryReads DEF SnapshotIsRecent
  <2> DEFINE s == stream[t]
             n == Len(s)
  <2>1. s \in Seq(BusMessages) /\ s # <<>> /\ n \in Nat
    BY RedisFacts, LenProperties
  <2>2. 1 \in 1..n /\ \A x : x \in Range(s) <=> \E i \in 1..n : s[i] = x
    BY <2>1, RangeIs, EmptySeq
  <2>3. \A i \in 1..n : s[i] \in Range(s) /\ sent[s[i]].pc # "added"
    BY <2>2
  <2>4. IF snapshot[t] = NoMessage THEN \A i \in 1..n : sent[s[i]].pc = "added"
        ELSE /\ sent[snapshot[t]].pc \notin {"new", "added"}
             /\ \A i, j \in 1..n : (i < j /\ s[i] = snapshot[t]) => s[j] \in sent[snapshot[t]].over \/ sent[s[j]].pc = "added"
    BY DEF RedisInv, SnapshotsFollow
  <2>5. snapshot[t] # NoMessage
    BY <2>2, <2>3, <2>4
  <2>6. Behind(t, snapshot[t]) \subseteq sent[snapshot[t]].over
    BY <2>3, <2>4, <2>5 DEF Behind
  <2> QED BY <2>5, <2>6
<1>6. HeardAsAsked
  <2> SUFFICES ASSUME NEW m \in BusMessages, NEW p \in BusProcs
               PROVE  /\ rheard[m][p].wire <= (IF sent[m].tenant \in asked[p] THEN 1 ELSE 0)
                      /\ rheard[m][p].local <= (IF p = sent[m].proc THEN 1 ELSE 0)
    BY DEF HeardAsAsked
  <2>1. /\ rheard[m][p].wire # 0 => rheard[m][p].wire = 1 /\ sent[m].tenant \in asked[p]
        /\ rheard[m][p].local # 0 => rheard[m][p].local = 1 /\ p = sent[m].proc
    BY DEF RedisInv, HeardOnce
  <2> QED BY <2>1
<1> QED BY <1>2, <1>3, <1>4, <1>5, <1>6 DEF BusDelivers

\* A message reaches whom it is for, in memory and over Redis: a callback that stays
\* through a publish hears it once, but for one that each removal in front of the
\* publish makes it pass over; a query is the end of all its tenant was sent; a
\* snapshot is behind its stream only by publishes that overlapped with its own; and
\* a process hears only the channels it asked for, once: for any number of messages,
\* tenants, processes, callbacks and any size of the log.
THEOREM BusStaysDelivering == Spec => []BusDelivers
<1>1. Init => BusInv
  BY BusStart DEF Init, BusInv
<1>2. BusInv => BusDelivers
  BY MemHolds, RedisHolds DEF BusInv
<1> QED BY <1>1, <1>2, BusTogether, PTL DEF Spec, mcVars

----------------------------------------------------------------------------
(* The orders of graphs: the topological sort and the waves, for any list  *)
(* of nodes and any edges.  Each loop of the code is described step by step *)
(* (DataLemmas), and then by what holds after each step.                   *)

LEMMA ListLoop ==
    ASSUME NEW S
    PROVE  \E g \in [0..GraphNodes -> Seq(GraphNode)] :
              /\ ListOf(S) = g[GraphNodes] /\ g[0] = <<>>
              /\ \A k \in 1..GraphNodes : g[k] = (IF k \in S THEN Append(g[k - 1], k) ELSE g[k - 1])
<1> DEFINE n == GraphNodes
           A == Seq(GraphNode)
           from == <<>>
           next(a, k) == IF k \in S THEN Append(a, k) ELSE a
           f == [x \in A \X (1..n) |-> next(x[1], x[2])]
           step(a) == [k \in 0..n |-> IF k = 0 THEN from ELSE next(a[k - 1], k)]
           loop == CHOOSE a : a = step(a)
<1>1. n \in Nat /\ from \in A
  BY GraphAssumption, EmptySeq
<1>2. \A a \in A, k \in 1..n : next(a, k) \in A
  BY GraphAssumption, AppendProperties DEF GraphNode
<1>3. ListOf(S) = loop[n]
  BY DEF ListOf
<1> HIDE DEF A, from, n, next
<1>4. f \in [A \X (1..n) -> A] /\ \A a \in A, k \in 1..n : f[<<a, k>>] = next(a, k)
  <2>1. \A a \in A, k \in 1..n : <<a, k>> \in A \X (1..n) /\ f[<<a, k>>] = next(a, k)
    OBVIOUS
  <2>2. \A x \in A \X (1..n) : next(x[1], x[2]) \in A
    BY <1>2
  <2> QED BY <2>1, <2>2
<1> HIDE DEF f
<1>5. PICK g \in [0..n -> A] : Counts(g, from, f, n)
  BY <1>1, <1>4, CountsExist
<1>6. g = step(g)
  <2>1. \A k \in 0..n : g[k] = IF k = 0 THEN from ELSE next(g[k - 1], k)
    <3> TAKE k \in 0..n
    <3>1. CASE k = 0
      BY <1>5, <3>1 DEF Counts
    <3>2. CASE k # 0
      <4>1. k \in 1..n /\ g[k - 1] \in A
        BY <1>1, <3>2
      <4>2. g[k] = f[<<g[k - 1], k>>]
        BY <1>5, <4>1 DEF Counts
      <4> QED BY <1>4, <3>2, <4>1, <4>2
    <3> QED BY <3>1, <3>2
  <2> QED BY <2>1
<1> HIDE DEF step
<1>7. loop = step(loop)
  BY <1>6
<1> HIDE DEF loop
<1>8. loop \in [0..n -> A] /\ Counts(loop, from, f, n)
  <2>1. PICK x : x = loop
    OBVIOUS
  <2>2. x = [k \in 0..n |-> IF k = 0 THEN from ELSE next(x[k - 1], k)]
    BY <1>7, <2>1 DEF step
  <2>3. CountsIn(x, from, f, n, A)
    <3>1. x[0] = from
      BY <1>1, <2>2
    <3>2. \A k \in 1..n : x[k] = next(x[k - 1], k)
      BY <1>1, <2>2
    <3> QED BY <1>4, <3>1, <3>2 DEF CountsIn
  <2>4. Counts(x, from, f, n) /\ \A k \in 0..n : x[k] \in A
    BY <1>1, <1>4, <2>3, CountsFrom
  <2>5. x \in [0..n -> A]
    BY <2>2, <2>4
  <2> QED BY <2>1, <2>4, <2>5
<1>9. \A k \in 1..n : loop[k] = next(loop[k - 1], k)
  <2>1. \A k \in 1..n : k - 1 \in 0..n
    BY <1>1
  <2> QED BY <1>4, <1>8, <2>1 DEF Counts
<1> QED BY <1>3, <1>8, <1>9 DEF A, from, n, next, Counts

\* Members of a sequence are there once.
Once(s) == \A i, j \in 1..Len(s) : s[i] = s[j] => i = j
In(s) == {s[i] : i \in 1..Len(s)}

LEMMA OnceMore ==
    ASSUME NEW S, NEW s \in Seq(S), NEW x \in S
    PROVE  /\ Append(s, x) \in Seq(S) /\ In(Append(s, x)) = In(s) \union {x}
           /\ Once(s) /\ x \notin In(s) => Once(Append(s, x))
<1>1. /\ Append(s, x) \in Seq(S) /\ Len(s) \in Nat /\ Len(Append(s, x)) = Len(s) + 1
      /\ \A i \in 1..Len(s) : Append(s, x)[i] = s[i]
      /\ Append(s, x)[Len(s) + 1] = x
      /\ \A i \in 1..(Len(s) + 1) : i \in 1..Len(s) \/ i = Len(s) + 1
  BY Appended
<1>2. \A i \in 1..Len(s) : i \in 1..(Len(s) + 1)
  BY <1>1
<1>3. Len(s) + 1 \in 1..(Len(s) + 1)
  BY <1>1
<1> QED BY <1>1, <1>2, <1>3 DEF In, Once

LEMMA NoneIn == <<>> \in Seq(GraphNode) /\ In(<<>>) = {} /\ Once(<<>>)
<1>1. Len(<<>>) = 0 /\ 1..0 = {} /\ <<>> \in Seq(GraphNode)
  BY EmptySeq
<1> QED BY <1>1 DEF In, Once

LEMMA ListIs ==
    ASSUME NEW S \in SUBSET GraphNode
    PROVE  ListOf(S) \in Seq(GraphNode) /\ In(ListOf(S)) = S /\ Once(ListOf(S))
<1>1. PICK g \in [0..GraphNodes -> Seq(GraphNode)] :
              /\ ListOf(S) = g[GraphNodes] /\ g[0] = <<>>
              /\ \A k \in 1..GraphNodes : g[k] = (IF k \in S THEN Append(g[k - 1], k) ELSE g[k - 1])
  BY ListLoop
<1> DEFINE T == {k \in 0..GraphNodes : In(g[k]) = S \intersect (1..k) /\ Once(g[k])}
<1>2. GraphNodes \in Nat /\ GraphNode = 1..GraphNodes
  BY GraphAssumption DEF GraphNode
<1>3. 0 \in T
  <2>1. 1..0 = {} /\ 0 \in 0..GraphNodes
    BY <1>2
  <2> QED BY <1>1, <2>1, NoneIn
<1>4. \A k \in 1..GraphNodes : k - 1 \in T => k \in T
  <2> TAKE k \in 1..GraphNodes
  <2> HAVE k - 1 \in T
  <2>1. /\ k \in GraphNode /\ g[k - 1] \in Seq(GraphNode) /\ In(g[k - 1]) = S \intersect (1..(k - 1)) /\ Once(g[k - 1])
        /\ 1..k = (1..(k - 1)) \union {k} /\ k \notin 1..(k - 1) /\ k \in 0..GraphNodes
    BY <1>1, <1>2
  <2>2. CASE k \in S
    <3>1. g[k] = Append(g[k - 1], k)
      BY <1>1, <2>2
    <3>2. In(g[k]) = In(g[k - 1]) \union {k} /\ Once(g[k])
      BY <2>1, <3>1, OnceMore
    <3> QED BY <2>1, <2>2, <3>2
  <2>3. CASE k \notin S
    <3>1. g[k] = g[k - 1]
      BY <1>1, <2>3
    <3> QED BY <2>1, <2>3, <3>1
  <2> QED BY <2>2, <2>3
<1> HIDE DEF T
<1>5. \A k \in 0..GraphNodes : k \in T
  BY <1>2, <1>3, <1>4, Up
<1>6. GraphNodes \in T /\ g[GraphNodes] \in Seq(GraphNode)
  BY <1>1, <1>2, <1>5
<1> QED BY <1>1, <1>2, <1>6 DEF T

GraphEdge == (0..GraphNodes) \X (0..GraphNodes)
SortState == [degree: [0..GraphNodes -> Int], queue: Seq(GraphNode), out: Seq(GraphNode)]
AfterHead(st) == [degree |-> st.degree, queue |-> Tail(st.queue), out |-> Append(st.out, Head(st.queue))]

LEMMA LoweredIs ==
    ASSUME NEW st \in SortState, NEW n \in 0..GraphNodes
    PROVE  /\ Lowered(st, n) \in SortState
           /\ Lowered(st, n).degree = [st.degree EXCEPT ![n] = @ - 1] /\ Lowered(st, n).out = st.out
           /\ Lowered(st, n).queue = IF st.degree[n] = 1 /\ n \in GraphNode THEN Append(st.queue, n) ELSE st.queue
<1> DEFINE d == [st.degree EXCEPT ![n] = @ - 1]
           q == IF st.degree[n] = 1 /\ n \in GraphNode THEN Append(st.queue, n) ELSE st.queue
<1>1. /\ st.degree \in [0..GraphNodes -> Int] /\ st.queue \in Seq(GraphNode) /\ st.out \in Seq(GraphNode)
  BY DEF SortState
<1>2. d \in [0..GraphNodes -> Int] /\ q \in Seq(GraphNode)
  <2>1. d \in [0..GraphNodes -> Int]
    <3>1. PICK c : c = st.degree
      OBVIOUS
    <3>2. c \in [0..GraphNodes -> Int]
      BY <1>1, <3>1
    <3>3. [c EXCEPT ![n] = @ - 1] \in [0..GraphNodes -> Int]
      BY <3>2
    <3> QED BY <3>1, <3>3
  <2>2. CASE n \in GraphNode
    <3>1. Append(st.queue, n) \in Seq(GraphNode)
      BY <1>1, <2>2, AppendProperties
    <3> QED BY <1>1, <2>1, <3>1
  <2>3. CASE n \notin GraphNode
    BY <1>1, <2>1, <2>3
  <2> QED BY <2>2, <2>3
<1>3. Lowered(st, n) = [degree |-> d, queue |-> q, out |-> st.out]
  BY DEF Lowered
<1> HIDE DEF d, q
<1>4. Lowered(st, n) \in SortState /\ Lowered(st, n).degree = d /\ Lowered(st, n).queue = q /\ Lowered(st, n).out = st.out
  BY <1>1, <1>2, <1>3 DEF SortState
<1> QED BY <1>4 DEF d, q

LEMMA HeadLeaves ==
    ASSUME NEW st \in SortState, st.queue # <<>>
    PROVE  /\ AfterHead(st) \in SortState /\ Head(st.queue) \in GraphNode
           /\ AfterHead(st).degree = st.degree /\ AfterHead(st).queue = Tail(st.queue)
           /\ AfterHead(st).out = Append(st.out, Head(st.queue))
<1>1. /\ st.degree \in [0..GraphNodes -> Int] /\ st.queue \in Seq(GraphNode) /\ st.out \in Seq(GraphNode)
  BY DEF SortState
<1>2. Head(st.queue) \in GraphNode /\ Tail(st.queue) \in Seq(GraphNode)
  BY <1>1, HeadTailProperties
<1>3. Append(st.out, Head(st.queue)) \in Seq(GraphNode)
  BY <1>1, <1>2, AppendProperties
<1>4. AfterHead(st) = [degree |-> st.degree, queue |-> Tail(st.queue), out |-> Append(st.out, Head(st.queue))]
  BY DEF AfterHead
<1> QED BY <1>1, <1>2, <1>3, <1>4 DEF SortState

LEMMA TakenLoop ==
    ASSUME NEW es \in Seq(GraphEdge), NEW st \in SortState, st.queue # <<>>
    PROVE  \E g \in [0..Len(es) -> SortState] :
              /\ Taken(es, st) = g[Len(es)] /\ g[0] = AfterHead(st)
              /\ \A k \in 1..Len(es) : g[k] = (IF es[k][1] = Head(st.queue) THEN Lowered(g[k - 1], es[k][2]) ELSE g[k - 1])
<1> DEFINE n == Len(es)
           A == SortState
           from == AfterHead(st)
           next(a, k) == IF es[k][1] = Head(st.queue) THEN Lowered(a, es[k][2]) ELSE a
           f == [x \in A \X (1..n) |-> next(x[1], x[2])]
           step(a) == [k \in 0..n |-> IF k = 0 THEN from ELSE next(a[k - 1], k)]
           loop == CHOOSE a : a = step(a)
<1>1. n \in Nat /\ from \in A
  BY HeadLeaves, LenProperties
<1>2. \A a \in A, k \in 1..n : next(a, k) \in A
  <2> SUFFICES ASSUME NEW a \in A, NEW k \in 1..n PROVE next(a, k) \in A
    OBVIOUS
  <2>1. es[k] \in GraphEdge
    BY ElementOfSeq
  <2>2. es[k][2] \in 0..GraphNodes
    BY <2>1 DEF GraphEdge
  <2>3. Lowered(a, es[k][2]) \in SortState
    BY <2>2, LoweredIs
  <2> QED BY <2>3
<1>3. Taken(es, st) = loop[n]
  BY DEF Taken, AfterHead
<1> HIDE DEF A, from, n, next
<1>4. f \in [A \X (1..n) -> A] /\ \A a \in A, k \in 1..n : f[<<a, k>>] = next(a, k)
  <2>1. \A a \in A, k \in 1..n : <<a, k>> \in A \X (1..n) /\ f[<<a, k>>] = next(a, k)
    OBVIOUS
  <2>2. \A x \in A \X (1..n) : next(x[1], x[2]) \in A
    BY <1>2
  <2> QED BY <2>1, <2>2
<1> HIDE DEF f
<1>5. PICK g \in [0..n -> A] : Counts(g, from, f, n)
  BY <1>1, <1>4, CountsExist
<1>6. g = step(g)
  <2>1. \A k \in 0..n : g[k] = IF k = 0 THEN from ELSE next(g[k - 1], k)
    <3> TAKE k \in 0..n
    <3>1. CASE k = 0
      BY <1>5, <3>1 DEF Counts
    <3>2. CASE k # 0
      <4>1. k \in 1..n /\ g[k - 1] \in A
        BY <1>1, <3>2
      <4>2. g[k] = f[<<g[k - 1], k>>]
        BY <1>5, <4>1 DEF Counts
      <4> QED BY <1>4, <3>2, <4>1, <4>2
    <3> QED BY <3>1, <3>2
  <2> QED BY <2>1
<1> HIDE DEF step
<1>7. loop = step(loop)
  BY <1>6
<1> HIDE DEF loop
<1>8. loop \in [0..n -> A] /\ Counts(loop, from, f, n)
  <2>1. PICK x : x = loop
    OBVIOUS
  <2>2. x = [k \in 0..n |-> IF k = 0 THEN from ELSE next(x[k - 1], k)]
    BY <1>7, <2>1 DEF step
  <2>3. CountsIn(x, from, f, n, A)
    <3>1. x[0] = from
      BY <1>1, <2>2
    <3>2. \A k \in 1..n : x[k] = next(x[k - 1], k)
      BY <1>1, <2>2
    <3> QED BY <1>4, <3>1, <3>2 DEF CountsIn
  <2>4. Counts(x, from, f, n) /\ \A k \in 0..n : x[k] \in A
    BY <1>1, <1>4, <2>3, CountsFrom
  <2>5. x \in [0..n -> A]
    BY <2>2, <2>4
  <2> QED BY <2>1, <2>4, <2>5
<1>9. \A k \in 1..n : loop[k] = next(loop[k - 1], k)
  <2>1. \A k \in 1..n : k - 1 \in 0..n
    BY <1>1
  <2> QED BY <1>4, <1>8, <2>1 DEF Counts
<1> QED BY <1>3, <1>8, <1>9 DEF A, from, n, next, Counts

FirstRound(es) == [degree |-> [n \in 0..GraphNodes |-> InDegree(es, n)],
                   queue |-> ListOf({n \in GraphNode : InDegree(es, n) = 0}), out |-> <<>>]

LEMMA DegreesCount ==
    ASSUME NEW es \in Seq(GraphEdge), NEW I \in SUBSET (1..Len(es))
    PROVE  IsFiniteSet(I) /\ Cardinality(I) \in Nat
<1>1. Len(es) \in Nat /\ IsFiniteSet(1..Len(es))
  BY LenProperties, UpTo
<1> QED BY <1>1, FS_Subset, FS_CardinalityType

LEMMA FirstIn == ASSUME NEW es \in Seq(GraphEdge) PROVE FirstRound(es) \in SortState
<1> DEFINE S == {n \in GraphNode : InDegree(es, n) = 0}
           d == [n \in 0..GraphNodes |-> InDegree(es, n)]
<1>1. ListOf(S) \in Seq(GraphNode) /\ <<>> \in Seq(GraphNode)
  BY ListIs, NoneIn
<1>2. \A n \in 0..GraphNodes : InDegree(es, n) \in Int
  BY DegreesCount DEF InDegree
<1>3. d \in [0..GraphNodes -> Int]
  BY <1>2
<1> HIDE DEF S, d
<1>4. FirstRound(es) = [degree |-> d, queue |-> ListOf(S), out |-> <<>>]
  BY DEF FirstRound, S, d
<1> QED BY <1>1, <1>3, <1>4 DEF SortState

LEMMA TakenIn == ASSUME NEW es \in Seq(GraphEdge), NEW st \in SortState, st.queue # <<>> PROVE Taken(es, st) \in SortState
<1>1. PICK g \in [0..Len(es) -> SortState] : Taken(es, st) = g[Len(es)]
  BY TakenLoop
<1>2. Len(es) \in 0..Len(es)
  BY LenProperties
<1> QED BY <1>1, <1>2

Rounds(g, es) ==
    /\ KahnOrder(es) = g[GraphNodes].out /\ g[0] = FirstRound(es)
    /\ \A k \in 1..GraphNodes : g[k] = IF g[k - 1].queue = <<>> THEN g[k - 1] ELSE Taken(es, g[k - 1])

LEMMA RoundLoop ==
    ASSUME NEW es \in Seq(GraphEdge)
    PROVE  \E g \in [0..GraphNodes -> SortState] :
              Rounds(g, es)
<1> DEFINE n == GraphNodes
           A == SortState
           from == FirstRound(es)
           next(a, k) == IF a.queue = <<>> THEN a ELSE Taken(es, a)
           f == [x \in A \X (1..n) |-> next(x[1], x[2])]
           step(a) == [k \in 0..n |-> IF k = 0 THEN from ELSE next(a[k - 1], k)]
           loop == CHOOSE a : a = step(a)
<1>1. n \in Nat /\ from \in A
  BY GraphAssumption, FirstIn
<1>2. \A a \in A, k \in 1..n : next(a, k) \in A
  BY TakenIn
<1>3. KahnOrder(es) = loop[n].out
  BY DEF KahnOrder, FirstRound
<1> HIDE DEF A, from, n, next
<1>4. f \in [A \X (1..n) -> A] /\ \A a \in A, k \in 1..n : f[<<a, k>>] = next(a, k)
  <2>1. \A a \in A, k \in 1..n : <<a, k>> \in A \X (1..n) /\ f[<<a, k>>] = next(a, k)
    OBVIOUS
  <2>2. \A x \in A \X (1..n) : next(x[1], x[2]) \in A
    BY <1>2
  <2> QED BY <2>1, <2>2
<1> HIDE DEF f
<1>5. PICK g \in [0..n -> A] : Counts(g, from, f, n)
  BY <1>1, <1>4, CountsExist
<1>6. g = step(g)
  <2>1. \A k \in 0..n : g[k] = IF k = 0 THEN from ELSE next(g[k - 1], k)
    <3> TAKE k \in 0..n
    <3>1. CASE k = 0
      BY <1>5, <3>1 DEF Counts
    <3>2. CASE k # 0
      <4>1. k \in 1..n /\ g[k - 1] \in A
        BY <1>1, <3>2
      <4>2. g[k] = f[<<g[k - 1], k>>]
        BY <1>5, <4>1 DEF Counts
      <4> QED BY <1>4, <3>2, <4>1, <4>2
    <3> QED BY <3>1, <3>2
  <2> QED BY <2>1
<1> HIDE DEF step
<1>7. loop = step(loop)
  BY <1>6
<1> HIDE DEF loop
<1>8. loop \in [0..n -> A] /\ Counts(loop, from, f, n)
  <2>1. PICK x : x = loop
    OBVIOUS
  <2>2. x = [k \in 0..n |-> IF k = 0 THEN from ELSE next(x[k - 1], k)]
    BY <1>7, <2>1 DEF step
  <2>3. CountsIn(x, from, f, n, A)
    <3>1. x[0] = from
      BY <1>1, <2>2
    <3>2. \A k \in 1..n : x[k] = next(x[k - 1], k)
      BY <1>1, <2>2
    <3> QED BY <1>4, <3>1, <3>2 DEF CountsIn
  <2>4. Counts(x, from, f, n) /\ \A k \in 0..n : x[k] \in A
    BY <1>1, <1>4, <2>3, CountsFrom
  <2>5. x \in [0..n -> A]
    BY <2>2, <2>4
  <2> QED BY <2>1, <2>4, <2>5
<1>9. \A k \in 1..n : loop[k] = next(loop[k - 1], k)
  <2>1. \A k \in 1..n : k - 1 \in 0..n
    BY <1>1
  <2> QED BY <1>4, <1>8, <2>1 DEF Counts
<1> QED BY <1>3, <1>8, <1>9 DEF A, from, n, next, Counts, Rounds

LEMMA TailIs ==
    ASSUME NEW S, NEW s \in Seq(S), s # <<>>
    PROVE  /\ Tail(s) \in Seq(S) /\ Head(s) \in S /\ In(Tail(s)) \union {Head(s)} = In(s)
           /\ Once(s) => Once(Tail(s)) /\ Head(s) \notin In(Tail(s))
<1> DEFINE t == Tail(s)
<1>1. /\ t \in Seq(S) /\ Len(s) \in Nat \ {0} /\ Len(t) = Len(s) - 1 /\ Head(s) = s[1] /\ Head(s) \in S
      /\ \A i \in 1..Len(t) : t[i] = s[i + 1]
  BY HeadTailProperties, EmptySeq
<1> HIDE DEF t
<1>2. \A i \in 1..Len(t) : i + 1 \in 1..Len(s) /\ i + 1 # 1
  BY <1>1
<1>3. \A i \in 1..Len(s) : i = 1 \/ (i - 1 \in 1..Len(t) /\ t[i - 1] = s[i])
  <2> TAKE i \in 1..Len(s)
  <2>1. CASE i # 1
    <3>1. i - 1 \in 1..Len(t) /\ (i - 1) + 1 = i
      BY <1>1, <2>1
    <3>2. t[i - 1] = s[(i - 1) + 1]
      BY <1>1, <3>1
    <3> QED BY <3>1, <3>2
  <2> QED BY <2>1
<1>4. 1 \in 1..Len(s)
  BY <1>1
<1>5. In(t) \union {Head(s)} = In(s)
  <2>1. \A i \in 1..Len(t) : t[i] \in In(s)
    BY <1>1, <1>2 DEF In
  <2>2. \A i \in 1..Len(s) : s[i] \in In(t) \union {s[1]}
    BY <1>3 DEF In
  <2> QED BY <1>1, <1>4, <2>1, <2>2 DEF In
<1>6. ASSUME Once(s) PROVE Once(t) /\ Head(s) \notin In(t)
  <2>1. \A i, j \in 1..Len(t) : t[i] = t[j] => i = j
    <3> TAKE i, j \in 1..Len(t)
    <3> HAVE t[i] = t[j]
    <3>1. s[i + 1] = s[j + 1] /\ i + 1 \in 1..Len(s) /\ j + 1 \in 1..Len(s)
      BY <1>1, <1>2
    <3>2. i + 1 = j + 1
      BY <1>6, <3>1 DEF Once
    <3> QED BY <3>2
  <2>2. \A i \in 1..Len(t) : t[i] # s[1]
    BY <1>1, <1>2, <1>4, <1>6 DEF Once
  <2> QED BY <1>1, <2>1, <2>2 DEF Once, In
<1> QED BY <1>1, <1>5, <1>6 DEF t

LEMMA OnceCounts ==
    ASSUME NEW S, NEW s \in Seq(S), Once(s)
    PROVE  IsFiniteSet(In(s)) /\ Cardinality(In(s)) = Len(s) /\ Len(s) \in Nat
<1> DEFINE f == [i \in 1..Len(s) |-> s[i]]
<1>1. Len(s) \in Nat /\ IsFiniteSet(1..Len(s)) /\ Cardinality(1..Len(s)) = Len(s)
  BY LenProperties, UpTo
<1>2. f \in [1..Len(s) -> In(s)] /\ (\A i, j \in 1..Len(s) : f[i] = f[j] => i = j) /\ \A x \in In(s) : \E i \in 1..Len(s) : f[i] = x
  BY DEF In, Once
<1> HIDE DEF f
<1>3. f \in Bijection(1..Len(s), In(s))
  <2>1. f \in Injection(1..Len(s), In(s))
    BY <1>2 DEF Injection, IsInjective
  <2>2. f \in Surjection(1..Len(s), In(s))
    BY <1>2 DEF Surjection
  <2> QED BY <2>1, <2>2 DEF Bijection
<1>4. ExistsBijection(1..Len(s), In(s))
  BY <1>3 DEF ExistsBijection
<1> QED BY <1>1, <1>4, FS_Bijection

LEMMA NodesAre == GraphNodes \in Nat \ {0} /\ GraphNode = 1..GraphNodes /\ IsFiniteSet(GraphNode) /\ Cardinality(GraphNode) = GraphNodes
BY GraphAssumption, UpTo DEF GraphNode

LEMMA InIs ==
    ASSUME NEW S, NEW s \in Seq(S)
    PROVE  In(s) \subseteq S /\ (In(s) = {} => s = <<>>) /\ Len(s) \in Nat /\ Range(s) = In(s)
<1>1. Len(s) \in Nat /\ DOMAIN s = 1..Len(s) /\ (s # <<>> => Len(s) \in Nat \ {0}) /\ \A i \in 1..Len(s) : s[i] \in S
  BY LenProperties, EmptySeq, ElementOfSeq
<1>2. s # <<>> => 1 \in 1..Len(s)
  BY <1>1
<1> QED BY <1>1, <1>2 DEF In, Range

----------------------------------------------------------------------------
\* The edges into a node that are still open: those from nodes that are not done, but
\* for the first k of the node c, which is being done.
OpenInto(es, done, n) == {i \in 1..Len(es) : es[i][2] = n /\ es[i][1] \notin done}
HalfOpen(es, done, c, k, n) == {i \in 1..Len(es) : es[i][2] = n /\ es[i][1] \notin done /\ ~(es[i][1] = c /\ i <= k)}

SortInv(es, st) ==
    /\ st \in SortState /\ Once(st.out) /\ Once(st.queue) /\ In(st.out) \intersect In(st.queue) = {}
    /\ \A n \in 0..GraphNodes : st.degree[n] = Cardinality(OpenInto(es, In(st.out), n))
    /\ \A n \in GraphNode : n \in In(st.out) \union In(st.queue) <=> OpenInto(es, In(st.out), n) = {}
    /\ \A k \in 1..Len(st.out) : \A m \in DependsOn(es, st.out[k]) : \E j \in 1..(k - 1) : st.out[j] = m

Between(es, st, x, k) ==
    LET c == Head(st.queue)
        done == In(st.out) IN
    /\ x \in SortState /\ x.out = Append(st.out, c) /\ Once(x.queue)
    /\ c \notin In(x.queue) /\ done \intersect In(x.queue) = {}
    /\ \A n \in 0..GraphNodes : x.degree[n] = Cardinality(HalfOpen(es, done, c, k, n))
    /\ \A n \in GraphNode : n \in done \union {c} \union In(x.queue) <=> HalfOpen(es, done, c, k, n) = {}

LEMMA FirstSorted == ASSUME NEW es \in Seq(GraphEdge) PROVE SortInv(es, FirstRound(es))
<1> DEFINE st == FirstRound(es)
           S == {n \in GraphNode : InDegree(es, n) = 0}
<1>1. st \in SortState /\ st.out = <<>> /\ st.queue = ListOf(S)
  BY FirstIn DEF FirstRound
<1>2. In(st.out) = {} /\ Once(st.out) /\ Len(st.out) = 0
  BY <1>1, NoneIn
<1>3. S \in SUBSET GraphNode
  OBVIOUS
<1>4. In(st.queue) = S /\ Once(st.queue)
  BY <1>1, <1>3, ListIs
<1>5. \A n : OpenInto(es, {}, n) = {i \in 1..Len(es) : es[i][2] = n}
  BY DEF OpenInto
<1>6. \A n \in 0..GraphNodes : st.degree[n] = Cardinality(OpenInto(es, {}, n))
  BY <1>5 DEF FirstRound, InDegree
<1>7. \A n \in GraphNode : n \in S <=> OpenInto(es, {}, n) = {}
  <2> TAKE n \in GraphNode
  <2>1. OpenInto(es, {}, n) \in SUBSET (1..Len(es))
    BY <1>5
  <2>2. IsFiniteSet(OpenInto(es, {}, n))
    BY <2>1, DegreesCount
  <2> QED BY <1>5, <2>2, FS_EmptySet DEF InDegree
<1> HIDE DEF st, S
<1>8. 1..0 = {}
  OBVIOUS
<1> QED BY <1>1, <1>2, <1>4, <1>6, <1>7, <1>8 DEF SortInv, st

LEMMA BetweenStarts ==
    ASSUME NEW es \in Seq(GraphEdge), NEW st, SortInv(es, st), st.queue # <<>>
    PROVE  Between(es, st, AfterHead(st), 0)
<1> DEFINE c == Head(st.queue)
           done == In(st.out)
           x == AfterHead(st)
<1>1. st \in SortState /\ st.queue \in Seq(GraphNode)
  BY DEF SortInv, SortState
<1>2. x \in SortState /\ x.degree = st.degree /\ x.queue = Tail(st.queue) /\ x.out = Append(st.out, c)
  BY <1>1, HeadLeaves
<1>3. In(Tail(st.queue)) \union {c} = In(st.queue) /\ Once(Tail(st.queue)) /\ c \notin In(Tail(st.queue))
  BY <1>1, TailIs DEF SortInv
<1>4. \A n : HalfOpen(es, done, c, 0, n) = OpenInto(es, done, n)
  <2>1. Len(es) \in Nat /\ \A i \in 1..Len(es) : ~(i <= 0)
    BY LenProperties
  <2> QED BY <2>1 DEF HalfOpen, OpenInto
<1> HIDE DEF c, done, x
<1>5. done \intersect In(x.queue) = {}
  BY <1>2, <1>3 DEF SortInv, done
<1>6. \A n \in 0..GraphNodes : x.degree[n] = Cardinality(HalfOpen(es, done, c, 0, n))
  BY <1>2, <1>4 DEF SortInv, done
<1>7. \A n \in GraphNode : n \in done \union {c} \union In(x.queue) <=> HalfOpen(es, done, c, 0, n) = {}
  <2>1. done \union {c} \union In(x.queue) = In(st.out) \union In(st.queue)
    BY <1>2, <1>3 DEF done
  <2> QED BY <1>4, <2>1 DEF SortInv, done
<1> QED BY <1>2, <1>3, <1>5, <1>6, <1>7 DEF Between, c, done, x

LEMMA BetweenKeeps ==
    ASSUME NEW es \in Seq(GraphEdge), NEW st, SortInv(es, st), st.queue # <<>>, NEW k \in 1..Len(es),
           NEW x, Between(es, st, x, k - 1)
    PROVE  Between(es, st, IF es[k][1] = Head(st.queue) THEN Lowered(x, es[k][2]) ELSE x, k)
<1> DEFINE c == Head(st.queue)
           done == In(st.out)
           H(n) == HalfOpen(es, done, c, k - 1, n)
           J(n) == HalfOpen(es, done, c, k, n)
           m == es[k][2]
           y == Lowered(x, m)
<1>1. /\ Len(es) \in Nat /\ k \in Nat /\ es[k] \in GraphEdge /\ m \in 0..GraphNodes
      /\ st.queue \in Seq(GraphNode) /\ GraphNode \subseteq 0..GraphNodes
  <2>1. Len(es) \in Nat /\ es[k] \in GraphEdge /\ st.queue \in Seq(GraphNode)
    BY LenProperties, ElementOfSeq DEF SortInv, SortState
  <2>2. m \in 0..GraphNodes
    BY <2>1 DEF GraphEdge
  <2> HIDE DEF m
  <2>3. k \in Nat /\ GraphNode \subseteq 0..GraphNodes
    BY <2>1, NodesAre
  <2> QED BY <2>1, <2>2, <2>3
<1>2. /\ x \in SortState /\ x.out = Append(st.out, c) /\ Once(x.queue) /\ x.queue \in Seq(GraphNode)
      /\ c \notin In(x.queue) /\ done \intersect In(x.queue) = {}
      /\ \A n \in 0..GraphNodes : x.degree[n] = Cardinality(H(n))
      /\ \A n \in GraphNode : n \in done \union {c} \union In(x.queue) <=> H(n) = {}
  BY DEF Between, SortState
<1>3. c \in GraphNode /\ c \notin done
  <2>1. c \in In(st.queue) /\ c \in GraphNode
    BY <1>1, TailIs
  <2> QED BY <2>1 DEF SortInv
<1>4. \A i \in 1..Len(es) : i <= k <=> i <= k - 1 \/ i = k
  BY <1>1
<1>5. \A n : J(n) = {i \in H(n) : ~(es[i][1] = c /\ i = k)}
  BY <1>4 DEF HalfOpen
<1>6. CASE es[k][1] # c
  <2>1. \A n : J(n) = H(n)
    BY <1>5, <1>6
  <2> HIDE DEF H, J
  <2>2. Between(es, st, x, k)
    <3> USE DEF c, done
    <3> QED BY <1>2, <2>1 DEF Between, H, J
  <2> QED BY <1>6, <2>2
<1>7. CASE es[k][1] = c
  <2>1. \A n : n # m => J(n) = H(n)
    BY <1>1, <1>5 DEF HalfOpen
  <2>2. k \in H(m) /\ J(m) = H(m) \ {k}
    <3>1. k \in 1..Len(es) /\ ~(k <= k - 1)
      BY <1>1
    <3>2. k \in H(m)
      BY <1>3, <1>7, <3>1 DEF HalfOpen
    <3> QED BY <1>5, <1>7, <3>2
  <2>3. IsFiniteSet(H(m)) /\ Cardinality(H(m)) \in Nat
    <3>1. H(m) \in SUBSET (1..Len(es))
      BY DEF HalfOpen
    <3> QED BY <3>1, DegreesCount
  <2> HIDE DEF H, J
  <2>4. IsFiniteSet(J(m)) /\ Cardinality(J(m)) = Cardinality(H(m)) - 1
    BY <2>2, <2>3, FS_RemoveElement
  <2>5. Cardinality(H(m)) = 1 <=> J(m) = {}
    BY <2>3, <2>4, FS_EmptySet
  <2>6. /\ y \in SortState /\ y.degree = [x.degree EXCEPT ![m] = @ - 1] /\ y.out = x.out
        /\ y.queue = IF x.degree[m] = 1 /\ m \in GraphNode THEN Append(x.queue, m) ELSE x.queue
    BY <1>1, <1>2, LoweredIs
  <2> HIDE DEF y
  <2>7. \A n \in 0..GraphNodes : y.degree[n] = Cardinality(J(n))
    <3> TAKE n \in 0..GraphNodes
    <3>1. x.degree \in [0..GraphNodes -> Int]
      BY <1>2 DEF SortState
    <3>2. CASE n = m
      <4>1. y.degree[m] = x.degree[m] - 1
        BY <1>1, <2>6, <3>1
      <4> QED BY <1>1, <1>2, <2>4, <3>2, <4>1
    <3>3. CASE n # m
      <4>1. y.degree[n] = x.degree[n]
        BY <2>6, <3>1, <3>3
      <4> QED BY <1>2, <2>1, <3>3, <4>1
    <3> QED BY <3>2, <3>3
  <2>8. CASE m \in GraphNode /\ J(m) = {}
    <3>1. x.degree[m] = 1 /\ y.queue = Append(x.queue, m)
      BY <1>1, <1>2, <2>5, <2>6, <2>8
    <3>2. m \notin done \union {c} \union In(x.queue)
      BY <1>2, <2>2, <2>8
    <3>3. In(y.queue) = In(x.queue) \union {m} /\ Once(y.queue)
      BY <1>2, <2>8, <3>1, <3>2, OnceMore
    <3>4. \A n \in GraphNode : n \in done \union {c} \union In(y.queue) <=> J(n) = {}
      BY <1>2, <2>1, <2>8, <3>3
    <3>5. Between(es, st, y, k)
      BY <1>2, <2>6, <2>7, <3>2, <3>3, <3>4 DEF Between, J, c, done
    <3> QED BY <1>7, <3>5 DEF y
  <2>9. CASE ~(m \in GraphNode /\ J(m) = {})
    <3>1. y.queue = x.queue
      BY <1>1, <1>2, <2>5, <2>6, <2>9
    <3>2. \A n \in GraphNode : n \in done \union {c} \union In(y.queue) <=> J(n) = {}
      BY <1>2, <2>1, <2>2, <2>9, <3>1
    <3>3. Between(es, st, y, k)
      BY <1>2, <2>6, <2>7, <3>1, <3>2 DEF Between, J, c, done
    <3> QED BY <1>7, <3>3 DEF y
  <2> QED BY <2>8, <2>9
<1> QED BY <1>6, <1>7

LEMMA TakenSorted ==
    ASSUME NEW es \in Seq(GraphEdge), NEW st, SortInv(es, st), st.queue # <<>>
    PROVE  SortInv(es, Taken(es, st)) /\ Len(Taken(es, st).out) = Len(st.out) + 1
<1> DEFINE c == Head(st.queue)
           done == In(st.out)
<1>1. st \in SortState /\ st.queue \in Seq(GraphNode) /\ st.out \in Seq(GraphNode) /\ Len(es) \in Nat /\ Len(st.out) \in Nat
  BY LenProperties DEF SortInv, SortState
<1>2. PICK g \in [0..Len(es) -> SortState] :
              /\ Taken(es, st) = g[Len(es)] /\ g[0] = AfterHead(st)
              /\ \A k \in 1..Len(es) : g[k] = (IF es[k][1] = Head(st.queue) THEN Lowered(g[k - 1], es[k][2]) ELSE g[k - 1])
  BY <1>1, TakenLoop
<1> DEFINE T == {k \in 0..Len(es) : Between(es, st, g[k], k)}
<1>3. 0 \in T
  BY <1>1, <1>2, BetweenStarts
<1>4. \A k \in 1..Len(es) : k - 1 \in T => k \in T
  <2> TAKE k \in 1..Len(es)
  <2> HAVE k - 1 \in T
  <2>1. Between(es, st, g[k - 1], k - 1) /\ k \in 0..Len(es)
    BY <1>1
  <2> QED BY <1>2, <2>1, BetweenKeeps
<1> HIDE DEF T
<1>5. \A k \in 0..Len(es) : k \in T
  BY <1>1, <1>3, <1>4, Up
<1> DEFINE x == Taken(es, st)
<1>6. Between(es, st, x, Len(es))
  <2>1. Len(es) \in T
    BY <1>1, <1>5
  <2> QED BY <1>2, <2>1 DEF T
<1> HIDE DEF x
<1>7. c \in In(st.queue) /\ c \in GraphNode
  BY <1>1, TailIs
<1>8. c \notin done /\ OpenInto(es, done, c) = {}
  BY <1>7 DEF SortInv
<1>9. x \in SortState /\ x.out = Append(st.out, c)
  BY <1>6 DEF Between
<1>10. In(x.out) = done \union {c} /\ Once(x.out)
  BY <1>1, <1>7, <1>8, <1>9, OnceMore DEF SortInv
<1>11. \A n : HalfOpen(es, done, c, Len(es), n) = OpenInto(es, done \union {c}, n)
  <2>1. \A i \in 1..Len(es) : i <= Len(es)
    BY <1>1
  <2> QED BY <2>1 DEF HalfOpen, OpenInto
<1>12. /\ Len(x.out) = Len(st.out) + 1 /\ x.out[Len(st.out) + 1] = c
       /\ \A k \in 1..Len(st.out) : x.out[k] = st.out[k]
       /\ \A k \in 1..(Len(st.out) + 1) : k \in 1..Len(st.out) \/ k = Len(st.out) + 1
  BY <1>1, <1>7, <1>9, Appended
<1>13. \A k \in 1..Len(x.out) : \A m \in DependsOn(es, x.out[k]) : \E j \in 1..(k - 1) : x.out[j] = m
  <2> TAKE k \in 1..Len(x.out)
  <2> TAKE m \in DependsOn(es, x.out[k])
  <2>1. CASE k \in 1..Len(st.out)
    <3>1. \E j \in 1..(k - 1) : st.out[j] = m
      BY <1>12, <2>1 DEF SortInv
    <3>2. \A j \in 1..(k - 1) : j \in 1..Len(st.out)
      BY <1>1, <2>1
    <3> QED BY <1>12, <3>1, <3>2
  <2>2. CASE k = Len(st.out) + 1
    <3>1. m \in DependsOn(es, c)
      BY <1>12, <2>2
    <3>2. m \in done
      BY <1>8, <3>1 DEF DependsOn, OpenInto
    <3>3. PICK j \in 1..Len(st.out) : st.out[j] = m
      BY <3>2 DEF In
    <3>4. j \in 1..(k - 1)
      BY <1>1, <2>2
    <3> QED BY <1>12, <3>3, <3>4
  <2> QED BY <1>12, <2>1, <2>2
<1>14. Once(x.queue) /\ In(x.out) \intersect In(x.queue) = {}
  BY <1>6, <1>10 DEF Between
<1>15. \A n \in 0..GraphNodes : x.degree[n] = Cardinality(OpenInto(es, In(x.out), n))
  BY <1>6, <1>10, <1>11 DEF Between
<1>16. \A n \in GraphNode : n \in In(x.out) \union In(x.queue) <=> OpenInto(es, In(x.out), n) = {}
  BY <1>6, <1>10, <1>11 DEF Between
<1> HIDE DEF c, done
<1> QED BY <1>9, <1>10, <1>12, <1>13, <1>14, <1>15, <1>16 DEF SortInv, x

LEMMA KahnIs ==
    ASSUME NEW es \in Seq(GraphEdge)
    PROVE  LET out == KahnOrder(es) IN
           /\ out \in Seq(GraphNode) /\ Once(out)
           /\ \A n \in GraphNode : n \in In(out) <=> DependsOn(es, n) \subseteq In(out)
           /\ \A k \in 1..Len(out) : \A m \in DependsOn(es, out[k]) : \E j \in 1..(k - 1) : out[j] = m
<1>1. PICK g \in [0..GraphNodes -> SortState] : Rounds(g, es)
  BY RoundLoop
<1>2. GraphNodes \in Nat
  BY NodesAre
<1> DEFINE T == {k \in 0..GraphNodes : SortInv(es, g[k]) /\ (g[k].queue = <<>> \/ Len(g[k].out) = k)}
<1>3. 0 \in T
  <2>1. g[0] = FirstRound(es) /\ g[0].out = <<>>
    BY <1>1 DEF Rounds, FirstRound
  <2> QED BY <1>2, <2>1, FirstSorted, NoneIn, EmptySeq
<1>4. \A k \in 1..GraphNodes : k - 1 \in T => k \in T
  <2> TAKE k \in 1..GraphNodes
  <2> HAVE k - 1 \in T
  <2>1. SortInv(es, g[k - 1]) /\ (g[k - 1].queue = <<>> \/ Len(g[k - 1].out) = k - 1) /\ k \in 0..GraphNodes
    BY <1>2
  <2>2. CASE g[k - 1].queue = <<>>
    <3>1. g[k] = g[k - 1]
      BY <1>1, <2>2 DEF Rounds
    <3> QED BY <2>1, <2>2, <3>1
  <2>3. CASE g[k - 1].queue # <<>>
    <3>1. g[k] = Taken(es, g[k - 1])
      BY <1>1, <2>3 DEF Rounds
    <3>2. SortInv(es, g[k]) /\ Len(g[k].out) = (k - 1) + 1
      BY <2>1, <2>3, <3>1, TakenSorted
    <3>3. (k - 1) + 1 = k
      BY <1>2
    <3> QED BY <2>1, <3>2, <3>3
  <2> QED BY <2>2, <2>3
<1> HIDE DEF T
<1>5. \A k \in 0..GraphNodes : k \in T
  BY <1>2, <1>3, <1>4, Up
<1> DEFINE st == g[GraphNodes]
<1>6. SortInv(es, st) /\ (st.queue = <<>> \/ Len(st.out) = GraphNodes) /\ KahnOrder(es) = st.out
  <2>1. GraphNodes \in T
    BY <1>2, <1>5
  <2> QED BY <1>1, <2>1 DEF T, Rounds
<1> HIDE DEF st
<1>7. st.out \in Seq(GraphNode) /\ st.queue \in Seq(GraphNode) /\ Once(st.out)
  BY <1>6 DEF SortInv, SortState
<1>8. st.queue = <<>>
  <2> SUFFICES ASSUME Len(st.out) = GraphNodes PROVE st.queue = <<>>
    BY <1>6
  <2>1. Cardinality(In(st.out)) = GraphNodes /\ In(st.out) \in SUBSET GraphNode /\ In(st.queue) \subseteq GraphNode
    BY <1>7, OnceCounts, InIs
  <2>2. In(st.out) = GraphNode
    BY <2>1, NodesAre, FS_Subset
  <2>3. In(st.queue) = {}
    BY <1>6, <2>1, <2>2 DEF SortInv
  <2> QED BY <1>7, <2>3, InIs
<1>9. \A n \in GraphNode : n \in In(st.out) <=> OpenInto(es, In(st.out), n) = {}
  BY <1>6, <1>8, NoneIn DEF SortInv
<1>10. \A n : OpenInto(es, In(st.out), n) = {} <=> DependsOn(es, n) \subseteq In(st.out)
  BY DEF OpenInto, DependsOn
<1> QED BY <1>6, <1>7, <1>9, <1>10 DEF SortInv

----------------------------------------------------------------------------
\* A set of nodes that holds just those whose predecessors it holds, and that a rank
\* orders, is what can run.
Ranks(rank, D) == \A n \in D : \A m \in DependsOn(edges, n) : rank[m] < rank[n]

LEMMA RunnableIs ==
    ASSUME NEW D \in SUBSET GraphNode, \A n \in GraphNode : n \in D <=> DependsOn(edges, n) \subseteq D,
           NEW rank \in [D -> 1..GraphNodes], Ranks(rank, D)
    PROVE  Runnable = D
<1> DEFINE Sound(S) == S \in SUBSET GraphNode /\ \A n \in S : DependsOn(edges, n) \subseteq S
           Ranked(S) == \E r \in [S -> 1..GraphNodes] : Ranks(r, S)
<1>1. \A n : n \in Runnable <=> \E S : n \in S /\ Sound(S) /\ Ranked(S)
  BY DEF Runnable, Ranks
<1>2. Sound(D) /\ Ranked(D)
  OBVIOUS
<1>3. ASSUME NEW S, Sound(S), Ranked(S) PROVE S \subseteq D
  <2>1. PICK r \in [S -> 1..GraphNodes] : Ranks(r, S)
    BY <1>3
  <2> DEFINE T == {r[n] : n \in S \ D}
  <2> SUFFICES ASSUME S \ D # {} PROVE FALSE
    OBVIOUS
  <2>2. T \in SUBSET Nat /\ T # {}
    <3>1. \A n \in S : r[n] \in Nat
      BY <2>1, NodesAre
    <3> QED BY <3>1
  <2>3. PICK x \in T : \A y \in T : x <= y
    BY <2>2, Least
  <2>4. PICK n \in S \ D : x = r[n]
    BY <2>3
  <2>5. \A m \in DependsOn(edges, n) : m \in S /\ r[m] < r[n] /\ r[m] \in Nat /\ r[n] \in Nat
    <3>1. n \in S /\ \A m \in DependsOn(edges, n) : m \in S /\ r[m] < r[n]
      BY <1>3, <2>1, <2>4 DEF Ranks
    <3>2. \A m \in S : r[m] \in Nat
      BY <2>1, NodesAre
    <3> QED BY <3>1, <3>2
  <2>6. \A m \in DependsOn(edges, n) : m \in D
    BY <2>3, <2>4, <2>5, SMTT(30)
  <2> QED BY <1>3, <2>4, <2>6
<1> HIDE DEF Sound, Ranked
<1> QED BY <1>1, <1>2, <1>3

LEMMA SortIs ==
    ASSUME edges \in Seq(GraphEdge)
    PROVE  LET out == KahnOrder(edges)
               s == TopologicalSort(edges) IN
           /\ s \in Seq(GraphNode) /\ Once(s) /\ In(s) = GraphNode /\ Len(s) = GraphNodes
           /\ Len(out) \in Nat /\ Len(out) <= GraphNodes
           /\ \A k \in 1..Len(out) : s[k] = out[k]
           /\ \A k \in 1..GraphNodes : s[k] \in In(out) <=> k <= Len(out)
<1> DEFINE out == KahnOrder(edges)
           R == GraphNode \ In(out)
           rest == ListOf(R)
           s == TopologicalSort(edges)
<1>1. out \in Seq(GraphNode) /\ Once(out)
  BY KahnIs
<1>2. rest \in Seq(GraphNode) /\ In(rest) = R /\ Once(rest)
  BY ListIs
<1>3. s = out \o rest
  BY <1>1, InIs DEF TopologicalSort
<1>4. In(out) \subseteq GraphNode
  BY <1>1, InIs
<1> HIDE DEF out, rest, s
<1> DEFINE n == Len(out)
           p == Len(rest)
<1>5. n \in Nat /\ p \in Nat /\ s \in Seq(GraphNode) /\ Len(s) = n + p
      /\ \A k \in 1..(n + p) : s[k] = IF k <= n THEN out[k] ELSE rest[k - n]
  BY <1>1, <1>2, <1>3, ConcatProperties, LenProperties
<1>6. (\A k \in 1..n : out[k] \in In(out)) /\ \A k \in 1..p : rest[k] \in R
  BY <1>2 DEF In
<1>7. \A k \in 1..(n + p) : (k <= n => k \in 1..n) /\ (~(k <= n) => k - n \in 1..p)
  BY <1>5
<1>8. \A k \in 1..(n + p) : s[k] \in In(out) <=> k <= n
  BY <1>5, <1>6, <1>7
<1>9. Once(s)
  <2> SUFFICES ASSUME NEW i \in 1..(n + p), NEW j \in 1..(n + p), s[i] = s[j] PROVE i = j
    BY <1>5 DEF Once
  <2>1. i <= n <=> j <= n
    BY <1>8
  <2>2. CASE i <= n
    BY <1>1, <1>5, <1>7, <2>1, <2>2 DEF Once
  <2>3. CASE ~(i <= n)
    <3>1. i - n \in 1..p /\ j - n \in 1..p /\ rest[i - n] = rest[j - n]
      BY <1>5, <1>7, <2>1, <2>3
    <3>2. i - n = j - n
      BY <1>2, <3>1 DEF Once
    <3> QED BY <1>5, <3>2
  <2> QED BY <2>2, <2>3
<1>10. In(s) = GraphNode
  <2>1. In(s) \subseteq GraphNode
    BY <1>5, InIs
  <2>2. ASSUME NEW x \in GraphNode PROVE x \in In(s)
    <3>1. CASE x \in In(out)
      <4>1. PICK k \in 1..n : out[k] = x
        BY <3>1 DEF In
      <4>2. k \in 1..(n + p) /\ s[k] = x
        BY <1>5, <4>1
      <4> QED BY <1>5, <4>2 DEF In
    <3>2. CASE x \in R
      <4>1. PICK k \in 1..p : rest[k] = x
        BY <1>2, <3>2 DEF In
      <4>2. n + k \in 1..(n + p) /\ ~(n + k <= n) /\ (n + k) - n = k
        BY <1>5
      <4>3. s[n + k] = x
        BY <1>5, <4>1, <4>2
      <4> QED BY <1>5, <4>2, <4>3 DEF In
    <3> QED BY <3>1, <3>2
  <2> QED BY <2>1, <2>2
<1>11. Len(s) = GraphNodes
  BY <1>5, <1>9, <1>10, OnceCounts, NodesAre
<1>12. n <= GraphNodes /\ \A k \in 1..n : s[k] = out[k]
  BY <1>5, <1>11
<1> HIDE DEF n, p
<1> QED BY <1>5, <1>8, <1>9, <1>10, <1>11, <1>12 DEF out, s, n

LEMMA PlacesAre ==
    ASSUME edges \in Seq(GraphEdge)
    PROVE  LET out == KahnOrder(edges) IN
           /\ \A n \in GraphNode : PlaceOf(n) \in 1..GraphNodes /\ (n \in In(out) <=> PlaceOf(n) <= Len(out))
                                  /\ (n \in In(out) => out[PlaceOf(n)] = n)
           /\ \A k \in 1..Len(out) : PlaceOf(out[k]) = k /\ out[k] \in GraphNode
<1> DEFINE out == KahnOrder(edges)
           s == TopologicalSort(edges)
<1>1. /\ s \in Seq(GraphNode) /\ Once(s) /\ In(s) = GraphNode /\ Len(s) = GraphNodes
      /\ Len(out) \in Nat /\ Len(out) <= GraphNodes
      /\ \A k \in 1..Len(out) : s[k] = out[k]
      /\ \A k \in 1..GraphNodes : s[k] \in In(out) <=> k <= Len(out)
  BY SortIs
<1>2. GraphNodes \in Nat
  BY NodesAre
<1>3. \A n : PlaceOf(n) = CHOOSE k \in 1..Len(s) : s[k] = n
  BY DEF PlaceOf
<1> HIDE DEF out, s
<1>4. \A n \in GraphNode : PlaceOf(n) \in 1..GraphNodes /\ s[PlaceOf(n)] = n
  <2> TAKE n \in GraphNode
  <2>1. \E k \in 1..Len(s) : s[k] = n
    BY <1>1 DEF In
  <2> QED BY <1>1, <1>3, <2>1
<1>5. \A k \in 1..Len(out) : k \in 1..GraphNodes /\ out[k] \in GraphNode /\ s[k] = out[k]
  BY <1>1, <1>2 DEF In
<1>6. \A k \in 1..Len(out) : PlaceOf(out[k]) = k
  BY <1>1, <1>4, <1>5 DEF Once
<1>7. \A n \in GraphNode : n \in In(out) => PlaceOf(n) \in 1..Len(out)
  BY <1>1, <1>2, <1>4
<1> QED BY <1>1, <1>4, <1>5, <1>6, <1>7 DEF out

LEMMA PrevIs ==
    ASSUME edges \in Seq(GraphEdge), NEW O, NEW n, \E m \in DependsOn(edges, n) : m \in O
    PROVE  PrevOutput(edges, O, n) \in DependsOn(edges, n)
<1> DEFINE froms == {i \in 1..Len(edges) : edges[i][2] = n /\ edges[i][1] \in O}
<1>1. Len(edges) \in Nat
  BY LenProperties
<1>2. froms # {}
  BY DEF DependsOn
<1>3. froms \in SUBSET (0..Len(edges))
  BY <1>1
<1>4. Max(froms) \in froms
  BY <1>1, <1>2, <1>3, GreatestIs
<1>5. PrevOutput(edges, O, n) = edges[Max(froms)][1]
  BY <1>2 DEF PrevOutput
<1> QED BY <1>4, <1>5 DEF DependsOn

LEMMA SortHolds == ASSUME edges \in Seq(GraphEdge) PROVE SortIsTopological
<1> DEFINE out == KahnOrder(edges)
           s == TopologicalSort(edges)
           D == In(out)
           rank == [n \in D |-> PlaceOf(n)]
<1>1. /\ out \in Seq(GraphNode) /\ Once(out)
      /\ \A n \in GraphNode : n \in D <=> DependsOn(edges, n) \subseteq D
      /\ \A k \in 1..Len(out) : \A m \in DependsOn(edges, out[k]) : \E j \in 1..(k - 1) : out[j] = m
  BY KahnIs
<1>2. s \in Seq(GraphNode) /\ In(s) = GraphNode /\ Len(s) = GraphNodes /\ Len(out) \in Nat
  BY SortIs
<1>3. /\ \A n \in GraphNode : PlaceOf(n) \in 1..GraphNodes /\ (n \in D <=> PlaceOf(n) <= Len(out))
                              /\ (n \in D => out[PlaceOf(n)] = n)
      /\ \A k \in 1..Len(out) : PlaceOf(out[k]) = k /\ out[k] \in GraphNode
  BY PlacesAre
<1>4. D \in SUBSET GraphNode /\ GraphNodes \in Nat
  BY <1>1, InIs, NodesAre
<1> HIDE DEF out, s
<1>5. \A n \in D : \A m \in DependsOn(edges, n) : m \in D /\ PlaceOf(m) < PlaceOf(n)
  <2> TAKE n \in D
  <2> TAKE m \in DependsOn(edges, n)
  <2>1. n \in GraphNode /\ PlaceOf(n) \in 1..Len(out) /\ out[PlaceOf(n)] = n /\ m \in D
    BY <1>1, <1>2, <1>3, <1>4
  <2>2. PICK j \in 1..(PlaceOf(n) - 1) : out[j] = m
    BY <1>1, <2>1
  <2>3. j \in 1..Len(out) /\ j < PlaceOf(n)
    BY <1>2, <2>1
  <2> QED BY <1>3, <2>1, <2>2, <2>3
<1>6. Runnable = D
  <2>1. rank \in [D -> 1..GraphNodes]
    BY <1>3, <1>4
  <2>2. Ranks(rank, D)
    BY <1>5 DEF Ranks
  <2> HIDE DEF rank, D
  <2> QED BY <1>1, <1>4, <2>1, <2>2, RunnableIs
<1>7. \A n \in D : \A m \in GraphNode \ D : PlaceOf(n) < PlaceOf(m)
  <2> TAKE n \in D
  <2> TAKE m \in GraphNode \ D
  <2>1. PlaceOf(n) \in 1..GraphNodes /\ PlaceOf(m) \in 1..GraphNodes /\ PlaceOf(n) <= Len(out) /\ ~(PlaceOf(m) <= Len(out))
    BY <1>3, <1>4
  <2> QED BY <1>2, <2>1
<1>8. \A n \in D : DependsOn(edges, n) # {} =>
        PrevOutput(edges, {m \in GraphNode : PlaceOf(m) < PlaceOf(n)}, n) \in DependsOn(edges, n)
  <2> TAKE n \in D
  <2> HAVE DependsOn(edges, n) # {}
  <2>1. PICK m \in DependsOn(edges, n) : TRUE
    OBVIOUS
  <2>2. m \in {x \in GraphNode : PlaceOf(x) < PlaceOf(n)}
    BY <1>4, <1>5, <2>1
  <2> QED BY <2>1, <2>2, PrevIs
<1>9. Range(s) = GraphNode
  BY <1>2, InIs
<1> HIDE DEF D
<1> QED BY <1>2, <1>5, <1>6, <1>7, <1>8, <1>9 DEF SortIsTopological, s

----------------------------------------------------------------------------
\* The wave after those in w.
WaveAfter(es, done) == IF ReadyIn(es, done) = {} THEN GraphNode \ done ELSE ReadyIn(es, done)
NextWaves(es, w) == IF UNION Range(w) = GraphNode THEN w ELSE Append(w, WaveAfter(es, UNION Range(w)))

LEMMA NextWavesIn ==
    ASSUME NEW es, NEW w \in Seq(SUBSET GraphNode)
    PROVE  WaveAfter(es, UNION Range(w)) \in SUBSET GraphNode /\ NextWaves(es, w) \in Seq(SUBSET GraphNode)
<1>1. WaveAfter(es, UNION Range(w)) \in SUBSET GraphNode
  BY DEF WaveAfter, ReadyIn
<1> QED BY <1>1, AppendProperties DEF NextWaves

LEMMA WaveLoop ==
    ASSUME NEW es
    PROVE  \E g \in [0..GraphNodes -> Seq(SUBSET GraphNode)] :
              /\ TopologicalWaves(es) = g[GraphNodes] /\ g[0] = <<>>
              /\ \A k \in 1..GraphNodes : g[k] = NextWaves(es, g[k - 1])
<1> DEFINE n == GraphNodes
           A == Seq(SUBSET GraphNode)
           from == <<>>
           next(a, k) == NextWaves(es, a)
           f == [x \in A \X (1..n) |-> next(x[1], x[2])]
           step(a) == [k \in 0..n |-> IF k = 0 THEN from ELSE next(a[k - 1], k)]
           loop == CHOOSE a : a = step(a)
<1>1. n \in Nat /\ from \in A
  BY NodesAre, EmptySeq
<1>2. \A a \in A, k \in 1..n : next(a, k) \in A
  BY NextWavesIn
<1>3. TopologicalWaves(es) = loop[n]
  BY DEF TopologicalWaves, NextWaves, WaveAfter
<1> HIDE DEF A, from, n, next
<1>4. f \in [A \X (1..n) -> A] /\ \A a \in A, k \in 1..n : f[<<a, k>>] = next(a, k)
  <2>1. \A a \in A, k \in 1..n : <<a, k>> \in A \X (1..n) /\ f[<<a, k>>] = next(a, k)
    OBVIOUS
  <2>2. \A x \in A \X (1..n) : next(x[1], x[2]) \in A
    BY <1>2
  <2> QED BY <2>1, <2>2
<1> HIDE DEF f
<1>5. PICK g \in [0..n -> A] : Counts(g, from, f, n)
  BY <1>1, <1>4, CountsExist
<1>6. g = step(g)
  <2>1. \A k \in 0..n : g[k] = IF k = 0 THEN from ELSE next(g[k - 1], k)
    <3> TAKE k \in 0..n
    <3>1. CASE k = 0
      BY <1>5, <3>1 DEF Counts
    <3>2. CASE k # 0
      <4>1. k \in 1..n /\ g[k - 1] \in A
        BY <1>1, <3>2
      <4>2. g[k] = f[<<g[k - 1], k>>]
        BY <1>5, <4>1 DEF Counts
      <4> QED BY <1>4, <3>2, <4>1, <4>2
    <3> QED BY <3>1, <3>2
  <2> QED BY <2>1
<1> HIDE DEF step
<1>7. loop = step(loop)
  BY <1>6
<1> HIDE DEF loop
<1>8. loop \in [0..n -> A] /\ Counts(loop, from, f, n)
  <2>1. PICK x : x = loop
    OBVIOUS
  <2>2. x = [k \in 0..n |-> IF k = 0 THEN from ELSE next(x[k - 1], k)]
    BY <1>7, <2>1 DEF step
  <2>3. CountsIn(x, from, f, n, A)
    <3>1. x[0] = from
      BY <1>1, <2>2
    <3>2. \A k \in 1..n : x[k] = next(x[k - 1], k)
      BY <1>1, <2>2
    <3> QED BY <1>4, <3>1, <3>2 DEF CountsIn
  <2>4. Counts(x, from, f, n) /\ \A k \in 0..n : x[k] \in A
    BY <1>1, <1>4, <2>3, CountsFrom
  <2>5. x \in [0..n -> A]
    BY <2>2, <2>4
  <2> QED BY <2>1, <2>4, <2>5
<1>9. \A k \in 1..n : loop[k] = next(loop[k - 1], k)
  <2>1. \A k \in 1..n : k - 1 \in 0..n
    BY <1>1
  <2> QED BY <1>4, <1>8, <2>1 DEF Counts
<1> QED BY <1>3, <1>8, <1>9 DEF A, from, n, next, Counts

WavesBefore(w, j) == UNION {w[i] : i \in 1..(j - 1)}
\* Waves are disjoint and not empty, and each is what its predecessors make ready.
WaveInv(es, w) ==
    /\ w \in Seq(SUBSET GraphNode)
    /\ \A j \in 1..Len(w) : w[j] # {} /\ w[j] = WaveAfter(es, WavesBefore(w, j))
    /\ \A i, j \in 1..Len(w) : \A n \in w[i] : n \in w[j] => i = j

LEMMA WavesAdd ==
    ASSUME NEW es, NEW w, WaveInv(es, w), UNION Range(w) # GraphNode
    PROVE  LET x == NextWaves(es, w) IN
           /\ WaveInv(es, x) /\ Len(x) = Len(w) + 1 /\ Len(w) \in Nat
           /\ UNION Range(w) \subseteq UNION Range(x) /\ UNION Range(x) # UNION Range(w)
<1> DEFINE done == UNION Range(w)
           new == WaveAfter(es, done)
           x == NextWaves(es, w)
           n == Len(w)
<1>1. w \in Seq(SUBSET GraphNode) /\ new \in SUBSET GraphNode
  BY NextWavesIn DEF WaveInv
<1>2. x = Append(w, new)
  BY DEF NextWaves
<1> HIDE DEF new, x
<1>3. /\ x \in Seq(SUBSET GraphNode) /\ n \in Nat /\ Len(x) = n + 1 /\ x[n + 1] = new
      /\ \A i \in 1..n : x[i] = w[i]
      /\ \A i \in 1..(n + 1) : i \in 1..n \/ i = n + 1
  BY <1>1, <1>2, Appended
<1>4. Range(w) = In(w) /\ Range(x) = In(x)
  BY <1>1, <1>3, InIs
<1>5. done \subseteq GraphNode
  BY <1>1, <1>4, InIs
<1>6. new # {} /\ new \intersect done = {}
  <2>1. GraphNode \ done # {}
    BY <1>5
  <2> HIDE DEF done
  <2> QED BY <2>1 DEF new, WaveAfter, ReadyIn
<1>7. done = WavesBefore(w, n + 1)
  <2>1. (n + 1) - 1 = n
    BY <1>3
  <2> QED BY <1>4, <2>1 DEF WavesBefore, In
<1>8. \A j \in 1..(n + 1) : WavesBefore(x, j) = WavesBefore(w, j)
  <2> TAKE j \in 1..(n + 1)
  <2>1. \A i \in 1..(j - 1) : i \in 1..n
    BY <1>3
  <2>2. \A i \in 1..(j - 1) : x[i] = w[i]
    BY <1>3, <2>1
  <2> QED BY <2>2 DEF WavesBefore
<1>9. new = WaveAfter(es, WavesBefore(x, n + 1))
  <2>1. WavesBefore(x, n + 1) = done
    <3>1. n + 1 \in 1..(n + 1)
      BY <1>3
    <3> QED BY <1>7, <1>8, <3>1
  <2> HIDE DEF done
  <2> QED BY <2>1 DEF new
<1>10. \A i \in 1..n : x[i] \subseteq done
  BY <1>3, <1>4 DEF In
<1> HIDE DEF done, n
<1>11. n + 1 \in 1..(n + 1) /\ \A i \in 1..n : i \in 1..(n + 1)
  BY <1>3
<1>12. \A j \in 1..Len(x) : x[j] # {} /\ x[j] = WaveAfter(es, WavesBefore(x, j))
  <2> TAKE j \in 1..Len(x)
  <2>1. CASE j = n + 1
    BY <1>3, <1>6, <1>9, <2>1
  <2>2. CASE j \in 1..n
    BY <1>3, <1>8, <1>11, <2>2 DEF WaveInv, n
  <2> QED BY <1>3, <2>1, <2>2
<1>13. \A i, j \in 1..Len(x) : \A m \in x[i] : m \in x[j] => i = j
  <2> TAKE i, j \in 1..Len(x)
  <2> TAKE m \in x[i]
  <2> HAVE m \in x[j]
  <2>1. (i \in 1..n \/ i = n + 1) /\ (j \in 1..n \/ j = n + 1)
    BY <1>3
  <2>2. CASE i \in 1..n /\ j \in 1..n
    BY <1>3, <2>2 DEF WaveInv, n
  <2>3. CASE i \in 1..n /\ j = n + 1
    BY <1>3, <1>6, <1>10, <2>3
  <2>4. CASE i = n + 1 /\ j \in 1..n
    BY <1>3, <1>6, <1>10, <2>4
  <2> QED BY <2>1, <2>2, <2>3, <2>4
<1>14. UNION Range(x) = done \union new
  <2>1. \A m : m \in UNION Range(x) <=> \E i \in 1..(n + 1) : m \in x[i]
    BY <1>3, <1>4 DEF In
  <2>2. \A m : m \in done <=> \E i \in 1..n : m \in w[i]
    BY <1>4 DEF In, done, n
  <2> QED BY <1>3, <1>11, <2>1, <2>2
<1>15. WaveInv(es, x)
  BY <1>3, <1>12, <1>13 DEF WaveInv
<1> QED BY <1>3, <1>6, <1>14, <1>15 DEF x, n, done

LEMMA WavesAre ==
    ASSUME NEW es
    PROVE  LET w == TopologicalWaves(es) IN
           WaveInv(es, w) /\ UNION Range(w) = GraphNode /\ Len(w) \in Nat /\ Len(w) <= GraphNodes
<1>1. PICK g \in [0..GraphNodes -> Seq(SUBSET GraphNode)] :
              /\ TopologicalWaves(es) = g[GraphNodes] /\ g[0] = <<>>
              /\ \A k \in 1..GraphNodes : g[k] = NextWaves(es, g[k - 1])
  BY WaveLoop
<1> DEFINE Done(k) == UNION Range(g[k])
           T == {k \in 0..GraphNodes : WaveInv(es, g[k]) /\ Len(g[k]) <= k /\ (Done(k) = GraphNode \/ Cardinality(Done(k)) >= k)}
<1>2. GraphNodes \in Nat /\ IsFiniteSet(GraphNode) /\ Cardinality(GraphNode) = GraphNodes
  BY NodesAre
<1>3. \A k \in 0..GraphNodes : Len(g[k]) \in Nat /\ Done(k) \in SUBSET GraphNode /\ IsFiniteSet(Done(k)) /\ Cardinality(Done(k)) \in Nat
  <2> TAKE k \in 0..GraphNodes
  <2>1. Range(g[k]) \subseteq SUBSET GraphNode /\ Len(g[k]) \in Nat
    BY <1>1, InIs
  <2>2. Done(k) \in SUBSET GraphNode
    BY <2>1
  <2> HIDE DEF Done
  <2>3. IsFiniteSet(Done(k))
    BY <1>2, <2>2, FS_Subset
  <2> QED BY <2>1, <2>2, <2>3, FS_CardinalityType
<1>4. 0 \in T
  <2>1. 0 \in 0..GraphNodes /\ g[0] = <<>> /\ Len(g[0]) = 0
    BY <1>1, <1>2
  <2>2. WaveInv(es, g[0])
    BY <1>1, <2>1 DEF WaveInv
  <2> HIDE DEF Done
  <2>3. Cardinality(Done(0)) \in Nat
    BY <1>3, <2>1
  <2>4. Cardinality(Done(0)) >= 0 /\ Len(g[0]) <= 0
    BY <2>1, <2>3
  <2> QED BY <2>1, <2>2, <2>4
<1>5. \A k \in 1..GraphNodes : k - 1 \in T => k \in T
  <2> TAKE k \in 1..GraphNodes
  <2> HAVE k - 1 \in T
  <2>1. k \in 0..GraphNodes /\ k - 1 \in 0..GraphNodes /\ k \in Nat
    BY <1>2
  <2>2. WaveInv(es, g[k - 1]) /\ Len(g[k - 1]) <= k - 1 /\ (Done(k - 1) = GraphNode \/ Cardinality(Done(k - 1)) >= k - 1)
    OBVIOUS
  <2>3. CASE Done(k - 1) = GraphNode
    <3>1. g[k] = g[k - 1]
      BY <1>1, <2>3 DEF NextWaves
    <3>2. Len(g[k]) <= k
      BY <1>3, <2>1, <2>2, <3>1
    <3> QED BY <2>1, <2>2, <2>3, <3>1, <3>2
  <2>4. CASE Done(k - 1) # GraphNode
    <3>1. g[k] = NextWaves(es, g[k - 1])
      BY <1>1
    <3>2. /\ WaveInv(es, g[k]) /\ Len(g[k]) = Len(g[k - 1]) + 1
          /\ Done(k - 1) \subseteq Done(k) /\ Done(k) # Done(k - 1)
      BY <2>2, <2>4, <3>1, WavesAdd
    <3> HIDE DEF Done
    <3>3. Cardinality(Done(k - 1)) < Cardinality(Done(k))
      <4>1. Done(k - 1) \in SUBSET Done(k)
        BY <3>2
      <4>2. Cardinality(Done(k - 1)) <= Cardinality(Done(k)) /\ Cardinality(Done(k)) # Cardinality(Done(k - 1))
        BY <1>3, <2>1, <3>2, <4>1, FS_Subset
      <4> QED BY <1>3, <2>1, <4>2
    <3>4. Cardinality(Done(k)) >= k /\ Len(g[k]) <= k
      BY <1>3, <2>1, <2>2, <2>4, <3>2, <3>3
    <3> QED BY <2>1, <3>2, <3>4 DEF Done
  <2> QED BY <2>3, <2>4
<1> HIDE DEF T
<1>6. \A k \in 0..GraphNodes : k \in T
  BY <1>2, <1>4, <1>5, Up
<1> HIDE DEF Done
<1>7. GraphNodes \in 0..GraphNodes
  BY <1>2
<1>8. /\ WaveInv(es, g[GraphNodes]) /\ Len(g[GraphNodes]) <= GraphNodes
      /\ (Done(GraphNodes) = GraphNode \/ Cardinality(Done(GraphNodes)) >= GraphNodes)
  BY <1>6, <1>7 DEF T
<1>9. Done(GraphNodes) = GraphNode
  <2> SUFFICES ASSUME Cardinality(Done(GraphNodes)) >= GraphNodes PROVE Done(GraphNodes) = GraphNode
    BY <1>8
  <2>1. Done(GraphNodes) \in SUBSET GraphNode
    BY <1>3, <1>7
  <2>2. Cardinality(Done(GraphNodes)) <= Cardinality(GraphNode)
    BY <1>2, <2>1, FS_Subset
  <2>3. Cardinality(Done(GraphNodes)) = Cardinality(GraphNode)
    BY <1>2, <1>3, <1>7, <2>2
  <2> QED BY <1>2, <2>1, <2>3, FS_Subset
<1> QED BY <1>1, <1>3, <1>7, <1>8, <1>9 DEF Done

LEMMA WavesHold == WavesAreLayers
<1> DEFINE w == TopologicalWaves(edges)
           L == Len(w)
           done(j) == WavesBefore(w, j)
           Opens(j) == ReadyIn(edges, done(j)) # {}
           D == {n \in GraphNode : \E j \in 1..L : n \in w[j] /\ Opens(j)}
           rank == [n \in D |-> WaveOf(n)]
<1>1. WaveInv(edges, w) /\ UNION Range(w) = GraphNode /\ L \in Nat /\ L <= GraphNodes
  BY WavesAre
<1>2. /\ w \in Seq(SUBSET GraphNode)
      /\ \A j \in 1..L : w[j] # {} /\ w[j] = WaveAfter(edges, done(j)) /\ w[j] \subseteq GraphNode
      /\ \A i, j \in 1..L : \A n \in w[i] : n \in w[j] => i = j
  BY <1>1, ElementOfSeq DEF WaveInv
<1>3. \A n : WaveOf(n) = CHOOSE k \in 1..L : n \in w[k]
  BY DEF WaveOf
<1>4. \A n \in GraphNode : \E j \in 1..L : n \in w[j]
  BY <1>1, <1>2, InIs DEF In
<1> HIDE DEF w, L
<1>5. \A j \in 1..L : \A n \in w[j] : WaveOf(n) = j
  <2> TAKE j \in 1..L
  <2> TAKE n \in w[j]
  <2>1. WaveOf(n) \in 1..L /\ n \in w[WaveOf(n)]
    BY <1>3
  <2> QED BY <1>2, <2>1
<1>6. \A j \in 1..L : \A n : n \in done(j) <=> \E i \in 1..(j - 1) : n \in w[i]
  BY DEF WavesBefore
<1>7. \A j \in 1..L : j # L => j + 1 \in 1..L /\ done(j + 1) = done(j) \union w[j]
  <2> TAKE j \in 1..L
  <2> HAVE j # L
  <2>1. j + 1 \in 1..L /\ j \in 1..((j + 1) - 1) /\ \A i \in 1..((j + 1) - 1) : i \in 1..(j - 1) \/ i = j
    BY <1>1
  <2>2. \A i \in 1..(j - 1) : i \in 1..((j + 1) - 1)
    BY <1>1
  <2> QED BY <2>1, <2>2 DEF WavesBefore
<1> HIDE DEF done
<1>8. \A j \in 1..L : Opens(j) => w[j] = ReadyIn(edges, done(j))
  BY <1>2 DEF WaveAfter
<1>9. \A j \in 1..L : ~Opens(j) => w[j] = GraphNode \ done(j)
  BY <1>2 DEF WaveAfter
<1>10. \A j \in 1..L : ~Opens(j) => j = L
  <2> SUFFICES ASSUME NEW j \in 1..L, ~Opens(j), j # L PROVE FALSE
    OBVIOUS
  <2>1. j + 1 \in 1..L /\ GraphNode \subseteq done(j + 1)
    BY <1>7, <1>9
  <2>2. w[j + 1] \intersect done(j + 1) = {}
    BY <1>8, <1>9, <2>1 DEF ReadyIn
  <2> QED BY <1>2, <2>1, <2>2
<1>11. \A j \in 1..L : Opens(j) => \A n \in w[j] : DependsOn(edges, n) \subseteq done(j)
  BY <1>8 DEF ReadyIn
<1>12. \A j \in 1..L : \A i \in 1..(j - 1) : i \in 1..L /\ i < j /\ Opens(i)
  <2> TAKE j \in 1..L
  <2> TAKE i \in 1..(j - 1)
  <2>1. i \in 1..L /\ i < j /\ i # L
    BY <1>1
  <2> QED BY <1>10, <2>1
<1>13. \A j \in 1..L : \A n \in w[j] : Opens(j) <=> n \in D
  BY <1>2
<1>14. \A n \in D : \A m \in DependsOn(edges, n) : m \in D /\ WaveOf(m) < WaveOf(n)
  <2> TAKE n \in D
  <2> TAKE m \in DependsOn(edges, n)
  <2>1. PICK j \in 1..L : n \in w[j] /\ Opens(j)
    OBVIOUS
  <2>2. PICK i \in 1..(j - 1) : m \in w[i]
    BY <1>6, <1>11, <2>1
  <2>3. i \in 1..L /\ i < j /\ Opens(i)
    BY <1>12
  <2> QED BY <1>5, <1>13, <2>1, <2>2, <2>3
<1>15. \A n \in GraphNode : DependsOn(edges, n) \subseteq D => n \in D
  <2> SUFFICES ASSUME NEW n \in GraphNode, DependsOn(edges, n) \subseteq D, n \notin D PROVE FALSE
    OBVIOUS
  <2>1. PICK j \in 1..L : n \in w[j]
    BY <1>4
  <2>2. ~Opens(j) /\ j = L /\ n \notin done(j)
    BY <1>9, <1>10, <1>13, <2>1
  <2>3. D \subseteq done(j)
    <3> SUFFICES ASSUME NEW m \in D PROVE m \in done(j)
      OBVIOUS
    <3>1. PICK i \in 1..L : m \in w[i] /\ Opens(i)
      OBVIOUS
    <3>2. i \in 1..(j - 1)
      BY <1>1, <2>2, <3>1
    <3> QED BY <1>6, <3>1, <3>2
  <2>4. n \in ReadyIn(edges, done(j))
    BY <2>2, <2>3 DEF ReadyIn
  <2> QED BY <2>2, <2>4
<1>16. Runnable = D
  <2>1. D \in SUBSET GraphNode /\ \A n \in D : WaveOf(n) \in 1..GraphNodes
    <3>1. \A n \in D : WaveOf(n) \in 1..L
      BY <1>5
    <3> QED BY <1>1, <3>1, NodesAre
  <2> HIDE DEF D
  <2>2. rank \in [D -> 1..GraphNodes]
    BY <2>1
  <2>3. Ranks(rank, D)
    BY <1>14 DEF Ranks
  <2>4. \A n \in GraphNode : n \in D <=> DependsOn(edges, n) \subseteq D
    BY <1>14, <1>15
  <2> HIDE DEF rank
  <2> QED BY <2>1, <2>2, <2>3, <2>4, RunnableIs
<1>17. \A n \in GraphNode : Cardinality({k \in 1..L : n \in w[k]}) = 1
  <2> TAKE n \in GraphNode
  <2>1. PICK j \in 1..L : n \in w[j]
    BY <1>4
  <2>2. {k \in 1..L : n \in w[k]} = {j}
    BY <1>2, <2>1
  <2> QED BY <2>2, One
<1>18. \A n \in D : WaveOf(n) = 1 + Max({0} \union {WaveOf(m) : m \in DependsOn(edges, n)})
  <2> TAKE n \in D
  <2> DEFINE S == {0} \union {WaveOf(m) : m \in DependsOn(edges, n)}
  <2>1. PICK j \in 1..L : n \in w[j] /\ Opens(j)
    OBVIOUS
  <2>2. j \in Nat /\ j >= 1 /\ WaveOf(n) = j
    BY <1>1, <1>5, <2>1
  <2>3. \A m \in DependsOn(edges, n) : WaveOf(m) \in 1..L /\ WaveOf(m) < j
    <3> TAKE m \in DependsOn(edges, n)
    <3>1. m \in D /\ WaveOf(m) < j
      BY <1>14, <2>2
    <3>2. PICK i \in 1..L : m \in w[i]
      BY <3>1
    <3> QED BY <1>5, <3>1, <3>2
  <2>4. S \in SUBSET Int /\ \A y \in S : y <= j - 1
    BY <1>1, <2>2, <2>3
  <2>5. j - 1 \in S
    <3>1. CASE j = 1
      BY <3>1
    <3>2. CASE j # 1
      <4> DEFINE i == j - 1
      <4>1. i \in 1..(j - 1) /\ i \in 1..L /\ i # L /\ i + 1 = j
        BY <1>1, <2>2, <3>2
      <4>2. Opens(i) /\ done(j) = done(i) \union w[i] /\ w[i] = ReadyIn(edges, done(i))
        BY <1>7, <1>8, <1>12, <4>1
      <4> HIDE DEF i
      <4>3. n \notin w[i] /\ n \notin done(j)
        BY <1>2, <1>8, <2>1, <4>1 DEF ReadyIn
      <4>4. ~(DependsOn(edges, n) \subseteq done(i))
        BY <4>2, <4>3 DEF ReadyIn
      <4>5. PICK m \in DependsOn(edges, n) : m \notin done(i)
        BY <4>4
      <4>6. m \in w[i]
        BY <1>11, <2>1, <4>2, <4>5
      <4>7. WaveOf(m) = i
        BY <1>5, <4>1, <4>6
      <4> QED BY <4>5, <4>7 DEF i
    <3> QED BY <3>1, <3>2
  <2> HIDE DEF S
  <2>6. Max(S) = j - 1
    BY <2>4, <2>5, GreatestIf
  <2> QED BY <2>2, <2>6 DEF S
<1>19. \A n \in GraphNode \ D : WaveOf(n) = L
  <2> TAKE n \in GraphNode \ D
  <2>1. PICK j \in 1..L : n \in w[j]
    BY <1>4
  <2> QED BY <1>5, <1>10, <1>13, <2>1
<1> HIDE DEF D
<1> QED BY <1>16, <1>17, <1>18, <1>19 DEF WavesAreLayers, w, L

----------------------------------------------------------------------------
GraphInv == edges \in Seq(GraphEdge)

\* Every node is executed exactly once, in the sort and in the waves; what neither a
\* cycle nor an unknown node holds up comes behind all it depends on and before what
\* is held up, with the output of a predecessor at hand, and is in the first wave it
\* can be in: for any number of nodes and for any edges.
THEOREM GraphsStayOrdered == Spec => []GraphsAreOrdered
<1>1. Init => GraphInv
  <2>1. <<>> \in Seq(GraphEdge)
    BY EmptySeq
  <2> QED BY <2>1 DEF Init, TgInit, GraphInv
<1>2. GraphInv /\ [Next]_mcVars => GraphInv'
  <2> SUFFICES ASSUME GraphInv, [Next]_mcVars PROVE GraphInv'
    OBVIOUS
  <2>1. UNCHANGED edges \/ TgNext
    <3>1. CASE UNCHANGED mcVars
      BY <3>1 DEF mcVars, tgVars
    <3>2. CASE Next
      BY <3>2, Zenon DEF Next, tgVars
    <3> QED BY <3>1, <3>2
  <2>2. CASE UNCHANGED edges
    BY <2>2 DEF GraphInv
  <2>3. CASE TgNext
    <3>1. PICK e \in GraphEdge : edges' = Append(edges, e)
      BY <2>3 DEF TgNext, GraphEdge
    <3> QED BY <3>1, AppendProperties DEF GraphInv
  <2> QED BY <2>1, <2>2, <2>3
<1>3. GraphInv => GraphsAreOrdered
  BY SortHolds, WavesHold DEF GraphInv, GraphsAreOrdered
<1> QED BY <1>1, <1>2, <1>3, PTL DEF Spec, mcVars
=============================================================================
