---------------------------- MODULE QueueProofs ----------------------------
(***************************************************************************)
(* The safety of TaskQueue for any number of tasks, workers, slots and     *)
(* operators, any caps of the stream, any limit on retries and any number  *)
(* of faults and operations.                                               *)
(***************************************************************************)
EXTENDS TaskQueue, DataLemmas

\* Entries and messages within MAX_RETRIES; a slot that is going to re-add its
\* message has a retry left.
QueueEntry == [task: Tasks, retry: 0..MaxRetries]
Working == {"run", "ack", "requeue", "bury"}
SlotState(j) ==
    /\ j \in Message
    /\ j.pc \in Working => j.task \in Tasks /\ j.retry <= MaxRetries
    /\ j.pc = "requeue" => j.retry < MaxRetries

QueueShape ==
    /\ QueueTypeOK
    /\ backlog \in Seq(QueueEntry)
    /\ \A w \in Workers : fetched[w] \in Seq(QueueEntry)
    /\ \A s \in Slots : SlotState(msg[s])
    /\ \A o \in Operators : op[o].pc # "idle" => op[o].task \in Tasks

----------------------------------------------------------------------------
(* No silent loss.                                                         *)

\* An operator has re-added this entry of the dead-letter stream and is about
\* to delete it.
Superseded(d) ==
    \E o \in Operators : op[o].pc = "xdel" /\ op[o].task = d.task /\ op[o].serial = d.serial

\* What stands for a task that was submitted.
Accounted(t) ==
    \/ t \in done \/ Live(t) \/ lost[t] # {}
    \/ \E d \in dlq : d.task = t /\ ~Superseded(d)

LossInv ==
    /\ \A t \in submitted : Accounted(t)
    /\ \A s \in Slots : msg[s].pc = "ack" => msg[s].task \in done
    /\ \A d \in dlq : d.serial < buried[d.task]
    /\ \A o \in Operators : op[o].pc # "idle" => op[o].serial < buried[op[o].task]

----------------------------------------------------------------------------
(* Bounded runs.  What an entry still weighs is one as an entry, and the   *)
(* runs it is good for as "runs".                                          *)

Measures == {"entries", "runs"}
Weight(m, t, e) ==
    IF e.task # t THEN 0 ELSE IF m = "entries" THEN 1 ELSE MaxRetries + 1 - e.retry
Held(m, t, j) ==
    IF j.pc \notin Working \/ j.task # t THEN 0
    ELSE IF m = "entries" THEN 1 ELSE MaxRetries - j.retry

Weights(m, t, seq) == [i \in 1..Len(seq) |-> Weight(m, t, seq[i])]
Queued(m, t, seq) == Tally(1..Len(seq), Weights(m, t, seq))
Fetching(m, t, f) == Tally(Workers, [w \in Workers |-> Queued(m, t, f[w])])
Processing(m, t, f) == Tally(Slots, [s \in Slots |-> Held(m, t, f[s])])
Outstanding(m, t) == Queued(m, t, backlog) + Fetching(m, t, fetched) + Processing(m, t, msg)

\* How often a task was put on the stream from outside, and what that allows.
Puts(t) == (IF t \in submitted THEN 1 ELSE 0) + requeued[t]
Quota(m) == IF m = "entries" THEN 1 ELSE MaxRetries + 1
Spent(m, t) == IF m = "entries" THEN 0 ELSE runs[t]

CountInv ==
    \A m \in Measures, t \in Tasks : Spent(m, t) + Outstanding(m, t) <= Quota(m) * Puts(t)

----------------------------------------------------------------------------
USE OwnerAssumption, QueueBoundAssumption, ProcessAssumption, NoTaskAssumption

(* Sequences of entries: what is in them, and what they weigh.              *)

LEMMA WeightType ==
    ASSUME NEW m \in Measures, NEW t \in Tasks, NEW e \in QueueEntry
    PROVE  Weight(m, t, e) \in Nat
BY DEF QueueEntry, Weight

LEMMA EntrySeq ==
    ASSUME NEW seq \in Seq(QueueEntry)
    PROVE  /\ Len(seq) \in Nat /\ DOMAIN seq = 1..Len(seq)
           /\ \A i \in 1..Len(seq) : seq[i] \in QueueEntry /\ seq[i].task \in Tasks
<1>1. Len(seq) \in Nat /\ DOMAIN seq = 1..Len(seq)
  BY LenProperties
<1>2. \A i \in 1..Len(seq) : seq[i] \in QueueEntry
  BY ElementOfSeq
<1> QED BY <1>1, <1>2 DEF QueueEntry

LEMMA WeightsType ==
    ASSUME NEW m \in Measures, NEW t \in Tasks, NEW seq \in Seq(QueueEntry)
    PROVE  /\ IsFiniteSet(1..Len(seq))
           /\ Weights(m, t, seq) \in [1..Len(seq) -> Nat]
           /\ Queued(m, t, seq) \in Nat
<1>1. IsFiniteSet(1..Len(seq))
  BY EntrySeq, UpTo
<1>2. Weights(m, t, seq) \in [1..Len(seq) -> Nat]
  BY EntrySeq, WeightType DEF Weights
<1> QED BY <1>1, <1>2, TallyType DEF Queued

LEMMA EmptyEntries ==
    ASSUME NEW m \in Measures, NEW t \in Tasks
    PROVE  << >> \in Seq(QueueEntry) /\ TasksIn(<< >>) = {} /\ Queued(m, t, << >>) = 0
<1>1. << >> \in Seq(QueueEntry) /\ Len(<< >>) = 0 /\ DOMAIN << >> = 1..0
  BY EmptySeq, LenProperties
<1>2. Queued(m, t, << >>) = 0
  <2>1. Weights(m, t, << >>) \in [1..Len(<< >>) -> Nat]
    BY <1>1, WeightsType
  <2>2. \A i \in 1..Len(<< >>) : FALSE
    BY <1>1
  <2> QED BY <2>1, <2>2, TallyNone DEF Queued
<1> QED BY <1>1, <1>2 DEF TasksIn, In

LEMMA AppendEntry ==
    ASSUME NEW m \in Measures, NEW t \in Tasks, NEW seq \in Seq(QueueEntry), NEW e \in QueueEntry
    PROVE  /\ Append(seq, e) \in Seq(QueueEntry)
           /\ Len(Append(seq, e)) = Len(seq) + 1
           /\ TasksIn(Append(seq, e)) = TasksIn(seq) \union {e.task}
           /\ Queued(m, t, Append(seq, e)) = Queued(m, t, seq) + Weight(m, t, e)
<1> DEFINE long == Append(seq, e)
           n == Len(seq)
<1>1. /\ long \in Seq(QueueEntry) /\ Len(long) = n + 1 /\ n \in Nat
      /\ DOMAIN long = 1..(n + 1) /\ DOMAIN seq = 1..n
      /\ (\A i \in 1..n : long[i] = seq[i]) /\ long[n + 1] = e
  BY AppendProperties, EntrySeq
<1> HIDE DEF long, n
<1>2. 1..(n + 1) = (1..n) \union {n + 1} /\ (1..n) \cap {n + 1} = {}
  BY <1>1
<1>3. TasksIn(long) = TasksIn(seq) \union {e.task}
  <2>1. In(long) = In(seq) \union {e}
    BY <1>1, <1>2 DEF In
  <2> QED BY <2>1 DEF TasksIn
<1>4. Queued(m, t, long) = Queued(m, t, seq) + Weight(m, t, e)
  <2> DEFINE v == Weights(m, t, long)
             u == Weights(m, t, seq)
             z == [i \in 1..(n + 1) |-> IF i = n + 1 THEN 0 ELSE v[i]]
  <2>1. v \in [1..(n + 1) -> Nat] /\ u \in [1..n -> Nat] /\ v[n + 1] = Weight(m, t, e)
        /\ (\A i \in 1..n : v[i] = u[i])
    <3>1. v \in [1..(n + 1) -> Nat] /\ u \in [1..n -> Nat]
      BY <1>1, WeightsType DEF n
    <3>2. v[n + 1] = Weight(m, t, e) /\ \A i \in 1..n : v[i] = u[i]
      BY <1>1, <1>2 DEF Weights, n
    <3> QED BY <3>1, <3>2
  <2> HIDE DEF u, v
  <2>2. IsFiniteSet(1..n) /\ IsFiniteSet({n + 1})
    BY <1>1, UpTo, One
  <2>3. Tally((1..n) \union {n + 1}, v) = Tally(1..n, v) + Tally({n + 1}, v)
    <3> DEFINE A == 1..n
    <3>1. v \in [A \union {n + 1} -> Nat] /\ IsFiniteSet(A) /\ A \cap {n + 1} = {}
      BY <1>2, <2>1, <2>2
    <3> HIDE DEF A
    <3>2. Tally(A \union {n + 1}, v) = Tally(A, v) + Tally({n + 1}, v)
      BY <2>2, <3>1, TallyUnion
    <3> QED BY <3>2 DEF A
  <2>4. Tally(1..n, v) = Tally(1..n, u)
    BY <2>1, TallySame
  <2>5. Tally({n + 1}, v) = v[n + 1]
    <3> DEFINE one == [i \in {n + 1} |-> v[i]]
    <3>1. one \in [{n + 1} -> Nat] /\ one[n + 1] = v[n + 1] /\ \A i \in {n + 1} : v[i] = one[i]
      BY <1>1, <2>1
    <3> HIDE DEF one
    <3>2. Tally({n + 1}, one) = one[n + 1]
      BY <3>1, TallyOne
    <3> QED BY <3>1, <3>2, TallySame
  <2> QED BY <1>1, <1>2, <2>1, <2>3, <2>4, <2>5 DEF Queued, u, v, n
<1> QED BY <1>1, <1>3, <1>4 DEF long, n

LEMMA CutEntries ==
    ASSUME NEW m \in Measures, NEW t \in Tasks, NEW seq \in Seq(QueueEntry), NEW n \in 0..Len(seq)
    PROVE  LET front == SubSeq(seq, 1, n)
               back == SubSeq(seq, n + 1, Len(seq))
           IN  /\ front \in Seq(QueueEntry) /\ back \in Seq(QueueEntry)
               /\ TasksIn(seq) = TasksIn(front) \union TasksIn(back)
               /\ Queued(m, t, seq) = Queued(m, t, front) + Queued(m, t, back)
<1> DEFINE front == SubSeq(seq, 1, n)
           back == SubSeq(seq, n + 1, Len(seq))
           k == Len(seq)
<1>0. k \in Nat /\ n \in Nat /\ n <= k /\ DOMAIN seq = 1..k
      /\ \A i \in 1..k : seq[i] \in QueueEntry
  BY EntrySeq
<1>1. /\ front \in Seq(QueueEntry) /\ Len(front) = n
      /\ \A i \in 1..n : front[i] = seq[i]
  <2>1. \A i \in 1..n : seq[i] \in QueueEntry
    BY <1>0
  <2>2. /\ front \in Seq(QueueEntry) /\ Len(front) = IF 1 <= n THEN n - 1 + 1 ELSE 0
        /\ \A i \in 1..(n - 1 + 1) : front[i] = seq[1 + i - 1]
    BY <1>0, <2>1, SubSeqProperties
  <2> QED BY <1>0, <2>2
<1>2. /\ back \in Seq(QueueEntry) /\ Len(back) = k - n
      /\ \A i \in 1..(k - n) : back[i] = seq[n + i]
  <2>1. \A i \in (n + 1)..k : seq[i] \in QueueEntry
    BY <1>0
  <2>2. /\ back \in Seq(QueueEntry) /\ Len(back) = IF n + 1 <= k THEN k - (n + 1) + 1 ELSE 0
        /\ \A i \in 1..(k - (n + 1) + 1) : back[i] = seq[n + 1 + i - 1]
    BY <1>0, <2>1, SubSeqProperties
  <2> QED BY <1>0, <2>2
<1>3. DOMAIN front = 1..n /\ DOMAIN back = 1..(k - n)
  BY <1>1, <1>2, EntrySeq
<1> HIDE DEF front, back, k
<1> DEFINE rest == (n + 1)..k
<1>4. 1..k = (1..n) \union rest /\ (1..n) \cap rest = {}
  BY <1>0
<1>5. TasksIn(seq) = TasksIn(front) \union TasksIn(back)
  <2>1. In(front) \subseteq In(seq)
    BY <1>0, <1>1, <1>3 DEF In
  <2>2. In(back) \subseteq In(seq)
    <3> SUFFICES ASSUME NEW i \in 1..(k - n) PROVE back[i] \in In(seq)
      BY <1>3 DEF In
    <3>1. n + i \in 1..k /\ back[i] = seq[n + i]
      BY <1>0, <1>2
    <3> QED BY <1>0, <3>1 DEF In
  <2>3. In(seq) \subseteq In(front) \union In(back)
    <3> SUFFICES ASSUME NEW i \in 1..k PROVE seq[i] \in In(front) \union In(back)
      BY <1>0 DEF In
    <3>1. CASE i <= n
      BY <1>0, <1>1, <1>3, <3>1 DEF In
    <3>2. CASE i > n
      <4>1. i - n \in 1..(k - n) /\ n + (i - n) = i
        BY <1>0, <3>2
      <4>2. back[i - n] = seq[i]
        BY <1>2, <4>1
      <4> QED BY <1>3, <4>1, <4>2 DEF In
    <3> QED BY <1>0, <3>1, <3>2
  <2>4. In(seq) = In(front) \union In(back)
    BY <2>1, <2>2, <2>3
  <2> QED BY <2>4 DEF TasksIn
<1>6. Queued(m, t, seq) = Queued(m, t, front) + Queued(m, t, back)
  <2> DEFINE w == Weights(m, t, seq)
             u == Weights(m, t, front)
             v == Weights(m, t, back)
             tail == [i \in rest |-> w[i]]
  <2>1. /\ w \in [1..k -> Nat] /\ u \in [1..n -> Nat] /\ v \in [1..(k - n) -> Nat]
        /\ (\A i \in 1..n : w[i] = u[i]) /\ (\A i \in rest : v[i - n] = w[i])
    <3>1. w \in [1..k -> Nat] /\ u \in [1..n -> Nat] /\ v \in [1..(k - n) -> Nat]
      BY <1>1, <1>2, WeightsType DEF k
    <3>2. \A i \in 1..n : w[i] = u[i]
      BY <1>0, <1>1 DEF Weights, k
    <3>3. ASSUME NEW i \in rest PROVE v[i - n] = w[i]
      <4>1. i - n \in 1..(k - n) /\ n + (i - n) = i /\ i \in 1..k
        BY <1>0
      <4>2. back[i - n] = seq[i]
        BY <1>2, <4>1
      <4>3. v[i - n] = Weight(m, t, back[i - n]) /\ w[i] = Weight(m, t, seq[i])
        BY <1>2, <4>1 DEF Weights, k
      <4> QED BY <4>2, <4>3
    <3> QED BY <3>1, <3>2, <3>3
  <2> HIDE DEF u, v, w
  <2>2. IsFiniteSet(1..n) /\ IsFiniteSet(rest) /\ IsFiniteSet(1..(k - n))
    <3>1. IsFiniteSet(1..k) /\ rest \in SUBSET (1..k)
      BY <1>0, UpTo
    <3>2. IsFiniteSet(rest)
      BY <3>1, FS_Subset
    <3> QED BY <1>0, <3>2, UpTo
  <2>3. Tally((1..n) \union rest, w) = Tally(1..n, w) + Tally(rest, w)
    <3> DEFINE A == 1..n
    <3>1. /\ w \in [A \union rest -> Nat] /\ IsFiniteSet(A) /\ IsFiniteSet(rest)
          /\ A \cap rest = {}
      BY <1>4, <2>1, <2>2
    <3> HIDE DEF A, rest
    <3>2. Tally(A \union rest, w) = Tally(A, w) + Tally(rest, w)
      BY <3>1, TallyUnion
    <3> QED BY <3>2 DEF A
  <2>4. Tally(1..n, w) = Tally(1..n, u)
    BY <2>1, TallySame
  <2>5. Tally(rest, w) = Tally(rest, tail)
    BY TallySame
  <2>6. Tally(1..(k - n), v) = Tally(rest, tail)
    <3>1. tail \in [rest -> Nat] /\ \A i \in rest : v[i - n] = tail[i]
      BY <1>0, <2>1
    <3> DEFINE B == 1..(k - n)
    <3>2. Renumbered(rest, tail, B, v, n)
      BY <1>0, <2>1, <2>2, <3>1 DEF Renumbered
    <3> HIDE DEF tail, rest, B
    <3>3. Tally(B, v) = Tally(rest, tail)
      BY <3>2, TallyShift
    <3> QED BY <3>3 DEF B
  <2> QED BY <1>1, <1>2, <1>4, <2>3, <2>4, <2>5, <2>6 DEF Queued, u, v, w, k
<1> QED BY <1>1, <1>2, <1>5, <1>6 DEF front, back, k

LEMMA FirstEntry ==
    ASSUME NEW m \in Measures, NEW t \in Tasks, NEW seq \in Seq(QueueEntry), seq # << >>
    PROVE  /\ Head(seq) \in QueueEntry /\ Tail(seq) \in Seq(QueueEntry)
           /\ TasksIn(seq) = {Head(seq).task} \union TasksIn(Tail(seq))
           /\ Queued(m, t, seq) = Weight(m, t, Head(seq)) + Queued(m, t, Tail(seq))
<1>1. Len(seq) \in Nat \ {0} /\ 1 \in 0..Len(seq) /\ Head(seq) \in QueueEntry /\ Head(seq) = seq[1]
  <2>1. Len(seq) \in Nat \ {0}
    BY EmptySeq
  <2>2. Head(seq) \in QueueEntry
    BY HeadTailProperties
  <2> QED BY <2>1, <2>2
<1> DEFINE front == SubSeq(seq, 1, 1)
           back == SubSeq(seq, 1 + 1, Len(seq))
           nil == << >>
           one == Append(nil, Head(seq))
<1>2. Tail(seq) = back
  BY TailIsSubSeq
<1>3. /\ nil \in Seq(QueueEntry) /\ TasksIn(nil) = {} /\ Queued(m, t, nil) = 0 /\ Len(nil) = 0
      /\ Weight(m, t, Head(seq)) \in Nat
  BY <1>1, EmptyEntries, WeightType
<1> HIDE DEF nil
<1>4. /\ one \in Seq(QueueEntry) /\ Len(one) = 1
      /\ TasksIn(one) = {Head(seq).task}
      /\ Queued(m, t, one) = Weight(m, t, Head(seq))
      /\ one[1] = Head(seq)
  <2>1. one[Len(nil) + 1] = Head(seq)
    BY <1>1, <1>3, AppendProperties
  <2>2. /\ one \in Seq(QueueEntry) /\ Len(one) = Len(nil) + 1
        /\ TasksIn(one) = TasksIn(nil) \union {Head(seq).task}
        /\ Queued(m, t, one) = Queued(m, t, nil) + Weight(m, t, Head(seq))
    BY <1>1, <1>3, AppendEntry
  <2> QED BY <1>3, <2>1, <2>2
<1>5. /\ front \in Seq(QueueEntry) /\ back \in Seq(QueueEntry)
      /\ TasksIn(seq) = TasksIn(front) \union TasksIn(back)
      /\ Queued(m, t, seq) = Queued(m, t, front) + Queued(m, t, back)
  BY <1>1, CutEntries
<1>6. front = one
  <2>1. \A i \in 1..1 : seq[i] \in QueueEntry
    BY <1>1
  <2>2. Len(front) = 1 /\ front[1] = seq[1]
    <3>1. /\ Len(front) = IF 1 <= 1 THEN 1 - 1 + 1 ELSE 0
          /\ \A i \in 1..(1 - 1 + 1) : front[i] = seq[1 + i - 1]
      BY <2>1, SubSeqProperties
    <3> QED BY <3>1
  <2>3. Len(one) = 1 /\ one[1] = front[1]
    BY <1>1, <1>4, <2>2
  <2> HIDE DEF front, one
  <2>4. \A i \in 1..Len(front) : front[i] = one[i]
    BY <2>2, <2>3
  <2> QED BY <1>4, <1>5, <2>2, <2>3, <2>4, SeqEqual
<1> HIDE DEF front, back, one
<1> QED BY <1>1, <1>2, <1>3, <1>4, <1>5, <1>6

----------------------------------------------------------------------------
(* What the operators of the actions do.                                   *)

LEMMA LoseEffect ==
    ASSUME lost \in [Tasks -> SUBSET Causes], NEW ts, NEW c \in Causes, Lose(ts, c)
    PROVE  /\ lost' \in [Tasks -> SUBSET Causes]
           /\ \A t \in Tasks : lost[t] \subseteq lost'[t] /\ (t \in ts => lost'[t] # {})
BY DEF Lose

\* XADD puts the entry at the end and drops none, some or all of what is over
\* the cap from the front; what it drops is lost, and the rest weighs no more.
LEMMA XAddEffect ==
    ASSUME QueueShape, NEW e \in QueueEntry, NEW cap \in Nat, XAdd(e, cap)
    PROVE  /\ backlog' \in Seq(QueueEntry)
           /\ lost' \in [Tasks -> SUBSET Causes]
           /\ \A t \in Tasks : lost[t] \subseteq lost'[t]
           /\ \A t \in TasksIn(backlog) \union {e.task} : t \in TasksIn(backlog') \/ lost'[t] # {}
           /\ \A m \in Measures : \A t \in Tasks :
                  Queued(m, t, backlog') <= Queued(m, t, backlog) + Weight(m, t, e)
<1> DEFINE stream == Append(backlog, e)
           excess == Len(stream) - cap
<1>1. /\ backlog \in Seq(QueueEntry) /\ lost \in [Tasks -> SUBSET Causes] /\ e.task \in Tasks
      /\ TasksIn(backlog) \subseteq Tasks
  <2>1. backlog \in Seq(QueueEntry) /\ lost \in [Tasks -> SUBSET Causes] /\ e.task \in Tasks
    BY DEF QueueShape, QueueTypeOK, QueueEntry
  <2> QED BY <2>1, EntrySeq DEF TasksIn, In
<1>2. /\ stream \in Seq(QueueEntry) /\ Len(stream) = Len(backlog) + 1
      /\ Len(stream) \in Nat /\ Len(backlog) \in Nat
  BY <1>1, AppendProperties, EntrySeq
<1>3. PICK n \in 0..(IF excess > 0 THEN excess ELSE 0) :
          /\ backlog' = SubSeq(stream, n + 1, Len(stream))
          /\ Lose(TasksIn(SubSeq(stream, 1, n)), "trim")
  BY DEF XAdd
<1>4. n \in 0..Len(stream)
  BY <1>2, <1>3
<1> HIDE DEF stream, excess
<1>5. ASSUME NEW m \in Measures, NEW t \in Tasks
      PROVE  /\ backlog' \in Seq(QueueEntry)
             /\ TasksIn(stream) = TasksIn(backlog) \union {e.task}
             /\ TasksIn(stream) = TasksIn(SubSeq(stream, 1, n)) \union TasksIn(backlog')
             /\ Queued(m, t, backlog') <= Queued(m, t, backlog) + Weight(m, t, e)
  <2>1. /\ TasksIn(stream) = TasksIn(backlog) \union {e.task}
        /\ Queued(m, t, stream) = Queued(m, t, backlog) + Weight(m, t, e)
    BY <1>1, AppendEntry DEF stream
  <2> DEFINE front == SubSeq(stream, 1, n)
  <2>2. /\ front \in Seq(QueueEntry) /\ backlog' \in Seq(QueueEntry)
        /\ TasksIn(stream) = TasksIn(front) \union TasksIn(backlog')
        /\ Queued(m, t, stream) = Queued(m, t, front) + Queued(m, t, backlog')
    BY <1>2, <1>3, <1>4, CutEntries
  <2> HIDE DEF front
  <2>3. Queued(m, t, front) \in Nat /\ Queued(m, t, backlog') \in Nat /\ Queued(m, t, backlog) \in Nat
        /\ Weight(m, t, e) \in Nat
    BY <1>1, <2>2, WeightsType, WeightType
  <2>4. Queued(m, t, backlog') <= Queued(m, t, backlog) + Weight(m, t, e)
    BY <2>1, <2>2, <2>3
  <2> QED BY <2>1, <2>2, <2>4 DEF front
<1>6. /\ lost' \in [Tasks -> SUBSET Causes]
      /\ \A t \in Tasks : /\ lost[t] \subseteq lost'[t]
                          /\ t \in TasksIn(SubSeq(stream, 1, n)) => lost'[t] # {}
  BY <1>1, <1>3, LoseEffect DEF Causes
<1>7. "runs" \in Measures
  BY DEF Measures
<1>8. backlog' \in Seq(QueueEntry)
  BY <1>1, <1>5, <1>7
<1>9. \A t \in TasksIn(backlog) \union {e.task} : t \in TasksIn(backlog') \/ lost'[t] # {}
  BY <1>1, <1>5, <1>6, <1>7
<1> QED BY <1>5, <1>6, <1>8, <1>9

LEMMA SlotBecomes ==
    ASSUME QueueShape, NEW s \in Slots, NEW j, SlotState(j), msg' = [msg EXCEPT ![s] = j]
    PROVE  /\ msg' \in [Slots -> Message]
           /\ \A x \in Slots : msg'[x] = (IF x = s THEN j ELSE msg[x]) /\ SlotState(msg'[x])
BY DEF QueueShape, QueueTypeOK, SlotState

LEMMA SlotMoves ==
    ASSUME QueueShape, NEW s \in Slots, NEW p \in Steps, p # "run" /\ p # "free",
           msg[s].pc \in Working, p = "requeue" => msg[s].retry < MaxRetries
    PROVE  /\ SlotState([msg[s] EXCEPT !.pc = p])
           /\ [msg[s] EXCEPT !.pc = p].pc = p
           /\ [msg[s] EXCEPT !.pc = p].task = msg[s].task
           /\ [msg[s] EXCEPT !.pc = p].retry = msg[s].retry
           /\ msg[s].task \in Tasks /\ msg[s].retry \in 0..MaxRetries
BY SMTT(30) DEF QueueShape, QueueTypeOK, SlotState, Message, Steps, Working

LEMMA FailureMoves ==
    ASSUME QueueShape, NEW s \in Slots, msg[s].pc \in {"run", "ack"}
    PROVE  /\ SlotState(AfterFailure(msg[s]))
           /\ AfterFailure(msg[s]).pc \in {"bury", "requeue"}
           /\ AfterFailure(msg[s]).task = msg[s].task
           /\ AfterFailure(msg[s]).retry = msg[s].retry
           /\ msg[s].task \in Tasks /\ msg[s].retry \in 0..MaxRetries
<1>1. msg[s].retry \in Nat /\ msg[s].retry <= MaxRetries /\ msg[s].task \in Tasks
  BY DEF QueueShape, QueueTypeOK, SlotState, Message, Working
<1>0. msg[s].pc \in Working /\ "bury" \in Steps /\ "requeue" \in Steps
  BY DEF Working, Steps
<1>2. CASE msg[s].retry >= MaxRetries
  <2>1. AfterFailure(msg[s]) = [msg[s] EXCEPT !.pc = "bury"]
    BY <1>2 DEF AfterFailure
  <2> QED BY <1>0, <2>1, SlotMoves
<1>3. CASE ~(msg[s].retry >= MaxRetries)
  <2>1. AfterFailure(msg[s]) = [msg[s] EXCEPT !.pc = "requeue"] /\ msg[s].retry < MaxRetries
    BY <1>1, <1>3 DEF AfterFailure
  <2> QED BY <1>0, <2>1, SlotMoves
<1> QED BY <1>2, <1>3

LEMMA FreeState == SlotState(Free) /\ Free.pc = "free"
BY DEF Free, SlotState, Message, Steps, Working

LEMMA WiderSeq == ASSUME NEW seq \in Seq(QueueEntry) PROVE seq \in Seq(Entry)
<1>1. QueueEntry \subseteq Entry
  BY DEF QueueEntry, Entry
<1> QED BY <1>1, SeqMonotonic

LEMMA WorkerSeqs ==
    ASSUME QueueShape, NEW w \in Workers, NEW seq \in Seq(QueueEntry),
           fetched' = [fetched EXCEPT ![w] = seq]
    PROVE  /\ fetched' \in [Workers -> Seq(Entry)]
           /\ \A x \in Workers : /\ fetched'[x] = IF x = w THEN seq ELSE fetched[x]
                                 /\ fetched'[x] \in Seq(QueueEntry)
<1>1. seq \in Seq(Entry)
  BY WiderSeq
<1> QED BY <1>1 DEF QueueShape, QueueTypeOK

----------------------------------------------------------------------------
(* The shape of the state is kept.                                         *)

LEMMA InitShape == ASSUME QueueInit PROVE QueueShape
<1>1. << >> \in Seq(QueueEntry) /\ << >> \in Seq(Entry)
  OBVIOUS
<1>2. QueueTypeOK
  BY <1>1, FreeState DEF QueueInit, QueueTypeOK, SlotState, Errand, Resting
<1>3. \A o \in Operators : op[o].pc = "idle"
  BY DEF QueueInit, Resting
<1> QED BY <1>1, <1>2, <1>3, FreeState DEF QueueShape, QueueInit

\* What a step on one slot leaves of the rest.
LEMMA SlotShape ==
    ASSUME QueueShape, NEW s \in Slots, NEW j, SlotState(j), msg' = [msg EXCEPT ![s] = j],
           UNCHANGED <<status, fetched, op, submitted, runs, requeued, ops>>,
           backlog' \in Seq(QueueEntry), dlq' \in SUBSET Dead, done' \in SUBSET Tasks,
           buried' \in [Tasks -> Nat], lost' \in [Tasks -> SUBSET Causes], faults' \in Nat
    PROVE  QueueShape'
<1>1. /\ msg' \in [Slots -> Message]
      /\ \A x \in Slots : msg'[x] = (IF x = s THEN j ELSE msg[x]) /\ SlotState(msg'[x])
  BY SlotBecomes
<1>2. backlog' \in Seq(Entry)
  BY WiderSeq
<1>3. QueueTypeOK'
  BY <1>1, <1>2 DEF QueueShape, QueueTypeOK
<1> QED BY <1>1, <1>3 DEF QueueShape

\* The steps of a slot's coroutine.
SlotStep(s) == Dispatch(s) \/ Settle(s) \/ AckFails(s) \/ XAddFails(s) \/ TimesOut(s)

LEMMA SlotStepShape == ASSUME QueueShape, NEW s \in Slots, SlotStep(s) PROVE QueueShape'
<1>0. /\ backlog \in Seq(QueueEntry) /\ dlq \in SUBSET Dead /\ done \in SUBSET Tasks
      /\ buried \in [Tasks -> Nat] /\ lost \in [Tasks -> SUBSET Causes] /\ faults \in Nat
      /\ faults + 1 \in Nat
  BY DEF QueueShape, QueueTypeOK
<1>1. CASE DispatchSucceeds(s)
  <2>1. msg[s].pc \in Working
    BY <1>1 DEF DispatchSucceeds, Working
  <2>2. SlotState([msg[s] EXCEPT !.pc = "ack"]) /\ msg[s].task \in Tasks
    BY <2>1, SlotMoves DEF Steps
  <2>3. msg' = [msg EXCEPT ![s] = [msg[s] EXCEPT !.pc = "ack"]] /\ done' \in SUBSET Tasks
    BY <1>0, <1>1, <2>2 DEF DispatchSucceeds
  <2>4. UNCHANGED <<backlog, status, fetched, dlq, op, submitted, runs, buried, requeued, lost, faults, ops>>
    BY <1>1 DEF DispatchSucceeds
  <2> QED BY <1>0, <2>2, <2>3, <2>4, SlotShape
<1>2. CASE DispatchFails(s)
  <2>1. SlotState(AfterFailure(msg[s])) /\ msg' = [msg EXCEPT ![s] = AfterFailure(msg[s])]
    BY <1>2, FailureMoves DEF DispatchFails
  <2>2. UNCHANGED <<backlog, status, fetched, dlq, op, submitted, runs, done, buried, requeued, lost, faults, ops>>
    BY <1>2 DEF DispatchFails
  <2> QED BY <1>0, <2>1, <2>2, SlotShape
<1>3. CASE Ack(s)
  <2>1. msg' = [msg EXCEPT ![s] = Free]
        /\ UNCHANGED <<backlog, status, fetched, dlq, op, submitted, runs, done, buried, requeued, lost, faults, ops>>
    BY <1>3 DEF Ack
  <2> QED BY <1>0, <2>1, FreeState, SlotShape
<1>4. CASE Requeue(s)
  <2>1. msg[s].pc \in Working /\ msg[s].pc = "requeue"
    BY <1>4 DEF Requeue, Working
  <2>2. /\ SlotState([msg[s] EXCEPT !.pc = "lastack"])
        /\ msg[s].task \in Tasks /\ msg[s].retry \in Nat /\ msg[s].retry < MaxRetries
    <3>1. msg[s].retry < MaxRetries
      BY <2>1 DEF QueueShape, SlotState
    <3>2. "lastack" \in Steps
      BY DEF Steps
    <3>3. SlotState([msg[s] EXCEPT !.pc = "lastack"]) /\ msg[s].task \in Tasks /\ msg[s].retry \in 0..MaxRetries
      BY <2>1, <3>2, SlotMoves
    <3> QED BY <3>1, <3>3
  <2>3. [task |-> msg[s].task, retry |-> msg[s].retry + 1] \in QueueEntry /\ RetryMaxLen \in Nat
    BY <2>2 DEF QueueEntry
  <2>4. backlog' \in Seq(QueueEntry) /\ lost' \in [Tasks -> SUBSET Causes]
    BY <1>4, <2>3, XAddEffect DEF Requeue
  <2>5. msg' = [msg EXCEPT ![s] = [msg[s] EXCEPT !.pc = "lastack"]]
        /\ UNCHANGED <<status, fetched, dlq, op, submitted, runs, done, buried, requeued, faults, ops>>
    BY <1>4 DEF Requeue
  <2> QED BY <1>0, <2>2, <2>4, <2>5, SlotShape
<1>5. CASE Bury(s)
  <2>1. msg[s].pc \in Working /\ msg[s].pc = "bury"
    BY <1>5 DEF Bury, Working
  <2>2. SlotState([msg[s] EXCEPT !.pc = "lastack"]) /\ msg[s].task \in Tasks
    BY <2>1, SlotMoves DEF Steps
  <2> DEFINE t == msg[s].task
  <2>3. /\ msg' = [msg EXCEPT ![s] = [msg[s] EXCEPT !.pc = "lastack"]]
        /\ dlq' = dlq \union {[task |-> t, serial |-> buried[t]]}
        /\ buried' = [buried EXCEPT ![t] = buried[t] + 1]
        /\ UNCHANGED <<backlog, status, fetched, op, submitted, runs, done, requeued, lost, faults, ops>>
    BY <1>5 DEF Bury
  <2>4. dlq' \in SUBSET Dead /\ buried' \in [Tasks -> Nat]
    BY <1>0, <2>2, <2>3 DEF Dead
  <2> QED BY <1>0, <2>2, <2>3, <2>4, SlotShape
<1>6. CASE AckFails(s)
  <2>1. SlotState(AfterFailure(msg[s])) /\ msg' = [msg EXCEPT ![s] = AfterFailure(msg[s])]
    BY <1>6, FailureMoves DEF AckFails
  <2>2. faults' = faults + 1
        /\ UNCHANGED <<backlog, status, fetched, dlq, op, submitted, runs, done, buried, requeued, lost, ops>>
    BY <1>6 DEF AckFails, Fault
  <2> QED BY <1>0, <2>1, <2>2, SlotShape
<1>7. CASE XAddFails(s) \/ TimesOut(s)
  <2>1. /\ msg' = [msg EXCEPT ![s] = Free] /\ faults' = faults + 1
        /\ Lose({msg[s].task}, "redis") \/ Lose({msg[s].task}, "timeout")
        /\ UNCHANGED <<backlog, status, fetched, dlq, op, submitted, runs, done, buried, requeued, ops>>
    BY <1>7 DEF XAddFails, TimesOut, Fault
  <2>2. lost' \in [Tasks -> SUBSET Causes]
    BY <1>0, <2>1, LoseEffect DEF Causes
  <2> QED BY <1>0, <2>1, <2>2, FreeState, SlotShape
<1> QED BY <1>1, <1>2, <1>3, <1>4, <1>5, <1>6, <1>7 DEF SlotStep, Dispatch, Settle

\* What the steps of a worker process leave of the rest.
LEMMA WorkerShape ==
    ASSUME QueueShape, backlog' \in Seq(QueueEntry),
           status' \in [Workers -> {"up", "stopping", "closing", "down"}],
           fetched' \in [Workers -> Seq(Entry)], \A w \in Workers : fetched'[w] \in Seq(QueueEntry),
           msg' \in [Slots -> Message], \A s \in Slots : SlotState(msg'[s]),
           runs' \in [Tasks -> Nat], lost' \in [Tasks -> SUBSET Causes], faults' \in Nat,
           UNCHANGED <<dlq, op, submitted, done, buried, requeued, ops>>
    PROVE  QueueShape'
<1>1. backlog' \in Seq(Entry)
  BY WiderSeq
<1>2. QueueTypeOK'
  BY <1>1 DEF QueueShape, QueueTypeOK
<1> QED BY <1>2 DEF QueueShape

LEMMA VacateShape ==
    ASSUME QueueShape, NEW w \in Workers, Vacate(w)
    PROVE  /\ msg' \in [Slots -> Message]
           /\ \A s \in Slots : /\ msg'[s] = IF Owner[s] = w THEN Free ELSE msg[s]
                               /\ SlotState(msg'[s])
BY FreeState DEF Vacate, QueueShape, QueueTypeOK, SlotState

LEMMA AbandonShape ==
    ASSUME QueueShape, NEW w \in Workers, NEW c \in Causes, Abandon(w, c), faults' \in Nat
    PROVE  QueueShape'
<1>1. /\ msg' \in [Slots -> Message] /\ \A s \in Slots : SlotState(msg'[s])
  BY VacateShape DEF Abandon
<1>2. /\ fetched' \in [Workers -> Seq(Entry)] /\ \A x \in Workers : fetched'[x] \in Seq(QueueEntry)
  BY EmptySeq, WorkerSeqs DEF Abandon
<1>3. /\ lost' \in [Tasks -> SUBSET Causes]
      /\ status' \in [Workers -> {"up", "stopping", "closing", "down"}]
  BY LoseEffect DEF Abandon, QueueShape, QueueTypeOK
<1>4. /\ backlog' \in Seq(QueueEntry) /\ runs' \in [Tasks -> Nat]
      /\ UNCHANGED <<dlq, op, submitted, done, buried, requeued, ops>>
  BY DEF Abandon, QueueShape, QueueTypeOK
<1> QED BY <1>1, <1>2, <1>3, <1>4, WorkerShape

\* The batch a worker fetches, and the slot it starts the first entry in.
LEMMA BatchSplits ==
    ASSUME QueueShape, NEW w \in Workers, ConsumeBatch(w)
    PROVE  \E n \in 0..Len(backlog) :
               /\ fetched' = [fetched EXCEPT ![w] = SubSeq(backlog, 1, n)]
               /\ backlog' = SubSeq(backlog, n + 1, Len(backlog))
               /\ SubSeq(backlog, 1, n) \in Seq(QueueEntry) /\ backlog' \in Seq(QueueEntry)
               /\ fetched[w] = << >>
               /\ UNCHANGED <<status, msg, dlq, op, submitted, runs, done, buried, requeued, lost, faults, ops>>
<1> DEFINE n == Smaller(Concurrency(w), Len(backlog))
<1>1. backlog \in Seq(QueueEntry) /\ Len(backlog) \in Nat
  BY EntrySeq DEF QueueShape
<1>2. Concurrency(w) \in Nat
  <2>1. SlotsOf(w) \in SUBSET Slots
    BY DEF SlotsOf
  <2> QED BY <2>1, FS_Subset, FS_CardinalityType DEF Concurrency
<1>3. n \in 0..Len(backlog)
  BY <1>1, <1>2 DEF Smaller
<1>4. "runs" \in Measures
  BY DEF Measures
<1>5. /\ fetched' = [fetched EXCEPT ![w] = SubSeq(backlog, 1, n)]
      /\ backlog' = SubSeq(backlog, n + 1, Len(backlog))
      /\ fetched[w] = << >> /\ backlog # << >>
      /\ UNCHANGED <<status, msg, dlq, op, submitted, runs, done, buried, requeued, lost, faults, ops>>
  BY DEF ConsumeBatch
<1> HIDE DEF n
<1>6. SubSeq(backlog, 1, n) \in Seq(QueueEntry) /\ backlog' \in Seq(QueueEntry)
  <2>1. PICK i \in 1..Len(backlog) : backlog[i].task \in Tasks
    <3>1. Len(backlog) \in Nat \ {0}
      BY <1>1, <1>5, EmptySeq
    <3>2. 1 \in 1..Len(backlog)
      BY <3>1
    <3> QED BY <1>1, <3>2, EntrySeq
  <2> QED BY <1>1, <1>3, <1>4, <1>5, <2>1, CutEntries
<1> QED BY <1>3, <1>5, <1>6

LEMMA FirstStarts ==
    ASSUME QueueShape, NEW w \in Workers, NEW s \in Slots, StartMessage(w, s)
    PROVE  LET e == Head(fetched[w])
               j == [pc |-> "run", task |-> e.task, retry |-> e.retry]
           IN  /\ e \in QueueEntry /\ e.task \in Tasks /\ e.retry \in 0..MaxRetries
               /\ SlotState(j) /\ j.pc = "run" /\ j.task = e.task /\ j.retry = e.retry
               /\ msg[s].pc = "free" /\ msg' = [msg EXCEPT ![s] = j]
               /\ runs' = [runs EXCEPT ![e.task] = runs[e.task] + 1]
               /\ fetched[w] # << >> /\ fetched[w] \in Seq(QueueEntry)
               /\ Tail(fetched[w]) \in Seq(QueueEntry)
               /\ fetched' = [fetched EXCEPT ![w] = Tail(fetched[w])]
               /\ UNCHANGED <<backlog, status, dlq, op, submitted, done, buried, requeued, lost, faults, ops>>
<1> DEFINE e == Head(fetched[w])
           j == [pc |-> "run", task |-> e.task, retry |-> e.retry]
<1>1. fetched[w] # << >> /\ fetched[w] \in Seq(QueueEntry)
  BY DEF StartMessage, QueueShape
<1>2. e \in QueueEntry /\ Tail(fetched[w]) \in Seq(QueueEntry)
  BY <1>1, HeadTailProperties
<1>3. /\ msg[s].pc = "free" /\ msg' = [msg EXCEPT ![s] = j]
      /\ runs' = [runs EXCEPT ![e.task] = runs[e.task] + 1]
      /\ fetched' = [fetched EXCEPT ![w] = Tail(fetched[w])]
      /\ UNCHANGED <<backlog, status, dlq, op, submitted, done, buried, requeued, lost, faults, ops>>
  BY DEF StartMessage
<1> HIDE DEF e
<1>4. e.task \in Tasks /\ e.retry \in 0..MaxRetries
  BY <1>2 DEF QueueEntry
<1>5. SlotState(j) /\ j.pc = "run" /\ j.task = e.task /\ j.retry = e.retry
  BY <1>4 DEF SlotState, Message, Steps, Working
<1> QED BY <1>1, <1>2, <1>3, <1>4, <1>5 DEF e

\* The steps of a worker process.
WorkerStep(w) ==
    \/ ConsumeBatch(w) \/ Crash(w) \/ Shutdown(w) \/ Stop(w)
    \/ StopTimesOut(w) \/ Exit(w) \/ Restart(w)

LEMMA WorkerStepShape == ASSUME QueueShape, NEW w \in Workers, WorkerStep(w) PROVE QueueShape'
<1>0. /\ backlog \in Seq(QueueEntry) /\ fetched \in [Workers -> Seq(Entry)]
      /\ status \in [Workers -> {"up", "stopping", "closing", "down"}]
      /\ (\A x \in Workers : fetched[x] \in Seq(QueueEntry))
      /\ msg \in [Slots -> Message] /\ (\A s \in Slots : SlotState(msg[s]))
      /\ runs \in [Tasks -> Nat] /\ lost \in [Tasks -> SUBSET Causes] /\ faults \in Nat
      /\ faults + 1 \in Nat
  BY DEF QueueShape, QueueTypeOK
<1>1. CASE ConsumeBatch(w)
  <2>1. PICK n \in 0..Len(backlog) :
               /\ fetched' = [fetched EXCEPT ![w] = SubSeq(backlog, 1, n)]
               /\ SubSeq(backlog, 1, n) \in Seq(QueueEntry) /\ backlog' \in Seq(QueueEntry)
               /\ UNCHANGED <<status, msg, dlq, op, submitted, runs, done, buried, requeued, lost, faults, ops>>
    BY <1>1, BatchSplits
  <2>2. /\ fetched' \in [Workers -> Seq(Entry)] /\ \A x \in Workers : fetched'[x] \in Seq(QueueEntry)
    BY <2>1, WorkerSeqs
  <2> QED BY <1>0, <2>1, <2>2, WorkerShape
<1>2. CASE Crash(w) \/ Exit(w)
  <2>1. faults' \in Nat /\ (Abandon(w, "crash") \/ Abandon(w, "stop") \/ Abandon(w, "shutdown"))
    BY <1>0, <1>2 DEF Crash, Exit, Fault
  <2> QED BY <2>1, AbandonShape DEF Causes
<1>3. CASE Shutdown(w)
  <2>1. /\ fetched' \in [Workers -> Seq(Entry)] /\ \A x \in Workers : fetched'[x] \in Seq(QueueEntry)
    BY <1>3, EmptySeq, WorkerSeqs DEF Shutdown
  <2>2. /\ lost' \in [Tasks -> SUBSET Causes] /\ faults' = faults + 1
        /\ status' \in [Workers -> {"up", "stopping", "closing", "down"}]
    BY <1>0, <1>3, LoseEffect DEF Shutdown, Fault, Causes
  <2>3. UNCHANGED <<backlog, msg, dlq, op, submitted, runs, done, buried, requeued, ops>>
    BY <1>3 DEF Shutdown
  <2> QED BY <1>0, <2>1, <2>2, <2>3, WorkerShape
<1>4. CASE Stop(w) \/ Restart(w)
  <2>1. /\ status' \in [Workers -> {"up", "stopping", "closing", "down"}] /\ faults' \in Nat
        /\ UNCHANGED <<backlog, fetched, msg, dlq, op, submitted, runs, done, buried, requeued, lost, ops>>
    BY <1>0, <1>4 DEF Stop, Restart, Fault
  <2> QED BY <1>0, <2>1, WorkerShape
<1>5. CASE StopTimesOut(w)
  <2>1. msg' \in [Slots -> Message] /\ \A s \in Slots : SlotState(msg'[s])
    BY <1>5, VacateShape DEF StopTimesOut
  <2>2. /\ lost' \in [Tasks -> SUBSET Causes]
        /\ UNCHANGED <<backlog, status, fetched, dlq, op, submitted, runs, done, buried, requeued, faults, ops>>
    BY <1>0, <1>5, LoseEffect DEF StopTimesOut, Causes
  <2> QED BY <1>0, <2>1, <2>2, WorkerShape
<1> QED BY <1>1, <1>2, <1>3, <1>4, <1>5 DEF WorkerStep

LEMMA StartShape ==
    ASSUME QueueShape, NEW w \in Workers, NEW s \in Slots, StartMessage(w, s)
    PROVE  QueueShape'
<1> DEFINE e == Head(fetched[w])
           j == [pc |-> "run", task |-> e.task, retry |-> e.retry]
<1>1. /\ e.task \in Tasks /\ SlotState(j) /\ msg' = [msg EXCEPT ![s] = j]
      /\ runs' = [runs EXCEPT ![e.task] = runs[e.task] + 1]
      /\ Tail(fetched[w]) \in Seq(QueueEntry)
      /\ fetched' = [fetched EXCEPT ![w] = Tail(fetched[w])]
      /\ UNCHANGED <<backlog, status, dlq, op, submitted, done, buried, requeued, lost, faults, ops>>
  BY FirstStarts
<1> HIDE DEF e, j
<1>2. msg' \in [Slots -> Message] /\ \A x \in Slots : SlotState(msg'[x])
  BY <1>1, SlotBecomes
<1>3. /\ fetched' \in [Workers -> Seq(Entry)] /\ \A x \in Workers : fetched'[x] \in Seq(QueueEntry)
  BY <1>1, WorkerSeqs
<1>4. /\ runs' \in [Tasks -> Nat] /\ backlog' \in Seq(QueueEntry) /\ lost' \in [Tasks -> SUBSET Causes]
      /\ status' \in [Workers -> {"up", "stopping", "closing", "down"}] /\ faults' \in Nat
  BY <1>1 DEF QueueShape, QueueTypeOK
<1> QED BY <1>1, <1>2, <1>3, <1>4, WorkerShape

\* The producer and the operators of the dead-letter stream.
OutsideStep ==
    \/ \E t \in Tasks : Enqueue(t)
    \/ \E o \in Operators : (\E d \in dlq : RetryRead(o, d)) \/ RetryXadd(o) \/ RetryXdel(o) \/ OperatorCrash(o)
    \/ \E d \in dlq : Clear(d)

LEMMA OutsideShape ==
    ASSUME QueueShape, UNCHANGED <<status, fetched, msg, runs, done, buried>>,
           backlog' \in Seq(QueueEntry), dlq' \in SUBSET Dead, op' \in [Operators -> Errand],
           \A o \in Operators : op'[o].pc # "idle" => op'[o].task \in Tasks,
           submitted' \in SUBSET Tasks, requeued' \in [Tasks -> Nat],
           lost' \in [Tasks -> SUBSET Causes], faults' \in Nat, ops' \in Nat
    PROVE  QueueShape'
<1>1. backlog' \in Seq(Entry)
  BY WiderSeq
<1>2. QueueTypeOK'
  BY <1>1 DEF QueueShape, QueueTypeOK
<1> QED BY <1>2 DEF QueueShape

LEMMA OutsideStepShape == ASSUME QueueShape, OutsideStep PROVE QueueShape'
<1>0. /\ backlog \in Seq(QueueEntry) /\ dlq \in SUBSET Dead /\ op \in [Operators -> Errand]
      /\ (\A o \in Operators : op[o].pc # "idle" => op[o].task \in Tasks)
      /\ submitted \in SUBSET Tasks /\ requeued \in [Tasks -> Nat]
      /\ lost \in [Tasks -> SUBSET Causes] /\ faults \in Nat /\ ops \in Nat
      /\ faults + 1 \in Nat /\ ops + 1 \in Nat
  BY DEF QueueShape, QueueTypeOK
<1>1. ASSUME NEW t \in Tasks, Enqueue(t) PROVE QueueShape'
  <2>1. [task |-> t, retry |-> 0] \in QueueEntry /\ ProducerMaxLen \in Nat
    BY DEF QueueEntry
  <2>2. backlog' \in Seq(QueueEntry) /\ lost' \in [Tasks -> SUBSET Causes]
    BY <1>1, <2>1, XAddEffect DEF Enqueue
  <2>3. submitted' \in SUBSET Tasks
        /\ UNCHANGED <<status, fetched, msg, dlq, op, runs, done, buried, requeued, faults, ops>>
    BY <1>0, <1>1 DEF Enqueue
  <2> QED BY <1>0, <2>2, <2>3, OutsideShape
<1>2. ASSUME NEW o \in Operators, NEW d \in dlq, RetryRead(o, d) PROVE QueueShape'
  <2> DEFINE r == [pc |-> "xadd", task |-> d.task, serial |-> d.serial]
  <2>1. d.task \in Tasks /\ d.serial \in Nat
    BY <1>0 DEF Dead
  <2>2. r \in Errand /\ r.task \in Tasks
    BY <2>1 DEF Errand
  <2>3. op' = [op EXCEPT ![o] = r] /\ ops' = ops + 1
        /\ UNCHANGED <<backlog, status, fetched, msg, dlq, submitted, runs, done, buried, requeued, lost, faults>>
    BY <1>2 DEF RetryRead
  <2> HIDE DEF r
  <2>4. op' \in [Operators -> Errand] /\ \A x \in Operators : op'[x].pc # "idle" => op'[x].task \in Tasks
    BY <1>0, <2>2, <2>3
  <2> QED BY <1>0, <2>3, <2>4, OutsideShape
<1>3. ASSUME NEW o \in Operators, RetryXadd(o) PROVE QueueShape'
  <2>1. op[o].task \in Tasks /\ op[o].pc = "xadd"
    BY <1>0, <1>3 DEF RetryXadd
  <2>2. [task |-> op[o].task, retry |-> 0] \in QueueEntry
    BY <2>1 DEF QueueEntry
  <2>3. backlog' \in Seq(QueueEntry)
    BY <1>0, <1>3, <2>2, AppendProperties DEF RetryXadd
  <2>4. requeued' \in [Tasks -> Nat]
    BY SMTT(30), <1>0, <1>3, <2>1 DEF RetryXadd
  <2>5. op' \in [Operators -> Errand] /\ \A x \in Operators : op'[x].pc # "idle" => op'[x].task \in Tasks
    BY <1>0, <1>3, <2>1 DEF RetryXadd, Errand
  <2>6. UNCHANGED <<status, fetched, msg, dlq, submitted, runs, done, buried, lost, faults, ops>>
    BY <1>3 DEF RetryXadd
  <2> QED BY <1>0, <2>3, <2>4, <2>5, <2>6, OutsideShape
<1>4. ASSUME NEW o \in Operators, RetryXdel(o) \/ OperatorCrash(o) PROVE QueueShape'
  <2>1. /\ op' = [op EXCEPT ![o] = Resting] /\ dlq' \subseteq dlq /\ faults' \in Nat
        /\ UNCHANGED <<backlog, status, fetched, msg, submitted, runs, done, buried, requeued, lost, ops>>
    BY <1>0, <1>4 DEF RetryXdel, OperatorCrash, Fault
  <2>2. Resting \in Errand /\ Resting.pc = "idle"
    BY DEF Resting, Errand
  <2>3. op' \in [Operators -> Errand] /\ \A x \in Operators : op'[x].pc # "idle" => op'[x].task \in Tasks
    BY <1>0, <2>1, <2>2
  <2> QED BY <1>0, <2>1, <2>3, OutsideShape
<1>5. ASSUME NEW d \in dlq, Clear(d) PROVE QueueShape'
  <2>1. /\ lost' \in [Tasks -> SUBSET Causes] /\ dlq' \subseteq dlq /\ ops' = ops + 1
        /\ UNCHANGED <<backlog, status, fetched, msg, op, submitted, runs, done, buried, requeued, faults>>
    BY <1>0, <1>5, LoseEffect DEF Clear, Causes
  <2> QED BY <1>0, <2>1, OutsideShape
<1> QED BY <1>1, <1>2, <1>3, <1>4, <1>5 DEF OutsideStep

\* The next-state relation by who acts.
LEMMA QueueCases ==
    ASSUME QueueNext
    PROVE  \/ \E s \in Slots : SlotStep(s)
           \/ \E w \in Workers : WorkerStep(w)
           \/ \E w \in Workers, s \in Slots : StartMessage(w, s)
           \/ OutsideStep
BY Zenon DEF QueueNext, SlotStep, WorkerStep, OutsideStep

LEMMA ShapeStep == ASSUME QueueShape, [QueueNext]_queueVars PROVE QueueShape'
<1>1. CASE UNCHANGED queueVars
  BY <1>1 DEF queueVars, QueueShape, QueueTypeOK
<1>2. CASE QueueNext
  BY <1>2, QueueCases, SlotStepShape, WorkerStepShape, StartShape, OutsideStepShape, Zenon
<1> QED BY <1>1, <1>2

\* Every cell of the queue keeps its shape whatever fails: entries name a
\* task with its retries in range, slots at work have an entry, operators a task.
THEOREM QueueKeepsItsShape == QueueSpec => []QueueShape
<1>1. QueueInit => QueueShape
  BY InitShape
<1>2. QueueShape /\ [QueueNext]_queueVars => QueueShape'
  BY ShapeStep
<1> QED BY <1>1, <1>2, PTL DEF QueueSpec

----------------------------------------------------------------------------
(* No task disappears silently.                                            *)

LEMMA LossFacts ==
    ASSUME QueueShape
    PROVE  /\ lost \in [Tasks -> SUBSET Causes] /\ submitted \subseteq Tasks /\ done \subseteq Tasks
           /\ dlq \subseteq Dead /\ (\A d \in dlq : d.task \in Tasks /\ d.serial \in Nat)
           /\ buried \in [Tasks -> Nat]
BY DEF QueueShape, QueueTypeOK, Dead

\* A step that leaves the dead-letter stream and its operators alone keeps the
\* account of every task, when what it does to live entries is accounted for.
LEMMA KeepAccounts ==
    ASSUME QueueShape, QueueShape', LossInv, UNCHANGED <<dlq, op, buried>>, done \subseteq done',
           \A t \in Tasks : lost[t] \subseteq lost'[t],
           \A t \in submitted : Live(t) => t \in done' \/ Live(t)' \/ lost'[t] # {},
           \A t \in submitted' \ submitted : Live(t)' \/ lost'[t] # {},
           \A s \in Slots : msg'[s].pc = "ack" => msg'[s].task \in done'
    PROVE  LossInv'
<1>1. \A t \in submitted' : Accounted(t)'
  <2>1. ASSUME NEW t \in submitted PROVE Accounted(t)'
    <3>1. Accounted(t) /\ t \in Tasks
      BY LossFacts DEF LossInv
    <3>2. (\E d \in dlq : d.task = t /\ ~Superseded(d)) => (\E d \in dlq' : d.task = t /\ ~Superseded(d)')
      BY DEF Superseded
    <3>3. lost[t] # {} => lost'[t] # {}
      BY <3>1
    <3> QED BY <3>1, <3>2, <3>3 DEF Accounted
  <2>2. ASSUME NEW t \in submitted' \ submitted PROVE Accounted(t)'
    BY <2>2 DEF Accounted
  <2> QED BY <2>1, <2>2
<1>2. /\ \A d \in dlq' : d.serial < buried'[d.task]
      /\ \A o \in Operators : op'[o].pc # "idle" => op'[o].serial < buried'[op'[o].task]
  BY DEF LossInv
<1> QED BY <1>1, <1>2 DEF LossInv

\* The same for a step of one slot: only the task it works on is in question.
LEMMA KeepSlotAccounts ==
    ASSUME QueueShape, QueueShape', LossInv, NEW s \in Slots, NEW j, SlotState(j),
           msg' = [msg EXCEPT ![s] = j], UNCHANGED <<dlq, op, buried, fetched, submitted>>,
           done \subseteq done', \A t \in Tasks : lost[t] \subseteq lost'[t],
           \A t \in TasksIn(backlog) : t \in TasksIn(backlog') \/ lost'[t] # {},
           msg[s].pc \in Working => \/ msg[s].task \in done' \/ lost'[msg[s].task] # {}
                                    \/ msg[s].task \in TasksIn(backlog')
                                    \/ j.pc \in Working /\ j.task = msg[s].task,
           j.pc = "ack" => j.task \in done'
    PROVE  LossInv'
<1>1. \A x \in Slots : msg'[x] = IF x = s THEN j ELSE msg[x]
  BY SlotBecomes
<1>2. ASSUME NEW t \in submitted, Live(t) PROVE t \in done' \/ Live(t)' \/ lost'[t] # {}
  <2>1. CASE t \in TasksIn(backlog)
    BY <2>1 DEF Live
  <2>2. CASE \E w \in Workers : t \in TasksIn(fetched[w])
    BY <2>2 DEF Live
  <2>3. ASSUME NEW x \in Slots, msg[x].task = t, msg[x].pc \in Working
        PROVE  t \in done' \/ Live(t)' \/ lost'[t] # {}
    BY <1>1, <2>3 DEF Live, Working
  <2> QED BY <1>2, <2>1, <2>2, <2>3 DEF Live, Working
<1>3. \A x \in Slots : msg'[x].pc = "ack" => msg'[x].task \in done'
  BY <1>1 DEF LossInv
<1> QED BY <1>2, <1>3, KeepAccounts

LEMMA SlotStepLoss ==
    ASSUME QueueShape, QueueShape', LossInv, NEW s \in Slots, SlotStep(s)
    PROVE  LossInv'
<1>1. CASE DispatchSucceeds(s)
  <2> DEFINE j == [msg[s] EXCEPT !.pc = "ack"]
  <2>1. msg[s].pc \in Working /\ "ack" \in Steps
    BY <1>1 DEF DispatchSucceeds, Working, Steps
  <2>2. SlotState(j) /\ j.task = msg[s].task
    BY <2>1, SlotMoves
  <2>3. /\ msg' = [msg EXCEPT ![s] = j] /\ done' = done \union {msg[s].task}
        /\ UNCHANGED <<backlog, fetched, dlq, op, submitted, buried, lost>>
    BY <1>1 DEF DispatchSucceeds
  <2> HIDE DEF j
  <2> QED BY <2>2, <2>3, KeepSlotAccounts
<1>2. CASE DispatchFails(s) \/ AckFails(s)
  <2> DEFINE j == AfterFailure(msg[s])
  <2>1. msg[s].pc \in {"run", "ack"}
    BY <1>2 DEF DispatchFails, AckFails
  <2>2. SlotState(j) /\ j.task = msg[s].task /\ j.pc \in Working /\ j.pc # "ack"
    BY <2>1, FailureMoves DEF Working
  <2>3. /\ msg' = [msg EXCEPT ![s] = j]
        /\ UNCHANGED <<backlog, fetched, dlq, op, submitted, buried, lost, done>>
    BY <1>2 DEF DispatchFails, AckFails
  <2> HIDE DEF j
  <2> QED BY <2>2, <2>3, KeepSlotAccounts
<1>3. CASE Ack(s)
  <2>1. /\ msg' = [msg EXCEPT ![s] = Free] /\ msg[s].pc \in {"ack", "lastack"}
        /\ UNCHANGED <<backlog, fetched, dlq, op, submitted, buried, lost, done>>
    BY <1>3 DEF Ack
  <2>2. msg[s].pc \in Working => msg[s].task \in done
    BY <2>1 DEF LossInv, Working
  <2> QED BY <2>1, <2>2, FreeState, KeepSlotAccounts
<1>4. CASE Requeue(s)
  <2> DEFINE j == [msg[s] EXCEPT !.pc = "lastack"]
             e == [task |-> msg[s].task, retry |-> msg[s].retry + 1]
  <2>1. msg[s].pc \in Working /\ msg[s].pc = "requeue" /\ "lastack" \in Steps
    BY <1>4 DEF Requeue, Working, Steps
  <2>2. /\ SlotState(j) /\ j.pc = "lastack"
        /\ msg[s].task \in Tasks /\ msg[s].retry \in 0..MaxRetries
    BY <2>1, SlotMoves
  <2>3. msg[s].retry < MaxRetries
    BY <2>1 DEF QueueShape, SlotState
  <2>4. e \in QueueEntry /\ e.task = msg[s].task /\ RetryMaxLen \in Nat
    BY <2>2, <2>3 DEF QueueEntry
  <2>5. /\ msg' = [msg EXCEPT ![s] = j] /\ XAdd(e, RetryMaxLen)
        /\ UNCHANGED <<fetched, dlq, op, submitted, buried, done>>
    BY <1>4 DEF Requeue
  <2> HIDE DEF j, e
  <2>6. /\ \A t \in Tasks : lost[t] \subseteq lost'[t]
        /\ \A t \in TasksIn(backlog) \union {msg[s].task} : t \in TasksIn(backlog') \/ lost'[t] # {}
    BY <2>4, <2>5, XAddEffect
  <2> QED BY <2>2, <2>5, <2>6, KeepSlotAccounts
<1>5. CASE XAddFails(s) \/ TimesOut(s)
  <2>1. /\ msg' = [msg EXCEPT ![s] = Free] /\ msg[s].pc \in Working
        /\ Lose({msg[s].task}, "redis") \/ Lose({msg[s].task}, "timeout")
        /\ UNCHANGED <<backlog, fetched, dlq, op, submitted, buried, done>>
    BY <1>5 DEF XAddFails, TimesOut, Working
  <2>2. msg[s].task \in Tasks
    BY <2>1 DEF QueueShape, SlotState
  <2>3. (\A t \in Tasks : lost[t] \subseteq lost'[t]) /\ lost'[msg[s].task] # {}
    BY <2>1, <2>2, LossFacts, LoseEffect DEF Causes
  <2> QED BY <2>1, <2>3, FreeState, KeepSlotAccounts
<1>6. CASE Bury(s)
  <2> DEFINE j == [msg[s] EXCEPT !.pc = "lastack"]
             t == msg[s].task
             d == [task |-> t, serial |-> buried[t]]
  <2>1. msg[s].pc \in Working /\ "lastack" \in Steps
    BY <1>6 DEF Bury, Working, Steps
  <2>2. SlotState(j) /\ j.pc = "lastack" /\ t \in Tasks
    BY <2>1, SlotMoves
  <2>3. /\ msg' = [msg EXCEPT ![s] = j] /\ dlq' = dlq \union {d}
        /\ buried' = [buried EXCEPT ![t] = buried[t] + 1]
        /\ UNCHANGED <<backlog, fetched, op, submitted, lost, done>>
    BY <1>6 DEF Bury
  <2> HIDE DEF j
  <2>4. \A x \in Slots : msg'[x] = IF x = s THEN j ELSE msg[x]
    BY <2>2, <2>3, SlotBecomes
  <2>5. buried[t] \in Nat /\ \A u \in Tasks : buried'[u] \in Nat /\ buried[u] <= buried'[u]
                                             /\ (u = t => buried'[u] = buried[u] + 1)
    BY <2>2, <2>3, LossFacts
  <2>6. /\ \A x \in dlq' : x.serial < buried'[x.task]
        /\ \A o \in Operators : op'[o].pc # "idle" => op'[o].serial < buried'[op'[o].task]
    <3>1. ASSUME NEW x \in dlq PROVE x.serial < buried'[x.task]
      BY <2>5, LossFacts DEF LossInv
    <3>2. d.serial < buried'[d.task]
      BY <2>2, <2>5
    <3>3. ASSUME NEW o \in Operators, op[o].pc # "idle" PROVE op[o].serial < buried'[op[o].task]
      <4>1. op[o].task \in Tasks /\ op[o].serial \in Nat
        BY <3>3 DEF QueueShape, QueueTypeOK, Errand
      <4>2. op[o].serial < buried[op[o].task] /\ buried[op[o].task] \in Nat
        BY <3>3, <4>1, LossFacts DEF LossInv
      <4> QED BY <2>5, <4>1, <4>2
    <3> QED BY <2>3, <3>1, <3>2, <3>3
  <2>7. \A x \in dlq' : Superseded(x)' <=> Superseded(x)
    BY <2>3 DEF Superseded
  <2>8. ~Superseded(d)
    <3> SUFFICES ASSUME NEW o \in Operators, op[o].pc = "xdel", op[o].task = d.task, op[o].serial = d.serial
                 PROVE  FALSE
      BY DEF Superseded
    <3>1. op[o].serial < buried[t] /\ op[o].serial = buried[t]
      BY DEF LossInv
    <3> QED BY <2>5, <3>1
  <2>9. ASSUME NEW u \in submitted PROVE Accounted(u)'
    <3>1. Accounted(u)
      BY DEF LossInv
    <3>2. CASE u = t
      BY <2>3, <2>7, <2>8, <3>2 DEF Accounted
    <3>3. CASE u # t /\ Live(u)
      <4>1. Live(u)'
        BY <2>3, <2>4, <3>3 DEF Live, Working
      <4> QED BY <4>1 DEF Accounted
    <3>4. CASE u # t /\ ~Live(u)
      BY <2>3, <2>7, <3>1, <3>4 DEF Accounted
    <3> QED BY <3>2, <3>3, <3>4
  <2>10. \A x \in Slots : msg'[x].pc = "ack" => msg'[x].task \in done'
    BY <2>2, <2>3, <2>4 DEF LossInv
  <2>11. submitted' = submitted
    BY <2>3
  <2> QED BY <2>6, <2>9, <2>10, <2>11 DEF LossInv
<1> QED BY <1>1, <1>2, <1>3, <1>4, <1>5, <1>6 DEF SlotStep, Dispatch, Settle

\* A process that ends loses what it was working on and what it had fetched,
\* under a named cause.
LEMMA AbandonLoss ==
    ASSUME QueueShape, QueueShape', LossInv, NEW w \in Workers, NEW c \in Causes, Abandon(w, c)
    PROVE  LossInv'
<1>1. /\ \A s \in Slots : msg'[s] = IF Owner[s] = w THEN Free ELSE msg[s]
      /\ UNCHANGED <<backlog, dlq, op, submitted, buried, done>>
      /\ \A x \in Workers : x # w => fetched'[x] = fetched[x]
  BY VacateShape DEF Abandon, QueueShape, QueueTypeOK
<1>2. \A t \in Tasks : /\ lost[t] \subseteq lost'[t]
                       /\ t \in Unacknowledged(w) \union TasksIn(fetched[w]) => lost'[t] # {}
  BY LossFacts, LoseEffect DEF Abandon
<1>3. ASSUME NEW t \in submitted, Live(t) PROVE t \in done' \/ Live(t)' \/ lost'[t] # {}
  <2>0. t \in Tasks
    BY LossFacts
  <2>1. CASE t \in TasksIn(backlog)
    BY <1>1, <2>1 DEF Live
  <2>2. ASSUME NEW x \in Workers, t \in TasksIn(fetched[x])
        PROVE  t \in done' \/ Live(t)' \/ lost'[t] # {}
    BY <1>1, <1>2, <2>0, <2>2 DEF Live
  <2>3. ASSUME NEW s \in Slots, msg[s].task = t, msg[s].pc \in Working
        PROVE  t \in done' \/ Live(t)' \/ lost'[t] # {}
    <3>1. CASE Owner[s] = w
      BY <1>2, <2>0, <2>3, <3>1 DEF Unacknowledged, SlotsOf, Working
    <3>2. CASE Owner[s] # w
      BY <1>1, <2>3, <3>2 DEF Live, Working
    <3> QED BY <3>1, <3>2
  <2> QED BY <1>3, <2>1, <2>2, <2>3 DEF Live, Working
<1>4. \A s \in Slots : msg'[s].pc = "ack" => msg'[s].task \in done'
  BY <1>1, FreeState DEF LossInv
<1> QED BY <1>1, <1>2, <1>3, <1>4, KeepAccounts

LEMMA WorkerStepLoss ==
    ASSUME QueueShape, QueueShape', LossInv, NEW w \in Workers, WorkerStep(w)
    PROVE  LossInv'
<1>0. "runs" \in Measures
  BY DEF Measures
<1>1. CASE ConsumeBatch(w)
  <2>1. PICK n \in 0..Len(backlog) :
               /\ fetched' = [fetched EXCEPT ![w] = SubSeq(backlog, 1, n)]
               /\ backlog' = SubSeq(backlog, n + 1, Len(backlog))
               /\ SubSeq(backlog, 1, n) \in Seq(QueueEntry)
               /\ fetched[w] = << >>
               /\ UNCHANGED <<msg, dlq, op, submitted, done, buried, lost>>
    BY <1>1, BatchSplits
  <2>2. \A x \in Workers : fetched'[x] = IF x = w THEN SubSeq(backlog, 1, n) ELSE fetched[x]
    BY <2>1 DEF QueueShape, QueueTypeOK
  <2>3. ASSUME NEW t \in Tasks
        PROVE  TasksIn(backlog) = TasksIn(fetched'[w]) \union TasksIn(backlog')
    BY <1>0, <2>1, <2>2, CutEntries DEF QueueShape
  <2>4. TasksIn(fetched[w]) = {}
    BY <2>1 DEF TasksIn, In
  <2>5. ASSUME NEW t \in submitted, Live(t) PROVE Live(t)'
    <3>1. CASE t \in TasksIn(backlog)
      BY <2>3, <3>1, LossFacts DEF Live
    <3>2. CASE \E x \in Workers : t \in TasksIn(fetched[x])
      BY <2>2, <2>4, <3>2 DEF Live
    <3>3. CASE \E s \in Slots : msg[s].task = t /\ msg[s].pc \in Working
      BY <2>1, <3>3 DEF Live, Working
    <3> QED BY <2>5, <3>1, <3>2, <3>3 DEF Live, Working
  <2>6. \A s \in Slots : msg'[s].pc = "ack" => msg'[s].task \in done'
    BY <2>1 DEF LossInv
  <2> QED BY <2>1, <2>5, <2>6, KeepAccounts
<1>2. CASE Crash(w) \/ Exit(w)
  BY <1>2, AbandonLoss DEF Crash, Exit, Causes
<1>3. CASE Shutdown(w)
  <2>1. /\ \A x \in Workers : x # w => fetched'[x] = fetched[x]
        /\ UNCHANGED <<backlog, msg, dlq, op, submitted, done, buried>>
    BY <1>3 DEF Shutdown, QueueShape, QueueTypeOK
  <2>2. \A t \in Tasks : lost[t] \subseteq lost'[t] /\ (t \in TasksIn(fetched[w]) => lost'[t] # {})
    BY <1>3, LossFacts, LoseEffect DEF Shutdown, Causes
  <2>3. ASSUME NEW t \in submitted, Live(t) PROVE Live(t)' \/ lost'[t] # {}
    BY <2>1, <2>2, <2>3, LossFacts DEF Live
  <2>4. \A s \in Slots : msg'[s].pc = "ack" => msg'[s].task \in done'
    BY <2>1 DEF LossInv
  <2> QED BY <2>1, <2>2, <2>3, <2>4, KeepAccounts
<1>4. CASE Stop(w) \/ Restart(w)
  <2>1. UNCHANGED <<backlog, fetched, msg, dlq, op, submitted, done, buried, lost>>
    BY <1>4 DEF Stop, Restart
  <2>2. \A t \in submitted : Live(t) => Live(t)'
    BY <2>1 DEF Live
  <2>3. \A s \in Slots : msg'[s].pc = "ack" => msg'[s].task \in done'
    BY <2>1 DEF LossInv
  <2> QED BY <2>1, <2>2, <2>3, KeepAccounts
<1>5. CASE StopTimesOut(w)
  <2>1. /\ \A s \in Slots : msg'[s] = IF Owner[s] = w THEN Free ELSE msg[s]
        /\ UNCHANGED <<backlog, fetched, dlq, op, submitted, done, buried>>
    BY <1>5, VacateShape DEF StopTimesOut
  <2>2. \A t \in Tasks : lost[t] \subseteq lost'[t] /\ (t \in Unacknowledged(w) => lost'[t] # {})
    BY <1>5, LossFacts, LoseEffect DEF StopTimesOut, Causes
  <2>3. ASSUME NEW t \in submitted, Live(t) PROVE Live(t)' \/ lost'[t] # {}
    <3>1. ASSUME NEW s \in Slots, msg[s].task = t, msg[s].pc \in Working
          PROVE  Live(t)' \/ lost'[t] # {}
      <4>1. CASE Owner[s] = w
        BY <2>2, <3>1, <4>1, LossFacts DEF Unacknowledged, SlotsOf, Working
      <4>2. CASE Owner[s] # w
        BY <2>1, <3>1, <4>2 DEF Live, Working
      <4> QED BY <4>1, <4>2
    <3> QED BY <2>1, <2>3, <3>1 DEF Live, Working
  <2>4. \A s \in Slots : msg'[s].pc = "ack" => msg'[s].task \in done'
    BY <2>1, FreeState DEF LossInv
  <2> QED BY <2>1, <2>2, <2>3, <2>4, KeepAccounts
<1> QED BY <1>1, <1>2, <1>3, <1>4, <1>5 DEF WorkerStep

LEMMA StartLoss ==
    ASSUME QueueShape, QueueShape', LossInv, NEW w \in Workers, NEW s \in Slots, StartMessage(w, s)
    PROVE  LossInv'
<1> DEFINE e == Head(fetched[w])
           j == [pc |-> "run", task |-> e.task, retry |-> e.retry]
<1>1. /\ e.task \in Tasks /\ SlotState(j) /\ j.pc = "run" /\ j.task = e.task
      /\ msg[s].pc = "free" /\ msg' = [msg EXCEPT ![s] = j]
      /\ fetched[w] # << >> /\ fetched[w] \in Seq(QueueEntry)
      /\ Tail(fetched[w]) \in Seq(QueueEntry)
      /\ fetched' = [fetched EXCEPT ![w] = Tail(fetched[w])]
      /\ UNCHANGED <<backlog, dlq, op, submitted, done, buried, lost>>
  BY FirstStarts
<1>2. "runs" \in Measures
  BY DEF Measures
<1>3. TasksIn(fetched[w]) = {e.task} \union TasksIn(Tail(fetched[w]))
  BY <1>1, <1>2, FirstEntry
<1> HIDE DEF e, j
<1>4. \A x \in Slots : msg'[x] = IF x = s THEN j ELSE msg[x]
  BY <1>1, SlotBecomes
<1>5. \A x \in Workers : fetched'[x] = IF x = w THEN Tail(fetched[w]) ELSE fetched[x]
  BY <1>1 DEF QueueShape, QueueTypeOK
<1>6. ASSUME NEW t \in submitted, Live(t) PROVE Live(t)'
  <2>1. CASE t \in TasksIn(backlog)
    BY <1>1, <2>1 DEF Live
  <2>2. ASSUME NEW x \in Workers, t \in TasksIn(fetched[x]) PROVE Live(t)'
    <3>1. CASE t \in TasksIn(fetched'[x])
      BY <3>1 DEF Live
    <3>2. CASE t = e.task
      BY <1>1, <1>4, <3>2 DEF Live
    <3> QED BY <1>3, <1>5, <2>2, <3>1, <3>2
  <2>3. ASSUME NEW x \in Slots, msg[x].task = t, msg[x].pc \in Working PROVE Live(t)'
    BY <1>1, <1>4, <2>3 DEF Live, Working
  <2> QED BY <1>6, <2>1, <2>2, <2>3 DEF Live, Working
<1>7. \A x \in Slots : msg'[x].pc = "ack" => msg'[x].task \in done'
  BY <1>1, <1>4 DEF LossInv
<1> QED BY <1>1, <1>6, <1>7, KeepAccounts

LEMMA OutsideStepLoss ==
    ASSUME QueueShape, QueueShape', LossInv, OutsideStep
    PROVE  LossInv'
<1>1. ASSUME NEW t \in Tasks, Enqueue(t) PROVE LossInv'
  <2> DEFINE e == [task |-> t, retry |-> 0]
  <2>1. e \in QueueEntry /\ e.task = t /\ ProducerMaxLen \in Nat
    BY DEF QueueEntry
  <2>2. /\ XAdd(e, ProducerMaxLen) /\ submitted' = submitted \union {t}
        /\ UNCHANGED <<fetched, msg, dlq, op, done, buried>>
    BY <1>1 DEF Enqueue
  <2> HIDE DEF e
  <2>3. /\ \A u \in Tasks : lost[u] \subseteq lost'[u]
        /\ \A u \in TasksIn(backlog) \union {t} : u \in TasksIn(backlog') \/ lost'[u] # {}
    BY <2>1, <2>2, XAddEffect
  <2>4. \A u \in submitted : Live(u) => Live(u)' \/ lost'[u] # {}
    BY <2>2, <2>3 DEF Live
  <2>5. \A u \in submitted' \ submitted : Live(u)' \/ lost'[u] # {}
    BY <2>2, <2>3 DEF Live
  <2>6. \A s \in Slots : msg'[s].pc = "ack" => msg'[s].task \in done'
    BY <2>2 DEF LossInv
  <2> QED BY <2>2, <2>3, <2>4, <2>5, <2>6, KeepAccounts
<1>2. ASSUME NEW o \in Operators, NEW d \in dlq, RetryRead(o, d) PROVE LossInv'
  <2> DEFINE r == [pc |-> "xadd", task |-> d.task, serial |-> d.serial]
  <2>1. /\ op' = [op EXCEPT ![o] = r] /\ r.pc = "xadd" /\ r.task = d.task /\ r.serial = d.serial
        /\ op[o].pc = "idle"
        /\ UNCHANGED <<backlog, fetched, msg, dlq, submitted, done, buried, lost>>
    BY <1>2 DEF RetryRead
  <2> HIDE DEF r
  <2>2. \A x \in Operators : op'[x] = IF x = o THEN r ELSE op[x]
    BY <2>1 DEF QueueShape, QueueTypeOK
  <2>3. \A x \in dlq : Superseded(x)' <=> Superseded(x)
    BY <2>1, <2>2 DEF Superseded
  <2>4. \A t \in submitted : Live(t)' <=> Live(t)
    BY <2>1 DEF Live
  <2>5. \A t \in submitted' : Accounted(t)'
    BY <2>1, <2>3, <2>4 DEF Accounted, LossInv
  <2> QED BY <2>1, <2>2, <2>5 DEF LossInv
<1>3. ASSUME NEW o \in Operators, RetryXadd(o) PROVE LossInv'
  <2>1. PICK t \in Tasks : /\ t = op[o].task /\ op[o].pc = "xadd"
                           /\ backlog \in Seq(QueueEntry) /\ "runs" \in Measures
    BY <1>3 DEF RetryXadd, QueueShape, Measures
  <2> DEFINE e == [task |-> t, retry |-> 0]
  <2>2. e \in QueueEntry /\ e.task = t
    BY <2>1 DEF QueueEntry
  <2>3. /\ backlog' = Append(backlog, e)
        /\ UNCHANGED <<fetched, msg, dlq, submitted, done, buried, lost>>
    BY <1>3, <2>1 DEF RetryXadd
  <2>4. \A x \in Operators : /\ op'[x].task = op[x].task /\ op'[x].serial = op[x].serial
                             /\ op'[x].pc = IF x = o THEN "xdel" ELSE op[x].pc
    <3>1. op \in [Operators -> Errand] /\ op' = [op EXCEPT ![o].pc = "xdel"]
      BY <1>3 DEF RetryXadd, QueueShape, QueueTypeOK
    <3>2. \A x \in Operators : op'[x] = IF x = o THEN [op[o] EXCEPT !.pc = "xdel"] ELSE op[x]
      BY <3>1
    <3> QED BY <3>1, <3>2 DEF Errand
  <2> HIDE DEF e
  <2>5. TasksIn(backlog') = TasksIn(backlog) \union {t}
    BY <2>1, <2>2, <2>3, AppendEntry
  <2>6. Live(t)' /\ \A u \in submitted : Live(u) => Live(u)'
    BY <2>3, <2>5 DEF Live
  <2>7. \A x \in dlq : x.task # t => (Superseded(x)' <=> Superseded(x))
    <3> SUFFICES ASSUME NEW x \in dlq, x.task # t PROVE Superseded(x)' <=> Superseded(x)
      OBVIOUS
    <3>1. \A y \in Operators : /\ op'[y].pc = "xdel" /\ op'[y].task = x.task <=>
                                   op[y].pc = "xdel" /\ op[y].task = x.task
                               /\ op'[y].serial = op[y].serial
      BY <2>1, <2>4
    <3> QED BY <3>1 DEF Superseded
  <2>8. \A u \in submitted' : Accounted(u)'
    <3> SUFFICES ASSUME NEW u \in submitted PROVE Accounted(u)'
      BY <2>3
    <3>1. Accounted(u)
      BY DEF LossInv
    <3>2. CASE u = t
      BY <2>6, <3>2 DEF Accounted
    <3>3. CASE u # t
      BY <2>3, <2>6, <2>7, <3>1, <3>3 DEF Accounted
    <3> QED BY <3>2, <3>3
  <2>9. \A x \in Operators : op'[x].pc # "idle" => op'[x].serial < buried'[op'[x].task]
    <3> SUFFICES ASSUME NEW x \in Operators, op'[x].pc # "idle"
                 PROVE  op'[x].serial < buried'[op'[x].task]
      OBVIOUS
    <3>1. op[x].pc # "idle"
      BY <2>1, <2>4
    <3> QED BY <2>3, <2>4, <3>1 DEF LossInv
  <2> QED BY <2>3, <2>8, <2>9 DEF LossInv
<1>4. ASSUME NEW o \in Operators, RetryXdel(o) \/ OperatorCrash(o) PROVE LossInv'
  <2>1. /\ op' = [op EXCEPT ![o] = Resting] /\ Resting.pc = "idle"
        /\ UNCHANGED <<backlog, fetched, msg, submitted, done, buried, lost>>
    BY <1>4 DEF RetryXdel, OperatorCrash, Resting
  <2>2. \A x \in Operators : op'[x] = IF x = o THEN Resting ELSE op[x]
    BY <2>1 DEF QueueShape, QueueTypeOK
  <2>3. \A d \in dlq : ~Superseded(d) => d \in dlq' /\ ~Superseded(d)'
    <3> SUFFICES ASSUME NEW d \in dlq, ~Superseded(d) PROVE d \in dlq' /\ ~Superseded(d)'
      OBVIOUS
    <3>1. ~Superseded(d)'
      BY <2>1, <2>2 DEF Superseded
    <3>2. CASE RetryXdel(o)
      <4>1. d # [task |-> op[o].task, serial |-> op[o].serial]
        BY <3>2 DEF Superseded, RetryXdel
      <4> QED BY <3>1, <3>2, <4>1 DEF RetryXdel
    <3>3. CASE OperatorCrash(o)
      BY <3>1, <3>3 DEF OperatorCrash
    <3> QED BY <1>4, <3>2, <3>3
  <2>4. dlq' \subseteq dlq
    BY <1>4 DEF RetryXdel, OperatorCrash
  <2>5. \A t \in submitted : Live(t)' <=> Live(t)
    BY <2>1 DEF Live
  <2>6. \A t \in submitted' : Accounted(t)'
    BY <2>1, <2>3, <2>5 DEF Accounted, LossInv
  <2> QED BY <2>1, <2>2, <2>4, <2>6 DEF LossInv
<1>5. ASSUME NEW d \in dlq, Clear(d) PROVE LossInv'
  <2>1. /\ dlq' = dlq \ {d} /\ Lose({d.task}, "clear")
        /\ UNCHANGED <<backlog, fetched, msg, op, submitted, done, buried>>
    BY <1>5 DEF Clear
  <2>2. \A t \in Tasks : lost[t] \subseteq lost'[t] /\ (t = d.task => lost'[t] # {})
    BY <2>1, LossFacts, LoseEffect DEF Causes
  <2>3. \A x \in dlq : Superseded(x)' <=> Superseded(x)
    BY <2>1 DEF Superseded
  <2>4. \A t \in submitted' : Accounted(t)'
    <3> SUFFICES ASSUME NEW t \in submitted PROVE Accounted(t)'
      BY <2>1
    <3>1. Accounted(t) /\ t \in Tasks
      BY LossFacts DEF LossInv
    <3>2. Live(t)' <=> Live(t)
      BY <2>1 DEF Live
    <3>3. CASE t = d.task
      BY <2>2, <3>1, <3>3 DEF Accounted
    <3>4. CASE t # d.task
      <4>1. lost[t] # {} => lost'[t] # {}
        BY <2>2, <3>1
      <4> QED BY <2>1, <2>3, <3>1, <3>2, <3>4, <4>1 DEF Accounted
    <3> QED BY <3>3, <3>4
  <2> QED BY <2>1, <2>4 DEF LossInv
<1> QED BY <1>1, <1>2, <1>3, <1>4, <1>5 DEF OutsideStep

LEMMA LossStep ==
    ASSUME QueueShape, QueueShape', LossInv, [QueueNext]_queueVars
    PROVE  LossInv'
<1>1. CASE UNCHANGED queueVars
  BY <1>1 DEF queueVars, LossInv, Accounted, Live, Superseded
<1>2. CASE QueueNext
  BY <1>2, QueueCases, SlotStepLoss, WorkerStepLoss, StartLoss, OutsideStepLoss, Zenon
<1> QED BY <1>1, <1>2

\* A submitted task has succeeded, is dead-lettered, is being worked on or was
\* lost to a cause the code is exposed to, for any number of workers, retries,
\* operators, crashes and shutdowns, and however aggressively the stream trims.
THEOREM TasksAreAccounted == QueueSpec => []LossNeedsACause
<1>1. QueueInit => LossInv
  BY FreeState DEF QueueInit, LossInv, Resting
<1>2. QueueShape /\ QueueShape' /\ LossInv /\ [QueueNext]_queueVars => LossInv'
  BY LossStep
<1>3. LossInv => LossNeedsACause
  BY DEF LossInv, Accounted, LossNeedsACause
<1> QED BY <1>1, <1>2, <1>3, QueueKeepsItsShape, PTL DEF QueueSpec

----------------------------------------------------------------------------
(* Runs are bounded.                                                       *)

EntryMap(f) == \A w \in Workers : f[w] \in Seq(QueueEntry)
SlotMap(f) == \A s \in Slots : SlotState(f[s])

\* The shape of a state, and of the state after it, in terms the lemmas use.
LEMMA ShapeNow ==
    ASSUME QueueShape PROVE backlog \in Seq(QueueEntry) /\ EntryMap(fetched) /\ SlotMap(msg)
BY DEF QueueShape, EntryMap, SlotMap

LEMMA ShapeNext ==
    ASSUME QueueShape' PROVE backlog' \in Seq(QueueEntry) /\ EntryMap(fetched') /\ SlotMap(msg')
BY DEF QueueShape, EntryMap, SlotMap

LEMMA FetchingType ==
    ASSUME NEW m \in Measures, NEW t \in Tasks, NEW f, EntryMap(f)
    PROVE  /\ [w \in Workers |-> Queued(m, t, f[w])] \in [Workers -> Nat]
           /\ Fetching(m, t, f) \in Nat
<1>1. [w \in Workers |-> Queued(m, t, f[w])] \in [Workers -> Nat]
  BY WeightsType DEF EntryMap
<1> QED BY <1>1, TallyType DEF Fetching

LEMMA FetchingChange ==
    ASSUME NEW m \in Measures, NEW t \in Tasks, NEW f, NEW g, NEW w \in Workers,
           EntryMap(f), EntryMap(g),
           \A x \in Workers \ {w} : g[x] = f[x]
    PROVE  Fetching(m, t, g) = Fetching(m, t, f) - Queued(m, t, f[w]) + Queued(m, t, g[w])
<1> DEFINE u == [x \in Workers |-> Queued(m, t, f[x])]
           v == [x \in Workers |-> Queued(m, t, g[x])]
<1>1. u \in [Workers -> Nat] /\ v \in [Workers -> Nat]
  BY FetchingType
<1>2. /\ u[w] = Queued(m, t, f[w]) /\ v[w] = Queued(m, t, g[w])
      /\ \A x \in Workers \ {w} : v[x] = u[x]
  OBVIOUS
<1> HIDE DEF u, v
<1>3. Tally(Workers, v) = Tally(Workers, u) - u[w] + v[w]
  BY <1>1, <1>2, TallyChange
<1> QED BY <1>2, <1>3 DEF Fetching, u, v

LEMMA HeldType ==
    ASSUME NEW m \in Measures, NEW t \in Tasks, NEW j, SlotState(j)
    PROVE  Held(m, t, j) \in Nat
BY DEF Held, SlotState, Message

LEMMA ProcessingType ==
    ASSUME NEW m \in Measures, NEW t \in Tasks, NEW f, SlotMap(f)
    PROVE  /\ [s \in Slots |-> Held(m, t, f[s])] \in [Slots -> Nat]
           /\ Processing(m, t, f) \in Nat
<1>1. [s \in Slots |-> Held(m, t, f[s])] \in [Slots -> Nat]
  BY HeldType DEF SlotMap
<1> QED BY <1>1, TallyType DEF Processing

LEMMA ProcessingChange ==
    ASSUME NEW m \in Measures, NEW t \in Tasks, NEW f, NEW g, NEW s \in Slots,
           SlotMap(f), SlotMap(g),
           \A x \in Slots \ {s} : g[x] = f[x]
    PROVE  Processing(m, t, g) = Processing(m, t, f) - Held(m, t, f[s]) + Held(m, t, g[s])
<1> DEFINE u == [x \in Slots |-> Held(m, t, f[x])]
           v == [x \in Slots |-> Held(m, t, g[x])]
<1>1. u \in [Slots -> Nat] /\ v \in [Slots -> Nat]
  BY ProcessingType
<1>2. /\ u[s] = Held(m, t, f[s]) /\ v[s] = Held(m, t, g[s])
      /\ \A x \in Slots \ {s} : v[x] = u[x]
  OBVIOUS
<1> HIDE DEF u, v
<1>3. Tally(Slots, v) = Tally(Slots, u) - u[s] + v[s]
  BY <1>1, <1>2, TallyChange
<1> QED BY <1>2, <1>3 DEF Processing, u, v

\* Slots that are freed hold nothing any more.
LEMMA ProcessingVacated ==
    ASSUME NEW m \in Measures, NEW t \in Tasks, NEW f, NEW g,
           SlotMap(f), SlotMap(g),
           \A s \in Slots : g[s] = f[s] \/ g[s].pc = "free"
    PROVE  Processing(m, t, g) <= Processing(m, t, f)
<1> DEFINE u == [x \in Slots |-> Held(m, t, f[x])]
           v == [x \in Slots |-> Held(m, t, g[x])]
<1>1. u \in [Slots -> Nat] /\ v \in [Slots -> Nat]
  BY ProcessingType
<1>2. \A s \in Slots : v[s] <= u[s]
  <2> SUFFICES ASSUME NEW s \in Slots PROVE v[s] <= u[s]
    OBVIOUS
  <2>1. u[s] \in Nat
    BY <1>1
  <2>2. CASE g[s] = f[s]
    BY <2>1, <2>2
  <2>3. CASE g[s].pc = "free"
    BY <2>1, <2>3 DEF Held, Working
  <2> QED BY <2>2, <2>3
<1> HIDE DEF u, v
<1>3. Tally(Slots, v) <= Tally(Slots, u)
  BY <1>1, <1>2, TallyMonotone
<1> QED BY <1>3 DEF Processing, u, v

LEMMA CountTypes ==
    ASSUME QueueShape, NEW m \in Measures, NEW t \in Tasks
    PROVE  /\ Queued(m, t, backlog) \in Nat /\ Fetching(m, t, fetched) \in Nat
           /\ Processing(m, t, msg) \in Nat /\ Outstanding(m, t) \in Nat
           /\ Spent(m, t) \in Nat /\ Puts(t) \in Nat /\ Quota(m) \in Nat /\ Quota(m) * Puts(t) \in Nat
<1>1. /\ Queued(m, t, backlog) \in Nat /\ Fetching(m, t, fetched) \in Nat
      /\ Processing(m, t, msg) \in Nat
  BY ShapeNow, WeightsType, FetchingType, ProcessingType
<1>2. Spent(m, t) \in Nat /\ Puts(t) \in Nat /\ Quota(m) \in Nat
  BY DEF Spent, Puts, Quota, QueueShape, QueueTypeOK
<1>3. Quota(m) * Puts(t) \in Nat
  BY <1>2
<1> QED BY <1>1, <1>2, <1>3 DEF Outstanding

LEMMA CountTypesNext ==
    ASSUME QueueShape', NEW m \in Measures, NEW t \in Tasks
    PROVE  /\ Queued(m, t, backlog') \in Nat /\ Fetching(m, t, fetched') \in Nat
           /\ Processing(m, t, msg') \in Nat /\ Outstanding(m, t)' \in Nat /\ Spent(m, t)' \in Nat
<1>1. /\ Queued(m, t, backlog') \in Nat /\ Fetching(m, t, fetched') \in Nat
      /\ Processing(m, t, msg') \in Nat
  BY ShapeNext, WeightsType, FetchingType, ProcessingType
<1>2. Spent(m, t)' \in Nat
  BY DEF Spent, QueueShape, QueueTypeOK
<1> QED BY <1>1, <1>2 DEF Outstanding

\* A step that puts nothing on the stream from outside and starts nothing.
LEMMA KeepCount ==
    ASSUME QueueShape, QueueShape', CountInv, UNCHANGED <<submitted, runs, requeued>>,
           \A m \in Measures : \A t \in Tasks : Outstanding(m, t)' <= Outstanding(m, t)
    PROVE  CountInv'
<1> SUFFICES ASSUME NEW m \in Measures, NEW t \in Tasks
             PROVE  Spent(m, t)' + Outstanding(m, t)' <= Quota(m) * Puts(t)'
  BY DEF CountInv, Quota
<1>1. Spent(m, t)' = Spent(m, t) /\ Puts(t)' = Puts(t)
  BY DEF Spent, Puts
<1>2. Spent(m, t) + Outstanding(m, t) <= Quota(m) * Puts(t)
  BY DEF CountInv
<1>3. Outstanding(m, t)' <= Outstanding(m, t) /\ Outstanding(m, t)' \in Nat
  BY CountTypesNext
<1>4. /\ Outstanding(m, t) \in Nat /\ Spent(m, t) \in Nat /\ Quota(m) * Puts(t) \in Nat
  BY CountTypes
<1>5. Spent(m, t) + Outstanding(m, t)' <= Quota(m) * Puts(t)
  BY <1>2, <1>3, <1>4
<1> QED BY <1>1, <1>5

\* The coroutine of a slot never adds to what is outstanding: what it re-adds
\* has one run less than what it took.
LEMMA SlotStepCount ==
    ASSUME QueueShape, QueueShape', CountInv, NEW s \in Slots, SlotStep(s)
    PROVE  CountInv'
<1>1. /\ UNCHANGED <<status, fetched, submitted, runs, requeued>>
      /\ \A x \in Slots \ {s} : msg'[x] = msg[x]
  BY DEF SlotStep, Dispatch, Settle, DispatchSucceeds, DispatchFails, Ack, Requeue, Bury, AckFails,
     XAddFails, TimesOut, QueueShape, QueueTypeOK
<1>2. ASSUME NEW m \in Measures, NEW t \in Tasks
      PROVE  Queued(m, t, backlog') + Held(m, t, msg'[s]) <= Queued(m, t, backlog) + Held(m, t, msg[s])
  <2>0. /\ Queued(m, t, backlog) \in Nat /\ Held(m, t, msg[s]) \in Nat /\ Held(m, t, msg'[s]) \in Nat
        /\ msg \in [Slots -> Message]
    BY CountTypes, HeldType, ShapeNow, ShapeNext DEF QueueShape, QueueTypeOK, SlotMap
  <2>1. CASE Requeue(s)
    <3> DEFINE j == [msg[s] EXCEPT !.pc = "lastack"]
               e == [task |-> msg[s].task, retry |-> msg[s].retry + 1]
    <3>1. msg[s].pc \in Working /\ msg[s].pc = "requeue" /\ "lastack" \in Steps
      BY <2>1 DEF Requeue, Working, Steps
    <3>2. SlotState(j) /\ j.pc = "lastack" /\ msg[s].task \in Tasks /\ msg[s].retry \in 0..MaxRetries
      BY <3>1, SlotMoves
    <3>3. msg[s].retry < MaxRetries
      BY <3>1 DEF QueueShape, SlotState
    <3>4. e \in QueueEntry /\ e.task = msg[s].task /\ e.retry = msg[s].retry + 1 /\ RetryMaxLen \in Nat
      BY <3>2, <3>3 DEF QueueEntry
    <3>5. msg'[s] = j /\ XAdd(e, RetryMaxLen)
      BY <2>0, <2>1 DEF Requeue
    <3> HIDE DEF j, e
    <3>6. Queued(m, t, backlog') <= Queued(m, t, backlog) + Weight(m, t, e)
      BY <3>4, <3>5, XAddEffect
    <3>7. Weight(m, t, e) = Held(m, t, msg[s])
      BY <3>1, <3>2, <3>4 DEF Weight, Held
    <3>8. Held(m, t, msg'[s]) = 0
      BY <3>2, <3>5 DEF Held, Working
    <3>9. Queued(m, t, backlog') \in Nat
      BY CountTypesNext
    <3> QED BY <2>0, <3>6, <3>7, <3>8, <3>9
  <2>2. CASE ~Requeue(s)
    <3>1. backlog' = backlog
      BY <2>2 DEF SlotStep, Dispatch, Settle, DispatchSucceeds, DispatchFails, Ack, Bury, AckFails,
         XAddFails, TimesOut
    <3>2. Held(m, t, msg'[s]) <= Held(m, t, msg[s])
      <4>1. CASE DispatchSucceeds(s)
        <5>1. msg'[s] = [msg[s] EXCEPT !.pc = "ack"] /\ msg[s].pc = "run"
          BY <2>0, <4>1 DEF DispatchSucceeds
        <5>2. msg'[s].task = msg[s].task /\ msg'[s].retry = msg[s].retry /\ msg'[s].pc = "ack"
          BY <2>0, <5>1 DEF Message
        <5>3. Held(m, t, msg'[s]) = Held(m, t, msg[s])
          BY <5>1, <5>2 DEF Held, Working
        <5> QED BY <2>0, <5>3
      <4>2. CASE DispatchFails(s) \/ AckFails(s)
        <5>1. msg'[s] = AfterFailure(msg[s]) /\ msg[s].pc \in {"run", "ack"}
          BY <2>0, <4>2 DEF DispatchFails, AckFails
        <5>2. /\ msg'[s].task = msg[s].task /\ msg'[s].retry = msg[s].retry
              /\ msg'[s].pc \in {"bury", "requeue"}
          BY <5>1, FailureMoves
        <5>3. Held(m, t, msg'[s]) = Held(m, t, msg[s])
          BY <5>1, <5>2 DEF Held, Working
        <5> QED BY <2>0, <5>3
      <4>3. CASE Ack(s) \/ XAddFails(s) \/ TimesOut(s)
        <5>1. msg'[s] = Free
          BY <2>0, <4>3 DEF Ack, XAddFails, TimesOut
        <5>2. Held(m, t, msg'[s]) = 0
          BY <5>1, FreeState DEF Held, Working
        <5> QED BY <2>0, <5>2
      <4>4. CASE Bury(s)
        <5>1. msg'[s] = [msg[s] EXCEPT !.pc = "lastack"]
          BY <2>0, <4>4 DEF Bury
        <5>2. msg'[s].pc = "lastack"
          BY <2>0, <5>1 DEF Message
        <5>3. Held(m, t, msg'[s]) = 0
          BY <5>2 DEF Held, Working
        <5> QED BY <2>0, <5>3
      <4> QED BY <2>2, <4>1, <4>2, <4>3, <4>4 DEF SlotStep, Dispatch, Settle
    <3> QED BY <2>0, <3>1, <3>2
  <2> QED BY <2>1, <2>2
<1>3. ASSUME NEW m \in Measures, NEW t \in Tasks PROVE Outstanding(m, t)' <= Outstanding(m, t)
  <2>1. Processing(m, t, msg') = Processing(m, t, msg) - Held(m, t, msg[s]) + Held(m, t, msg'[s])
    BY <1>1, ShapeNow, ShapeNext, ProcessingChange
  <2>2. Fetching(m, t, fetched') = Fetching(m, t, fetched)
    BY <1>1
  <2>3. Held(m, t, msg[s]) \in Nat /\ Held(m, t, msg'[s]) \in Nat /\ Queued(m, t, backlog') \in Nat
    BY HeldType, CountTypesNext, ShapeNow, ShapeNext DEF SlotMap
  <2>4. /\ Queued(m, t, backlog) \in Nat /\ Fetching(m, t, fetched) \in Nat
        /\ Processing(m, t, msg) \in Nat
    BY CountTypes
  <2> QED BY <1>2, <2>1, <2>2, <2>3, <2>4 DEF Outstanding
<1> QED BY <1>1, <1>3, KeepCount

LEMMA WorkerStepCount ==
    ASSUME QueueShape, QueueShape', CountInv, NEW w \in Workers, WorkerStep(w)
    PROVE  CountInv'
<1>0. ASSUME NEW m \in Measures, NEW t \in Tasks
      PROVE  /\ Queued(m, t, backlog) \in Nat /\ Fetching(m, t, fetched) \in Nat
             /\ Processing(m, t, msg) \in Nat /\ Queued(m, t, fetched[w]) \in Nat
             /\ Queued(m, t, backlog') \in Nat /\ Fetching(m, t, fetched') \in Nat
             /\ Processing(m, t, msg') \in Nat /\ Queued(m, t, fetched'[w]) \in Nat
  BY CountTypes, CountTypesNext, WeightsType, ShapeNow, ShapeNext DEF EntryMap
<1>1. UNCHANGED <<submitted, runs, requeued>>
  BY BatchSplits DEF WorkerStep, Crash, Exit, Shutdown, Stop, Restart, StopTimesOut, Abandon, ConsumeBatch
<1>9. ASSUME NEW m \in Measures, NEW t \in Tasks,
             \A x \in Workers \ {w} : fetched'[x] = fetched[x]
      PROVE  Fetching(m, t, fetched') =
                 Fetching(m, t, fetched) - Queued(m, t, fetched[w]) + Queued(m, t, fetched'[w])
  BY <1>9, ShapeNow, ShapeNext, FetchingChange
<1>2. CASE ConsumeBatch(w)
  <2>1. PICK n \in 0..Len(backlog) :
               /\ fetched' = [fetched EXCEPT ![w] = SubSeq(backlog, 1, n)]
               /\ backlog' = SubSeq(backlog, n + 1, Len(backlog))
               /\ fetched[w] = << >> /\ msg' = msg
    BY <1>2, BatchSplits
  <2>2. fetched'[w] = SubSeq(backlog, 1, n)
    BY <2>1 DEF QueueShape, QueueTypeOK
  <2>4. \A x \in Workers \ {w} : fetched'[x] = fetched[x]
    BY <2>1 DEF QueueShape, QueueTypeOK
  <2>3. ASSUME NEW m \in Measures, NEW t \in Tasks PROVE Outstanding(m, t)' <= Outstanding(m, t)
    <3>1. Queued(m, t, backlog) =
              Queued(m, t, SubSeq(backlog, 1, n)) + Queued(m, t, SubSeq(backlog, n + 1, Len(backlog)))
      BY ShapeNow, CutEntries
    <3>2. Queued(m, t, fetched[w]) = 0
      BY <2>1, EmptyEntries
    <3>3. Fetching(m, t, fetched') =
              Fetching(m, t, fetched) - Queued(m, t, fetched[w]) + Queued(m, t, fetched'[w])
      BY <1>9, <2>4
    <3>4. Processing(m, t, msg') = Processing(m, t, msg)
      BY <2>1
    <3>5. Queued(m, t, backlog) = Queued(m, t, fetched'[w]) + Queued(m, t, backlog')
      BY <2>1, <2>2, <3>1
    <3> QED BY SMTT(30), <1>0, <3>2, <3>3, <3>4, <3>5 DEF Outstanding
  <2> QED BY <1>1, <2>3, KeepCount
<1>3. CASE ~ConsumeBatch(w)
  <2>1. /\ backlog' = backlog
        /\ \A x \in Workers \ {w} : fetched'[x] = fetched[x]
        /\ fetched'[w] = fetched[w] \/ fetched'[w] = << >>
    BY <1>3 DEF WorkerStep, Crash, Exit, Shutdown, Stop, Restart, StopTimesOut, Abandon,
       QueueShape, QueueTypeOK
  <2>2. \A s \in Slots : msg'[s] = msg[s] \/ msg'[s].pc = "free"
    BY <1>3, VacateShape, FreeState DEF WorkerStep, Crash, Exit, Shutdown, Stop, Restart,
       StopTimesOut, Abandon
  <2>3. ASSUME NEW m \in Measures, NEW t \in Tasks PROVE Outstanding(m, t)' <= Outstanding(m, t)
    <3>1. Processing(m, t, msg') <= Processing(m, t, msg)
      BY <2>2, ShapeNow, ShapeNext, ProcessingVacated
    <3>2. Fetching(m, t, fetched') =
              Fetching(m, t, fetched) - Queued(m, t, fetched[w]) + Queued(m, t, fetched'[w])
      BY <1>9, <2>1
    <3>3. Queued(m, t, fetched'[w]) <= Queued(m, t, fetched[w])
      <4>1. CASE fetched'[w] = fetched[w]
        BY <1>0, <4>1
      <4>2. CASE fetched'[w] = << >>
        BY <1>0, <4>2, EmptyEntries
      <4> QED BY <2>1, <4>1, <4>2
    <3>4. Queued(m, t, backlog') = Queued(m, t, backlog)
      BY <2>1
    <3> QED BY <1>0, <3>1, <3>2, <3>3, <3>4 DEF Outstanding
  <2> QED BY <1>1, <2>3, KeepCount
<1> QED BY <1>2, <1>3

\* Starting the handler spends one of the runs the entry stood for.
LEMMA StartCount ==
    ASSUME QueueShape, QueueShape', CountInv, NEW w \in Workers, NEW s \in Slots, StartMessage(w, s)
    PROVE  CountInv'
<1> DEFINE e == Head(fetched[w])
           j == [pc |-> "run", task |-> e.task, retry |-> e.retry]
<1>1. /\ e.task \in Tasks /\ e.retry \in 0..MaxRetries
      /\ SlotState(j) /\ j.pc = "run" /\ j.task = e.task /\ j.retry = e.retry
      /\ msg[s].pc = "free" /\ msg' = [msg EXCEPT ![s] = j]
      /\ runs' = [runs EXCEPT ![e.task] = runs[e.task] + 1]
      /\ fetched[w] # << >> /\ fetched[w] \in Seq(QueueEntry)
      /\ fetched' = [fetched EXCEPT ![w] = Tail(fetched[w])]
      /\ UNCHANGED <<backlog, submitted, requeued>>
  BY FirstStarts
<1>2. ASSUME NEW m \in Measures, NEW t \in Tasks
      PROVE  Queued(m, t, fetched[w]) = Weight(m, t, e) + Queued(m, t, Tail(fetched[w]))
  BY <1>1, FirstEntry
<1> HIDE DEF e, j
<1>3. \A x \in Slots : msg'[x] = IF x = s THEN j ELSE msg[x]
  BY <1>1, SlotBecomes
<1>4. \A x \in Workers : fetched'[x] = IF x = w THEN Tail(fetched[w]) ELSE fetched[x]
  BY <1>1 DEF QueueShape, QueueTypeOK
<1> SUFFICES ASSUME NEW m \in Measures, NEW t \in Tasks
             PROVE  Spent(m, t)' + Outstanding(m, t)' <= Quota(m) * Puts(t)'
  BY DEF CountInv, Quota
<1>5. Puts(t)' = Puts(t)
  BY <1>1 DEF Puts
<1>6. Spent(m, t)' + Held(m, t, j) = Spent(m, t) + Weight(m, t, e)
  <2>1. \A u \in Tasks : /\ runs[u] \in Nat
                         /\ runs'[u] = IF u = e.task THEN runs[u] + 1 ELSE runs[u]
    BY <1>1 DEF QueueShape, QueueTypeOK
  <2>2. CASE t = e.task
    <3>1. Held(m, t, j) = IF m = "entries" THEN 1 ELSE MaxRetries - e.retry
      BY <1>1, <2>2 DEF Held, Working
    <3>2. Weight(m, t, e) = IF m = "entries" THEN 1 ELSE MaxRetries + 1 - e.retry
      BY <2>2 DEF Weight
    <3>3. runs'[t] = runs[t] + 1 /\ runs[t] \in Nat
      BY <2>1, <2>2
    <3>4. Spent(m, t)' = IF m = "entries" THEN 0 ELSE runs[t] + 1
      BY <3>3 DEF Spent
    <3>5. Spent(m, t) = IF m = "entries" THEN 0 ELSE runs[t]
      BY DEF Spent
    <3>6. e.retry \in Int
      BY <1>1
    <3> QED BY <3>1, <3>2, <3>3, <3>4, <3>5, <3>6
  <2>3. CASE t # e.task
    <3>1. Held(m, t, j) = 0 /\ Weight(m, t, e) = 0 /\ Spent(m, t)' = Spent(m, t)
      BY <1>1, <2>1, <2>3 DEF Spent, Held, Weight
    <3> QED BY <3>1
  <2> QED BY <2>2, <2>3
<1>7. Held(m, t, msg[s]) = 0
  BY <1>1 DEF Held, Working
<1>8. Processing(m, t, msg') = Processing(m, t, msg) - Held(m, t, msg[s]) + Held(m, t, msg'[s])
  <2>1. \A x \in Slots \ {s} : msg'[x] = msg[x]
    BY <1>3
  <2> QED BY <2>1, ShapeNow, ShapeNext, ProcessingChange
<1>9. Fetching(m, t, fetched') = Fetching(m, t, fetched) - Queued(m, t, fetched[w]) + Queued(m, t, fetched'[w])
  <2>1. \A x \in Workers \ {w} : fetched'[x] = fetched[x]
    BY <1>4
  <2> QED BY <2>1, ShapeNow, ShapeNext, FetchingChange
<1>10. msg'[s] = j /\ fetched'[w] = Tail(fetched[w])
  BY <1>3, <1>4
<1>11. /\ Queued(m, t, backlog) \in Nat /\ Fetching(m, t, fetched) \in Nat
       /\ Processing(m, t, msg) \in Nat /\ Queued(m, t, fetched[w]) \in Nat
       /\ Spent(m, t) \in Nat /\ Quota(m) * Puts(t) \in Nat
  BY CountTypes, WeightsType, ShapeNow DEF EntryMap
<1>12. /\ Held(m, t, j) \in Nat /\ Queued(m, t, Tail(fetched[w])) \in Nat /\ Spent(m, t)' \in Nat
  <2>1. Tail(fetched[w]) \in Seq(QueueEntry)
    BY <1>10, ShapeNext DEF EntryMap
  <2> QED BY <1>1, <2>1, HeldType, CountTypesNext, WeightsType
<1>13. Weight(m, t, e) \in Nat
  BY <1>1 DEF Weight
<1>14. Spent(m, t) + Outstanding(m, t) <= Quota(m) * Puts(t)
  BY DEF CountInv
<1>15. Outstanding(m, t)' = Outstanding(m, t) - Weight(m, t, e) + Held(m, t, j)
  <2>1. Processing(m, t, msg') = Processing(m, t, msg) + Held(m, t, j)
    BY <1>7, <1>8, <1>10, <1>11, <1>12
  <2>2. Fetching(m, t, fetched') = Fetching(m, t, fetched) - Weight(m, t, e)
    <3>1. Queued(m, t, fetched[w]) = Weight(m, t, e) + Queued(m, t, fetched'[w])
      BY <1>2, <1>10
    <3>2. Fetching(m, t, fetched') \in Nat /\ Queued(m, t, fetched'[w]) \in Nat
      BY <1>10, <1>12, CountTypesNext
    <3> QED BY <1>9, <1>11, <1>13, <3>1, <3>2
  <2>3. Queued(m, t, backlog') = Queued(m, t, backlog)
    BY <1>1
  <2> QED BY <1>11, <1>12, <1>13, <2>1, <2>2, <2>3 DEF Outstanding
<1>16. Outstanding(m, t) \in Nat
  BY CountTypes
<1> QED BY <1>5, <1>6, <1>11, <1>12, <1>13, <1>14, <1>15, <1>16

\* Putting a task on the stream from outside buys the runs of one more round.
LEMMA PutCount ==
    ASSUME QueueShape, QueueShape', CountInv, NEW t \in Tasks,
           Puts(t)' = Puts(t) + 1, \A u \in Tasks \ {t} : Puts(u)' = Puts(u),
           UNCHANGED <<fetched, msg, runs>>,
           \A m \in Measures : \A u \in Tasks :
               Queued(m, u, backlog') <= Queued(m, u, backlog) + Weight(m, u, [task |-> t, retry |-> 0])
    PROVE  CountInv'
<1> SUFFICES ASSUME NEW m \in Measures, NEW u \in Tasks
             PROVE  Spent(m, u)' + Outstanding(m, u)' <= Quota(m) * Puts(u)'
  BY DEF CountInv, Quota
<1>1. /\ Queued(m, u, backlog) \in Nat /\ Fetching(m, u, fetched) \in Nat
      /\ Processing(m, u, msg) \in Nat /\ Spent(m, u) \in Nat
      /\ Puts(u) \in Nat /\ Quota(m) \in Nat /\ Quota(m) * Puts(u) \in Nat
  BY CountTypes
<1>2. Queued(m, u, backlog') \in Nat
  BY CountTypesNext
<1>3. Spent(m, u)' = Spent(m, u) /\ Fetching(m, u, fetched') = Fetching(m, u, fetched)
      /\ Processing(m, u, msg') = Processing(m, u, msg)
  BY DEF Spent
<1>4. Spent(m, u) + Outstanding(m, u) <= Quota(m) * Puts(u)
  BY DEF CountInv
<1>5. CASE u = t
  <2>1. Weight(m, u, [task |-> t, retry |-> 0]) = Quota(m)
    BY <1>5 DEF Weight, Quota
  <2>2. Quota(m) * Puts(u)' = Quota(m) * Puts(u) + Quota(m)
    <3>1. Quota(m) * (Puts(u) + 1) = Quota(m) * Puts(u) + Quota(m)
      BY <1>1
    <3> QED BY <1>5, <3>1
  <2>3. Queued(m, u, backlog') <= Queued(m, u, backlog) + Quota(m)
    BY <2>1
  <2> HIDE DEF Quota
  <2> QED BY <1>1, <1>2, <1>3, <1>4, <2>2, <2>3 DEF Outstanding
<1>6. CASE u # t
  <2>1. Weight(m, u, [task |-> t, retry |-> 0]) = 0
    BY <1>6 DEF Weight
  <2>2. Queued(m, u, backlog') <= Queued(m, u, backlog)
    BY <1>1, <2>1
  <2>3. Puts(u)' = Puts(u)
    BY <1>6
  <2> QED BY <1>1, <1>2, <1>3, <1>4, <2>2, <2>3 DEF Outstanding
<1> QED BY <1>5, <1>6

LEMMA OutsideStepCount ==
    ASSUME QueueShape, QueueShape', CountInv, OutsideStep
    PROVE  CountInv'
<1>1. ASSUME NEW t \in Tasks, Enqueue(t) PROVE CountInv'
  <2> DEFINE e == [task |-> t, retry |-> 0]
  <2>1. e \in QueueEntry /\ ProducerMaxLen \in Nat
    BY DEF QueueEntry
  <2>2. /\ XAdd(e, ProducerMaxLen) /\ submitted' = submitted \union {t} /\ t \notin submitted
        /\ UNCHANGED <<fetched, msg, runs, requeued>>
    BY <1>1 DEF Enqueue
  <2>3. Puts(t)' = Puts(t) + 1 /\ \A u \in Tasks \ {t} : Puts(u)' = Puts(u)
    BY <2>2 DEF Puts, QueueShape, QueueTypeOK
  <2>4. \A m \in Measures : \A u \in Tasks :
            Queued(m, u, backlog') <= Queued(m, u, backlog) + Weight(m, u, e)
    BY <2>1, <2>2, XAddEffect
  <2> QED BY <2>2, <2>3, <2>4, PutCount
<1>2. ASSUME NEW o \in Operators, RetryXadd(o) PROVE CountInv'
  <2>1. PICK t \in Tasks : t = op[o].task
    BY <1>2 DEF RetryXadd, QueueShape
  <2> DEFINE e == [task |-> t, retry |-> 0]
  <2>2. e \in QueueEntry
    BY DEF QueueEntry
  <2>3. /\ backlog' = Append(backlog, e) /\ requeued' = [requeued EXCEPT ![t] = requeued[t] + 1]
        /\ UNCHANGED <<fetched, msg, runs, submitted>>
    BY <1>2, <2>1 DEF RetryXadd
  <2>4. Puts(t)' = Puts(t) + 1 /\ \A u \in Tasks \ {t} : Puts(u)' = Puts(u)
    BY <2>3 DEF Puts, QueueShape, QueueTypeOK
  <2>5. ASSUME NEW m \in Measures, NEW u \in Tasks
        PROVE  Queued(m, u, backlog') <= Queued(m, u, backlog) + Weight(m, u, e)
    <3>1. Queued(m, u, backlog') = Queued(m, u, backlog) + Weight(m, u, e)
      BY <2>2, <2>3, AppendEntry DEF QueueShape
    <3>2. Queued(m, u, backlog') \in Nat
      BY CountTypesNext
    <3> QED BY <3>1, <3>2
  <2> QED BY <2>3, <2>4, <2>5, PutCount
<1>3. ASSUME UNCHANGED <<backlog, fetched, msg, submitted, runs, requeued>> PROVE CountInv'
  BY <1>3 DEF CountInv, Outstanding, Spent, Puts
<1> QED BY <1>1, <1>2, <1>3 DEF OutsideStep, RetryRead, RetryXdel, OperatorCrash, Clear

LEMMA CountStep ==
    ASSUME QueueShape, QueueShape', CountInv, [QueueNext]_queueVars
    PROVE  CountInv'
<1>1. CASE UNCHANGED queueVars
  BY <1>1 DEF queueVars, CountInv, Outstanding, Spent, Puts
<1>2. CASE QueueNext
  BY <1>2, QueueCases, SlotStepCount, WorkerStepCount, StartCount, OutsideStepCount, Zenon
<1> QED BY <1>1, <1>2

LEMMA InitCount == ASSUME QueueInit PROVE CountInv
<1> SUFFICES ASSUME NEW m \in Measures, NEW t \in Tasks
             PROVE  Spent(m, t) + Outstanding(m, t) <= Quota(m) * Puts(t)
  BY DEF CountInv
<1>1. QueueShape
  BY InitShape
<1>2. Queued(m, t, backlog) = 0
  BY EmptyEntries DEF QueueInit
<1>3. Fetching(m, t, fetched) = 0
  <2>1. \A w \in Workers : Queued(m, t, fetched[w]) = 0
    BY EmptyEntries DEF QueueInit
  <2> QED BY <1>1, <2>1, ShapeNow, FetchingType, TallyNone DEF Fetching
<1>4. Processing(m, t, msg) = 0
  <2>1. \A s \in Slots : Held(m, t, msg[s]) = 0
    BY FreeState DEF QueueInit, Held, Working
  <2> QED BY <1>1, <2>1, ShapeNow, ProcessingType, TallyNone DEF Processing
<1>5. Spent(m, t) = 0
  BY DEF Spent, QueueInit
<1>6. Quota(m) * Puts(t) \in Nat
  BY <1>1, CountTypes
<1> QED BY <1>2, <1>3, <1>4, <1>5, <1>6 DEF Outstanding

LEMMA CountBoundsRuns == ASSUME QueueShape, CountInv PROVE RunsBounded
<1> SUFFICES ASSUME NEW t \in Tasks PROVE runs[t] <= (MaxRetries + 1) * (1 + requeued[t])
  BY DEF RunsBounded
<1>1. "runs" \in Measures
  BY DEF Measures
<1>2. runs[t] + Outstanding("runs", t) <= (MaxRetries + 1) * Puts(t)
  BY <1>1 DEF CountInv, Spent, Quota
<1>3. Outstanding("runs", t) \in Nat /\ Puts(t) \in Nat
  BY <1>1, CountTypes
<1>4. runs[t] \in Nat /\ requeued[t] \in Nat
  BY DEF QueueShape, QueueTypeOK
<1>5. (MaxRetries + 1) * Puts(t) <= (MaxRetries + 1) * (1 + requeued[t])
  <2>1. CASE t \in submitted
    <3>1. Puts(t) = 1 + requeued[t]
      BY <2>1 DEF Puts
    <3> QED BY <1>4, <3>1
  <2>2. CASE t \notin submitted
    <3>1. Puts(t) = requeued[t]
      BY <1>4, <2>2 DEF Puts
    <3>2. (MaxRetries + 1) * (1 + requeued[t]) = (MaxRetries + 1) + (MaxRetries + 1) * requeued[t]
      BY <1>4
    <3>3. (MaxRetries + 1) * requeued[t] \in Nat
      BY <1>4
    <3> QED BY <3>1, <3>2, <3>3
  <2> QED BY <2>1, <2>2
<1>6. (MaxRetries + 1) * Puts(t) \in Nat /\ (MaxRetries + 1) * (1 + requeued[t]) \in Nat
  BY <1>3, <1>4
<1> QED BY <1>2, <1>3, <1>4, <1>5, <1>6

LEMMA CountSeparatesRuns == ASSUME QueueShape, CountInv PROVE NeverConcurrent
<1> SUFFICES ASSUME NEW s1 \in Slots, NEW s2 \in Slots, s1 # s2, msg[s1].pc = "run",
                    msg[s2].pc = "run", msg[s1].task = msg[s2].task
             PROVE  requeued[msg[s1].task] > 0
  BY DEF NeverConcurrent
<1>1. PICK t \in Tasks : t = msg[s1].task
  BY DEF QueueShape, SlotState, Working
<1>2. "entries" \in Measures
  BY DEF Measures
<1> DEFINE u == [s \in Slots |-> Held("entries", t, msg[s])]
<1>3. u \in [Slots -> Nat]
  BY <1>2, ShapeNow, ProcessingType
<1>4. u[s1] = 1 /\ u[s2] = 1
  BY <1>1 DEF Held, Working
<1> HIDE DEF u
<1>5. 2 <= Tally(Slots, u)
  <2>1. u[s1] + u[s2] <= Tally(Slots, u)
    BY <1>3, TallyTwo
  <2> QED BY <1>4, <2>1
<1>6. 0 + Outstanding("entries", t) <= 1 * Puts(t)
  BY <1>2 DEF CountInv, Spent, Quota
<1>7. /\ Queued("entries", t, backlog) \in Nat /\ Fetching("entries", t, fetched) \in Nat
      /\ Processing("entries", t, msg) \in Nat /\ Puts(t) \in Nat
  BY <1>2, CountTypes
<1>8. 2 <= Puts(t)
  BY <1>5, <1>6, <1>7 DEF Outstanding, Processing, u
<1>9. requeued[t] \in Nat
  BY DEF QueueShape, QueueTypeOK
<1> QED BY <1>1, <1>8, <1>9 DEF Puts

\* What is on the stream, fetched or in a slot for a task, and the runs it has
\* had, stay within what was put on the stream for it from outside.
THEOREM EntriesStayWithinPuts == QueueSpec => []CountInv
<1>1. QueueInit => CountInv
  BY InitCount
<1>2. QueueShape /\ QueueShape' /\ CountInv /\ [QueueNext]_queueVars => CountInv'
  BY CountStep
<1> QED BY <1>1, <1>2, QueueKeepsItsShape, PTL DEF QueueSpec

\* A handler is started at most MAX_RETRIES + 1 times for each time its task is
\* put on the stream, and never twice at a time unless an operator re-added the
\* task, for any number of workers, slots and faults.
THEOREM RunsStayBounded == QueueSpec => []RunsAreBounded
<1>1. QueueShape /\ CountInv => RunsAreBounded
  BY CountBoundsRuns, CountSeparatesRuns DEF RunsAreBounded, QueueShape
<1> QED BY <1>1, QueueKeepsItsShape, EntriesStayWithinPuts, PTL
=============================================================================
