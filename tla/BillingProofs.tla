--------------------------- MODULE BillingProofs ---------------------------
(***************************************************************************)
(* The safety of Billing for any number of users, orders, handlers and     *)
(* replicas, any amounts and any number of faults, and its audit trail.    *)
(***************************************************************************)
EXTENDS Billing, DataLemmas

\* A handler that works on an order works on an existing one, and one that
\* moves credits knows whose they are.
JobsAreGrounded ==
    \A h \in Handlers :
        /\ job[h].pc \in {"precreate", "markfailed", "backfill", "lookup", "confirm"}
               => job[h].pay \in Payments /\ order[job[h].pay].status # "none"
        /\ job[h].pc \in {"credit", "cache", "publish", "load"} => job[h].user \in Users
        /\ job[h].pc = "credit" => job[h].amount >= 0

OrdersAreOwned ==
    \A p \in Payments : order[p].status # "none" => order[p].user \in Users

Crediting(h, p) == job[h].pc = "credit" /\ job[h].pay = p

\* Winning MarkPaymentPaid is an exclusive licence to credit the order.
OneLicence ==
    \A p \in Payments : \A h \in Handlers :
        Crediting(h, p) =>
            /\ order[p].status = "paid"
            /\ credited[p] = 0
            /\ \A g \in Handlers : Crediting(g, p) => g = h

Creating(h, p) == job[h].pc \in {"precreate", "markfailed", "backfill"} /\ job[h].pay = p

\* Until CreatePayment has answered nobody can pay, and there is one creator.
OneCreator ==
    \A p \in Payments : \A h \in Handlers :
        Creating(h, p) =>
            /\ order[p].status = "pending"
            /\ provider[p] = "none"
            /\ \A g \in Handlers : Creating(g, p) => g = h

\* A handler confirms only what the provider has seen, and outside WeChat only
\* what the provider has settled.
ConfirmsAreEarned ==
    \A p \in Payments : \A h \in Handlers :
        job[h].pc \in {"lookup", "confirm"} /\ job[h].pay = p =>
            /\ provider[p] # "none"
            /\ order[p].channel # "wechat" => provider[p] = "paid"

UnborrowedOrders == \A p \in Payments : order[p].status = "none" => provider[p] = "none"

GroundInv == JobsAreGrounded /\ OrdersAreOwned
CreditInv == CreditedOnce /\ OneLicence
SettleInv == OneCreator /\ ConfirmsAreEarned /\ UnborrowedOrders /\ FailedOrderNeverCharged
             /\ PaidMeansSettled

\* The inductive invariant: the four safety properties and what they rest on.
SafeInv == GroundInv /\ NoOverdraft /\ CreditInv /\ SettleInv
IInv == TypeOK /\ SafeInv

----------------------------------------------------------------------------
(* The sums of the audit trail: differences of tallies.                    *)

Plus(n) == IF n > 0 THEN n ELSE 0
Ups(I, w) == [i \in I |-> Plus(w[i])]
Downs(I, w) == [i \in I |-> Plus(-w[i])]

LEMMA TotalIs ==
    ASSUME NEW I, NEW w \in [I -> Int]
    PROVE  /\ Ups(I, w) \in [I -> Nat] /\ Downs(I, w) \in [I -> Nat]
           /\ Total(I, w) = Tally(I, Ups(I, w)) - Tally(I, Downs(I, w))
<1>1. ASSUME NEW n \in Int PROVE Plus(n) \in Nat /\ 1..n = 1..Plus(n)
  BY DEF Plus
<1>2. \A i \in I : w[i] \in Int /\ -w[i] \in Int
  OBVIOUS
<1>3. \A i \in I : Ups(I, w)[i] = Plus(w[i]) /\ Downs(I, w)[i] = Plus(-w[i])
  BY DEF Ups, Downs
<1>4. Ups(I, w) \in [I -> Nat] /\ Downs(I, w) \in [I -> Nat]
  BY <1>1, <1>2 DEF Ups, Downs
<1>5. \A i \in I : {i} \X (1..w[i]) = {i} \X (1..Ups(I, w)[i]) /\ {i} \X (1..(-w[i])) = {i} \X (1..Downs(I, w)[i])
  BY <1>1, <1>2, <1>3
<1>6. /\ UNION {{i} \X (1..w[i]) : i \in I} = TallyMarks(I, Ups(I, w))
      /\ UNION {{i} \X (1..(-w[i])) : i \in I} = TallyMarks(I, Downs(I, w))
  BY <1>5 DEF TallyMarks
<1> QED BY <1>4, <1>6 DEF Total, Tally

LEMMA TotalType == ASSUME NEW I, IsFiniteSet(I), NEW w \in [I -> Int] PROVE Total(I, w) \in Int
<1>1. Tally(I, Ups(I, w)) \in Nat /\ Tally(I, Downs(I, w)) \in Nat
  BY TotalIs, TallyType
<1> QED BY <1>1, TotalIs

LEMMA TotalChange ==
    ASSUME NEW I, IsFiniteSet(I), NEW w \in [I -> Int], NEW v \in [I -> Int], NEW i \in I,
           \A j \in I \ {i} : v[j] = w[j]
    PROVE  Total(I, v) = Total(I, w) - w[i] + v[i]
<1> DEFINE a == Ups(I, w)
           b == Ups(I, v)
           c == Downs(I, w)
           d == Downs(I, v)
<1>1. /\ a \in [I -> Nat] /\ b \in [I -> Nat] /\ c \in [I -> Nat] /\ d \in [I -> Nat]
      /\ Total(I, w) = Tally(I, a) - Tally(I, c) /\ Total(I, v) = Tally(I, b) - Tally(I, d)
  BY TotalIs
<1>2. /\ \A j \in I \ {i} : b[j] = a[j] /\ d[j] = c[j]
      /\ a[i] = Plus(w[i]) /\ b[i] = Plus(v[i]) /\ c[i] = Plus(-w[i]) /\ d[i] = Plus(-v[i])
  BY DEF Ups, Downs
<1> HIDE DEF a, b, c, d
<1>3. Tally(I, b) = Tally(I, a) - a[i] + b[i]
  BY <1>1, <1>2, TallyChange
<1>4. Tally(I, d) = Tally(I, c) - c[i] + d[i]
  BY <1>1, <1>2, TallyChange
<1>5. Tally(I, a) \in Nat /\ Tally(I, c) \in Nat
  BY <1>1, TallyType
<1>6. w[i] \in Int /\ v[i] \in Int /\ a[i] - c[i] = w[i] /\ b[i] - d[i] = v[i]
  BY <1>2 DEF Plus
<1>7. a[i] \in Nat /\ b[i] \in Nat /\ c[i] \in Nat /\ d[i] \in Nat
  BY <1>1
<1> QED BY <1>1, <1>3, <1>4, <1>5, <1>6, <1>7

LEMMA TotalSame ==
    ASSUME NEW I, NEW w, NEW v, \A i \in I : v[i] = w[i]
    PROVE  Total(I, v) = Total(I, w)
BY DEF Total

LEMMA TotalNone ==
    ASSUME NEW I, NEW w \in [I -> Int], \A i \in I : w[i] = 0
    PROVE  Total(I, w) = 0
<1>1. \A i \in I : Ups(I, w)[i] = 0 /\ Downs(I, w)[i] = 0
  BY DEF Ups, Downs, Plus
<1>2. Tally(I, Ups(I, w)) = 0 /\ Tally(I, Downs(I, w)) = 0
  BY <1>1, TotalIs, TallyNone
<1> QED BY <1>2, TotalIs

LEMMA TotalUnion ==
    ASSUME NEW I, NEW J, IsFiniteSet(I), IsFiniteSet(J), I \cap J = {}, NEW w \in [I \union J -> Int]
    PROVE  Total(I \union J, w) = Total(I, w) + Total(J, w)
<1> DEFINE K == I \union J
           a == Ups(K, w)
           c == Downs(K, w)
           wi == [i \in I |-> w[i]]
           wj == [j \in J |-> w[j]]
<1>1. a \in [K -> Nat] /\ c \in [K -> Nat] /\ Total(K, w) = Tally(K, a) - Tally(K, c)
  BY TotalIs
<1>2. wi \in [I -> Int] /\ wj \in [J -> Int]
  OBVIOUS
<1>3. /\ Total(I, wi) = Tally(I, Ups(I, wi)) - Tally(I, Downs(I, wi))
      /\ Total(J, wj) = Tally(J, Ups(J, wj)) - Tally(J, Downs(J, wj))
      /\ Ups(I, wi) \in [I -> Nat] /\ Downs(I, wi) \in [I -> Nat] /\ Ups(J, wj) \in [J -> Nat] /\ Downs(J, wj) \in [J -> Nat]
  <2> HIDE DEF wi, wj
  <2> QED BY <1>2, TotalIs
<1>4. /\ \A i \in I : Ups(I, wi)[i] = a[i] /\ Downs(I, wi)[i] = c[i]
      /\ \A j \in J : Ups(J, wj)[j] = a[j] /\ Downs(J, wj)[j] = c[j]
  BY DEF Ups, Downs
<1>5. Total(I, wi) = Total(I, w) /\ Total(J, wj) = Total(J, w)
  <2>1. (\A i \in I : wi[i] = w[i]) /\ (\A j \in J : wj[j] = w[j])
    OBVIOUS
  <2> HIDE DEF wi, wj
  <2> QED BY <2>1, TotalSame
<1> HIDE DEF a, c, wi, wj
<1>6. Tally(K, a) = Tally(I, a) + Tally(J, a) /\ Tally(K, c) = Tally(I, c) + Tally(J, c)
  BY <1>1, TallyUnion
<1>7. /\ Tally(I, Ups(I, wi)) = Tally(I, a) /\ Tally(I, Downs(I, wi)) = Tally(I, c)
      /\ Tally(J, Ups(J, wj)) = Tally(J, a) /\ Tally(J, Downs(J, wj)) = Tally(J, c)
  BY <1>4, TallySame
<1>8. /\ Tally(I, Ups(I, wi)) \in Nat /\ Tally(I, Downs(I, wi)) \in Nat
      /\ Tally(J, Ups(J, wj)) \in Nat /\ Tally(J, Downs(J, wj)) \in Nat
  BY <1>3, TallyType
<1> QED BY <1>1, <1>3, <1>5, <1>6, <1>7, <1>8 DEF K

LEMMA TotalOne == ASSUME NEW i, NEW w \in [{i} -> Int] PROVE Total({i}, w) = w[i]
<1> DEFINE a == Ups({i}, w)
           c == Downs({i}, w)
<1>1. a \in [{i} -> Nat] /\ c \in [{i} -> Nat] /\ Total({i}, w) = Tally({i}, a) - Tally({i}, c)
  BY TotalIs
<1>2. a[i] = Plus(w[i]) /\ c[i] = Plus(-w[i])
  BY DEF Ups, Downs
<1> HIDE DEF a, c
<1>3. Tally({i}, a) = a[i] /\ Tally({i}, c) = c[i]
  BY <1>1, TallyOne
<1>4. w[i] \in Int
  OBVIOUS
<1> QED BY <1>1, <1>2, <1>3, <1>4 DEF Plus

LEMMA TotalShift ==
    ASSUME NEW k \in Nat, NEW w \in [2..(k + 1) -> Int], NEW v \in [1..k -> Int], \A i \in 1..k : v[i] = w[i + 1]
    PROVE  Total(1..k, v) = Total(2..(k + 1), w)
<1> DEFINE I == 2..(k + 1)
           J == 1..k
           a == Ups(I, w)
           b == Ups(J, v)
           c == Downs(I, w)
           d == Downs(J, v)
<1>1. /\ a \in [I -> Nat] /\ b \in [J -> Nat] /\ c \in [I -> Nat] /\ d \in [J -> Nat]
      /\ Total(I, w) = Tally(I, a) - Tally(I, c) /\ Total(J, v) = Tally(J, b) - Tally(J, d)
  BY TotalIs
<1>2. IsFiniteSet(I) /\ I \subseteq Int /\ J \subseteq Int /\ 1 \in Int
  BY FS_Interval
<1>3. \A i \in I : i - 1 \in J /\ b[i - 1] = a[i] /\ d[i - 1] = c[i]
  <2> TAKE i \in I
  <2>1. i - 1 \in J /\ (i - 1) + 1 = i
    OBVIOUS
  <2>2. v[i - 1] = w[i]
    BY <2>1
  <2> QED BY <2>1, <2>2 DEF Ups, Downs
<1>4. \A j \in J : 1 + j \in I
  OBVIOUS
<1> HIDE DEF I, J, a, b, c, d
<1>5. Renumbered(I, a, J, b, 1) /\ Renumbered(I, c, J, d, 1)
  BY <1>1, <1>2, <1>3, <1>4 DEF Renumbered
<1>6. Tally(J, b) = Tally(I, a) /\ Tally(J, d) = Tally(I, c)
  BY <1>5, TallyShift
<1> QED BY <1>1, <1>6 DEF I, J

\* What the events of a channel and the tasks of the handlers add up to.
LEMMA Amounts ==
    ASSUME NEW u \in Users, NEW e, e \in Event \/ e \in Job
    PROVE  AmountFor(u, e) \in Int /\ (e \in Job => Held(u, e) \in Int)
BY DEF AmountFor, Held, Event, Job

LEMMA QueueType ==
    ASSUME NEW u \in Users, NEW s \in Seq(Event)
    PROVE  /\ [i \in DOMAIN s |-> AmountFor(u, s[i])] \in [DOMAIN s -> Int] /\ IsFiniteSet(DOMAIN s)
           /\ DOMAIN s = 1..Len(s) /\ Len(s) \in Nat /\ InQueue(u, s) \in Int
<1>1. DOMAIN s = 1..Len(s) /\ Len(s) \in Nat /\ \A i \in 1..Len(s) : s[i] \in Event
  BY LenProperties, ElementOfSeq
<1>2. \A i \in DOMAIN s : AmountFor(u, s[i]) \in Int
  BY <1>1, Amounts
<1>3. IsFiniteSet(DOMAIN s)
  BY <1>1, UpTo
<1>4. [i \in DOMAIN s |-> AmountFor(u, s[i])] \in [DOMAIN s -> Int]
  BY <1>2
<1>5. InQueue(u, s) \in Int
  BY <1>3, <1>4, TotalType DEF InQueue
<1> QED BY <1>1, <1>3, <1>4, <1>5

LEMMA QueueEmpty == ASSUME NEW u \in Users PROVE InQueue(u, << >>) = 0
<1>1. << >> \in Seq(Event) /\ DOMAIN << >> = {}
  OBVIOUS
<1> DEFINE s == << >>
<1>2. [i \in DOMAIN s |-> AmountFor(u, s[i])] \in [DOMAIN s -> Int] /\ \A i \in DOMAIN s : [j \in DOMAIN s |-> AmountFor(u, s[j])][i] = 0
  <2>1. s \in Seq(Event) /\ DOMAIN s = {}
    BY <1>1
  <2> HIDE DEF s
  <2> QED BY <2>1, QueueType
<1> HIDE DEF s
<1>3. InQueue(u, s) = 0
  BY <1>2, TotalNone DEF InQueue
<1> QED BY <1>3 DEF s

LEMMA QueueAppend ==
    ASSUME NEW u \in Users, NEW s \in Seq(Event), NEW e \in Event
    PROVE  InQueue(u, Append(s, e)) = InQueue(u, s) + AmountFor(u, e)
<1> DEFINE t == Append(s, e)
           k == Len(s)
           w == [i \in DOMAIN t |-> AmountFor(u, t[i])]
           v == [i \in DOMAIN s |-> AmountFor(u, s[i])]
           x == [i \in {k + 1} |-> AmountFor(u, e)]
<1>1. t \in Seq(Event) /\ Len(t) = k + 1 /\ t[k + 1] = e /\ (\A i \in 1..k : t[i] = s[i]) /\ k \in Nat
  BY AppendProperties, LenProperties
<1>2. /\ w \in [DOMAIN t -> Int] /\ DOMAIN t = 1..(k + 1) /\ DOMAIN s = 1..k
  BY <1>1, QueueType
<1>3. 1..(k + 1) = (1..k) \union {k + 1} /\ (1..k) \cap {k + 1} = {} /\ k + 1 \in 1..(k + 1) /\ 1..k \subseteq 1..(k + 1)
  BY <1>1
<1>4. IsFiniteSet(1..k) /\ IsFiniteSet({k + 1})
  BY <1>1, UpTo, One
<1>5. (\A i \in 1..k : v[i] = w[i]) /\ w[k + 1] = AmountFor(u, e) /\ x[k + 1] = w[k + 1]
  BY <1>1, <1>2, <1>3
<1>6. AmountFor(u, e) \in Int /\ x \in [{k + 1} -> Int]
  BY Amounts
<1>7. w \in [(1..k) \union {k + 1} -> Int]
  BY <1>2, <1>3
<1>8. InQueue(u, t) = Total(1..(k + 1), w) /\ InQueue(u, s) = Total(1..k, v)
  BY <1>2 DEF InQueue
<1> HIDE DEF t, k, w, v, x
<1>9. Total((1..k) \union {k + 1}, w) = Total(1..k, w) + Total({k + 1}, w)
  <2> DEFINE I == 1..k
             J == {k + 1}
  <2>1. IsFiniteSet(I) /\ IsFiniteSet(J) /\ I \cap J = {} /\ w \in [I \union J -> Int]
    BY <1>3, <1>4, <1>7
  <2> HIDE DEF I, J
  <2>2. Total(I \union J, w) = Total(I, w) + Total(J, w)
    BY <2>1, TotalUnion
  <2> QED BY <2>2 DEF I, J
<1>10. Total(1..k, v) = Total(1..k, w) /\ Total({k + 1}, x) = Total({k + 1}, w)
  BY <1>5, TotalSame
<1>11. Total({k + 1}, x) = AmountFor(u, e)
  BY <1>5, <1>6, TotalOne
<1> QED BY <1>3, <1>8, <1>9, <1>10, <1>11 DEF t

LEMMA QueueTail ==
    ASSUME NEW u \in Users, NEW s \in Seq(Event), s # << >>
    PROVE  InQueue(u, s) = AmountFor(u, Head(s)) + InQueue(u, Tail(s)) /\ Head(s) \in Event /\ Tail(s) \in Seq(Event)
<1> DEFINE t == Tail(s)
           k == Len(t)
           w == [i \in DOMAIN s |-> AmountFor(u, s[i])]
           v == [i \in DOMAIN t |-> AmountFor(u, t[i])]
           x == [i \in {1} |-> AmountFor(u, s[1])]
           y == [i \in 2..(k + 1) |-> w[i]]
<1>1. t \in Seq(Event) /\ Len(s) = k + 1 /\ (\A i \in 1..k : t[i] = s[i + 1]) /\ k \in Nat /\ Head(s) = s[1] /\ Head(s) \in Event
  BY HeadTailProperties, LenProperties
<1>2. /\ w \in [DOMAIN s -> Int] /\ DOMAIN s = 1..(k + 1)
      /\ v \in [DOMAIN t -> Int] /\ DOMAIN t = 1..k
  BY <1>1, QueueType
<1>3. /\ 1..(k + 1) = {1} \union (2..(k + 1)) /\ {1} \cap (2..(k + 1)) = {} /\ 1 \in 1..(k + 1)
      /\ 2..(k + 1) \subseteq 1..(k + 1) /\ \A i \in 1..k : i + 1 \in 2..(k + 1)
  BY <1>1
<1>4. IsFiniteSet({1}) /\ IsFiniteSet(2..(k + 1))
  <2>1. 2 \in Int /\ k + 1 \in Int
    BY <1>1
  <2> DEFINE b == k + 1
  <2> HIDE DEF b
  <2>2. IsFiniteSet(2..b)
    BY <2>1, FS_Interval DEF b
  <2> QED BY <2>2, One DEF b
<1>5. AmountFor(u, s[1]) \in Int /\ x \in [{1} -> Int] /\ x[1] = w[1] /\ w[1] = AmountFor(u, Head(s))
  <2>1. s[1] \in Event /\ AmountFor(u, s[1]) \in Int
    BY <1>1, Amounts
  <2> QED BY <1>1, <1>2, <1>3, <2>1
<1>6. y \in [2..(k + 1) -> Int] /\ \A i \in 2..(k + 1) : y[i] = w[i]
  BY <1>2, <1>3
<1>7. \A i \in 1..k : v[i] = y[i + 1]
  <2> TAKE i \in 1..k
  <2>1. v[i] = AmountFor(u, t[i]) /\ t[i] = s[i + 1]
    BY <1>1, <1>2
  <2>2. y[i + 1] = w[i + 1] /\ w[i + 1] = AmountFor(u, s[i + 1])
    BY <1>2, <1>3
  <2> QED BY <2>1, <2>2
<1>8. w \in [{1} \union (2..(k + 1)) -> Int] /\ v \in [1..k -> Int]
  BY <1>2, <1>3
<1>9. InQueue(u, s) = Total(1..(k + 1), w) /\ InQueue(u, t) = Total(1..k, v)
  BY <1>2 DEF InQueue
<1> HIDE DEF t, k, w, v, x, y
<1>10. Total({1} \union (2..(k + 1)), w) = Total({1}, w) + Total(2..(k + 1), w)
  <2> DEFINE I == {1}
             J == 2..(k + 1)
  <2>1. IsFiniteSet(I) /\ IsFiniteSet(J) /\ I \cap J = {} /\ w \in [I \union J -> Int]
    BY <1>3, <1>4, <1>8
  <2> HIDE DEF I, J
  <2>2. Total(I \union J, w) = Total(I, w) + Total(J, w)
    BY <2>1, TotalUnion
  <2> QED BY <2>2 DEF I, J
<1>11. Total({1}, x) = Total({1}, w) /\ Total({1}, x) = x[1]
  <2>1. \A i \in {1} : x[i] = w[i]
    BY <1>5
  <2> QED BY <1>5, <2>1, TotalSame, TotalOne
<1>12. Total(2..(k + 1), y) = Total(2..(k + 1), w)
  BY <1>6, TotalSame
<1>13. Total(1..k, v) = Total(2..(k + 1), y)
  BY <1>1, <1>6, <1>7, <1>8, TotalShift
<1> QED BY <1>1, <1>3, <1>5, <1>9, <1>10, <1>11, <1>12, <1>13 DEF t

LEMMA ChannelMoves ==
    ASSUME TypeOK, NEW u \in Users, NEW r \in Replicas, NEW q \in Seq(Event), eventCh' = [eventCh EXCEPT ![r] = q]
    PROVE  /\ InChannel(u)' = InChannel(u) - InQueue(u, eventCh[r]) + InQueue(u, q)
           /\ InChannel(u) \in Int /\ InQueue(u, eventCh[r]) \in Int /\ InQueue(u, q) \in Int
<1> DEFINE w == [s \in Replicas |-> InQueue(u, eventCh[s])]
           v == [s \in Replicas |-> InQueue(u, eventCh'[s])]
<1>1. \A s \in Replicas : eventCh[s] \in Seq(Event) /\ eventCh'[s] = IF s = r THEN q ELSE eventCh[s]
  BY DEF TypeOK
<1>2. \A s \in Replicas : eventCh'[s] \in Seq(Event)
  BY <1>1
<1>3. w \in [Replicas -> Int] /\ v \in [Replicas -> Int] /\ InQueue(u, eventCh[r]) \in Int /\ InQueue(u, q) \in Int
  BY <1>1, <1>2, QueueType
<1>4. w[r] = InQueue(u, eventCh[r]) /\ v[r] = InQueue(u, q) /\ \A s \in Replicas \ {r} : v[s] = w[s]
  BY <1>1
<1>5. InChannel(u) = Total(Replicas, w) /\ InChannel(u)' = Total(Replicas, v)
  BY DEF InChannel
<1> HIDE DEF w, v
<1>6. Total(Replicas, v) = Total(Replicas, w) - w[r] + v[r] /\ Total(Replicas, w) \in Int
  BY ZenonT(60), <1>3, <1>4, TotalChange, TotalType, CountedAssumption
<1> QED BY <1>3, <1>4, <1>5, <1>6

LEMMA TaskMoves ==
    ASSUME TypeOK, TypeOK', NEW u \in Users, NEW h \in Handlers, \A g \in Handlers \ {h} : job'[g] = job[g]
    PROVE  /\ BeingPublished(u)' = BeingPublished(u) - Held(u, job[h]) + Held(u, job'[h])
           /\ BeingPublished(u) \in Int /\ Held(u, job[h]) \in Int /\ Held(u, job'[h]) \in Int
<1> DEFINE w == [g \in Handlers |-> Held(u, job[g])]
           v == [g \in Handlers |-> Held(u, job'[g])]
<1>1. \A g \in Handlers : job[g] \in Job /\ job'[g] \in Job
  BY DEF TypeOK
<1>2. w \in [Handlers -> Int] /\ v \in [Handlers -> Int] /\ Held(u, job[h]) \in Int /\ Held(u, job'[h]) \in Int
  BY <1>1, Amounts
<1>3. w[h] = Held(u, job[h]) /\ v[h] = Held(u, job'[h]) /\ \A g \in Handlers \ {h} : v[g] = w[g]
  OBVIOUS
<1>4. BeingPublished(u) = Total(Handlers, w) /\ BeingPublished(u)' = Total(Handlers, v)
  BY DEF BeingPublished
<1> HIDE DEF w, v
<1>5. Total(Handlers, v) = Total(Handlers, w) - w[h] + v[h] /\ Total(Handlers, w) \in Int
  BY <1>2, <1>3, TotalChange, TotalType, CountedAssumption
<1> QED BY <1>2, <1>3, <1>4, <1>5

----------------------------------------------------------------------------
USE HomeAssumption, AmountAssumption, BoundAssumption, NullAssumption

\* The next-state relation, one disjunct per action.
LEMMA NextCases ==
    ASSUME Next
    PROVE  \/ \E h \in Handlers : Precreate(h)
           \/ \E h \in Handlers : MarkPaymentFailed(h)
           \/ \E h \in Handlers : UpdatePaymentProvider(h)
           \/ \E h \in Handlers : PayPalLookup(h)
           \/ \E h \in Handlers : MarkPaymentPaid(h)
           \/ \E h \in Handlers : AtomicAddBalance(h)
           \/ \E h \in Handlers : SetBalanceCache(h)
           \/ \E h \in Handlers : Publish(h)
           \/ \E h \in Handlers : LoadOrStore(h)
           \/ \E h \in Handlers : StatementFails(h)
           \/ \E h \in Handlers, p \in Payments, u \in Users, c \in Channels, n \in TopUps :
                  CreatePayment(h, p, u, c, n)
           \/ \E h \in Handlers, p \in Payments : AlipayCallback(h, p)
           \/ \E h \in Handlers, p \in Payments : WechatCallback(h, p)
           \/ \E h \in Handlers, p \in Payments : GetOrder(h, p)
           \/ \E h \in Handlers, p \in Payments : PayPalCapture(h, p)
           \/ \E h \in Handlers, u \in Users, n \in Recharges : Recharge(h, u, n)
           \/ \E h \in Handlers, u \in Users, n \in Debits : AtomicDeductBalance(h, u, n)
           \/ \E h \in Handlers, u \in Users : GetBalance(h, u)
           \/ \E p \in Payments : UserStartsPaying(p)
           \/ \E p \in Payments : ProviderSettles(p)
           \/ \E r \in Replicas : Dispatch(r)
           \/ \E r \in Replicas : RecordFails(r)
           \/ \E r \in Replicas : Crash(r)
BY Zenon DEF Next, HandlerStep, Request, Notification

LEMMA TaskFields ==
    ASSUME NEW s \in Steps, NEW p \in Payments \union {NoPay}, NEW u \in Users \union {NoUser},
           NEW n \in Int, NEW b \in Int
    PROVE  /\ Task(s, p, u, n, b) \in Job
           /\ Task(s, p, u, n, b).pc = s
           /\ Task(s, p, u, n, b).pay = p
           /\ Task(s, p, u, n, b).user = u
           /\ Task(s, p, u, n, b).amount = n
           /\ Task(s, p, u, n, b).balance = b
BY DEF Task, Job

LEMMA IdleFields == Idle \in Job /\ Idle.pc = "idle"
BY TaskFields DEF Idle, Steps

LEMMA BecomeJob ==
    ASSUME TypeOK, NEW h \in Handlers, NEW j \in Job, Become(h, j)
    PROVE  /\ job' \in [Handlers -> Job]
           /\ \A g \in Handlers : job'[g] = IF g = h THEN j ELSE job[g]
BY DEF TypeOK, Become

LEMMA JobFields ==
    ASSUME TypeOK, NEW h \in Handlers
    PROVE  /\ job[h] \in Job
           /\ job[h].pc \in Steps
           /\ job[h].pay \in Payments \union {NoPay}
           /\ job[h].user \in Users \union {NoUser}
           /\ job[h].amount \in Int
           /\ job[h].balance \in Int
BY DEF TypeOK, Job

LEMMA OrderFields ==
    ASSUME TypeOK, NEW p \in Payments
    PROVE  /\ order[p] \in Order
           /\ order[p].status \in Statuses
           /\ order[p].user \in Users \union {NoUser}
           /\ order[p].channel \in Channels \union {"none"}
           /\ order[p].credits \in Nat
           /\ order[p].ref \in BOOLEAN
BY DEF TypeOK, Order

LEMMA SetStatus ==
    ASSUME TypeOK, NEW p \in Payments, NEW s \in Statuses,
           order' = [order EXCEPT ![p].status = s]
    PROVE  /\ order' \in [Payments -> Order]
           /\ \A q \in Payments : /\ order'[q].status = IF q = p THEN s ELSE order[q].status
                                  /\ order'[q].user = order[q].user
                                  /\ order'[q].channel = order[q].channel
BY OrderFields DEF TypeOK, Order


LEMMA InitIInv == ASSUME Init PROVE IInv
<1>1. TypeOK
  BY IdleFields DEF Init, TypeOK, NoOrder, Order, Statuses, ProviderStates
<1>2. SafeInv
  BY IdleFields DEF Init, SafeInv, GroundInv, JobsAreGrounded, OrdersAreOwned, NoOverdraft,
     CreditInv, CreditedOnce, OneLicence, Crediting, SettleInv, OneCreator, Creating,
     ConfirmsAreEarned, UnborrowedOrders, FailedOrderNeverCharged, PaidMeansSettled, NoOrder
<1> QED BY <1>1, <1>2 DEF IInv

----------------------------------------------------------------------------
(* Steps that touch no balance and no order: only the handler's task moves. *)

\* The tasks a handler may take on without a statement changing the tables.
Fits(h, j) ==
    /\ j.pc \in {"precreate", "markfailed", "backfill", "lookup", "confirm"}
           => j.pay \in Payments /\ order[j.pay].status # "none"
    /\ j.pc \in {"credit", "cache", "publish", "load"} => j.user \in Users
    /\ j.pc = "credit" => j.amount >= 0 /\ j.pay \notin Payments
    /\ j.pc \in {"precreate", "markfailed", "backfill"} =>
           /\ job[h].pc \in {"precreate", "markfailed", "backfill"}
           /\ j.pay = job[h].pay
    /\ j.pc \in {"lookup", "confirm"} =>
           /\ provider[j.pay] # "none"
           /\ order[j.pay].channel # "wechat" => provider[j.pay] = "paid"

LEMMA TaskStep ==
    ASSUME IInv, NEW h \in Handlers, NEW j \in Job, Become(h, j), Fits(h, j),
           UNCHANGED <<credits, order, provider, credited>>
    PROVE  SafeInv'
<1> USE DEF IInv, SafeInv
<1>1. \A g \in Handlers : job'[g] = IF g = h THEN j ELSE job[g]
  BY BecomeJob
<1>2. GroundInv'
  BY <1>1 DEF GroundInv, JobsAreGrounded, OrdersAreOwned, Fits
<1>3. NoOverdraft'
  BY DEF NoOverdraft
<1>4. CreditInv'
  BY <1>1 DEF CreditInv, CreditedOnce, OneLicence, Crediting, Fits
<1>5. SettleInv'
  <2>1. OneCreator'
    BY <1>1 DEF SettleInv, OneCreator, Creating, Fits
  <2>2. ConfirmsAreEarned'
    BY <1>1 DEF SettleInv, ConfirmsAreEarned, Fits
  <2> QED
    BY <2>1, <2>2 DEF SettleInv, UnborrowedOrders, FailedOrderNeverCharged, PaidMeansSettled
<1> QED BY <1>2, <1>3, <1>4, <1>5

LEMMA IdleFits == ASSUME NEW h \in Handlers PROVE Fits(h, Idle)
BY IdleFields DEF Fits

LEMMA PrecreateStep == ASSUME IInv, NEW h \in Handlers, Precreate(h) PROVE IInv'
<1> USE DEF IInv
<1>1. PICK j \in Job : Become(h, j) /\ Fits(h, j)
  <2>1. job[h].pay \in Payments /\ order[job[h].pay].status # "none"
    BY DEF SafeInv, GroundInv, JobsAreGrounded, Precreate, At
  <2>2. CASE Serving(h, "backfill", job[h].pay)
    BY <2>1, <2>2, TaskFields DEF Serving, Fits, Precreate, At, Steps
  <2>3. CASE Serving(h, "markfailed", job[h].pay)
    BY <2>1, <2>3, TaskFields DEF Serving, Fits, Precreate, At, Steps
  <2>4. CASE Done(h)
    BY <2>4, IdleFields, IdleFits DEF Done
  <2> QED BY <2>2, <2>3, <2>4 DEF Precreate
<1>2. TypeOK'
  BY <1>1, BecomeJob DEF TypeOK, Precreate
<1> QED BY <1>1, <1>2, TaskStep DEF Precreate

LEMMA PayPalLookupStep == ASSUME IInv, NEW h \in Handlers, PayPalLookup(h) PROVE IInv'
<1> USE DEF IInv
<1>1. PICK j \in Job : Become(h, j) /\ Fits(h, j)
  <2>1. job[h].pay \in Payments /\ order[job[h].pay].status # "none"
    BY DEF SafeInv, GroundInv, JobsAreGrounded, PayPalLookup, At
  <2>2. CASE Serving(h, "confirm", job[h].pay)
    BY <2>1, <2>2, TaskFields
       DEF Serving, Fits, PayPalLookup, At, Steps, SafeInv, SettleInv, ConfirmsAreEarned
  <2>3. CASE Done(h)
    BY <2>3, IdleFields, IdleFits DEF Done
  <2> QED BY <2>2, <2>3 DEF PayPalLookup
<1>2. TypeOK'
  BY <1>1, BecomeJob DEF TypeOK, PayPalLookup
<1> QED BY <1>1, <1>2, TaskStep DEF PayPalLookup

LEMMA NotificationStep ==
    ASSUME IInv, NEW h \in Handlers, NEW p \in Payments,
           AlipayCallback(h, p) \/ WechatCallback(h, p) \/ GetOrder(h, p)
    PROVE  IInv'
<1> USE DEF IInv, AlipayCallback, WechatCallback, GetOrder
<1>1. PICK j \in Job : Become(h, j) /\ Fits(h, j)
  <2>1. Serving(h, "confirm", p) /\ provider[p] # "none"
    OBVIOUS
  <2>2. order[p].channel # "wechat" => provider[p] = "paid"
    OBVIOUS
  <2>3. order[p].status # "none"
    BY <2>1 DEF SafeInv, SettleInv, UnborrowedOrders
  <2> QED BY <2>1, <2>2, <2>3, TaskFields DEF Serving, Fits, Steps
<1>2. TypeOK'
  BY <1>1, BecomeJob DEF TypeOK
<1> QED BY <1>1, <1>2, TaskStep

LEMMA RechargeStep ==
    ASSUME IInv, NEW h \in Handlers, NEW u \in Users, NEW n \in Recharges, Recharge(h, u, n)
    PROVE  IInv'
<1> USE DEF IInv
<1>1. PICK j \in Job : Become(h, j) /\ Fits(h, j)
  <2> DEFINE j == Task("credit", NoPay, u, n, 0)
  <2>1. j \in Job /\ j.pc = "credit" /\ j.pay = NoPay /\ j.user = u /\ j.amount = n /\ n >= 0
    BY TaskFields DEF Steps
  <2> HIDE DEF j
  <2>2. Fits(h, j)
    BY <2>1 DEF Fits
  <2>3. Become(h, j)
    BY DEF Recharge, j
  <2> QED BY <2>1, <2>2, <2>3
<1>2. TypeOK'
  BY <1>1, BecomeJob DEF TypeOK, Recharge
<1> QED BY <1>1, <1>2, TaskStep DEF Recharge

LEMMA GetBalanceStep ==
    ASSUME IInv, NEW h \in Handlers, NEW u \in Users, GetBalance(h, u)
    PROVE  IInv'
<1> USE DEF IInv
<1>1. PICK j \in Job : Become(h, j) /\ Fits(h, j)
  <2> DEFINE j == Task("load", NoPay, u, 0, credits[u])
  <2>1. j \in Job /\ j.pc = "load" /\ j.user = u
    BY TaskFields DEF Steps, TypeOK
  <2> HIDE DEF j
  <2>2. Fits(h, j)
    BY <2>1 DEF Fits
  <2>3. Become(h, j)
    BY DEF GetBalance, j
  <2> QED BY <2>1, <2>2, <2>3
<1>2. TypeOK'
  BY <1>1, BecomeJob DEF TypeOK, GetBalance
<1> QED BY <1>1, <1>2, TaskStep DEF GetBalance

LEMMA SetBalanceCacheStep == ASSUME IInv, NEW h \in Handlers, SetBalanceCache(h) PROVE IInv'
<1> USE DEF IInv
<1>1. job[h].user \in Users
  BY DEF SafeInv, GroundInv, JobsAreGrounded, SetBalanceCache, At
<1>2. PICK j \in Job : Become(h, j) /\ Fits(h, j)
  <2> DEFINE j == Task("publish", job[h].pay, job[h].user, job[h].amount, job[h].balance)
  <2>1. j \in Job /\ j.pc = "publish" /\ j.user = job[h].user
    BY TaskFields, JobFields DEF Steps
  <2> HIDE DEF j
  <2>2. Fits(h, j)
    BY <1>1, <2>1 DEF Fits
  <2>3. Become(h, j)
    BY DEF SetBalanceCache, j
  <2> QED BY <2>1, <2>2, <2>3
<1>3. TypeOK'
  <2>1. cache' \in [Replicas -> [Users -> Int \union {NoCache}]]
    BY <1>1, JobFields DEF TypeOK, SetBalanceCache
  <2> QED BY <1>2, <2>1, BecomeJob DEF TypeOK, SetBalanceCache
<1> QED BY <1>2, <1>3, TaskStep DEF SetBalanceCache

LEMMA LoadOrStoreStep == ASSUME IInv, NEW h \in Handlers, LoadOrStore(h) PROVE IInv'
<1> USE DEF IInv
<1>1. job[h].user \in Users
  BY DEF SafeInv, GroundInv, JobsAreGrounded, LoadOrStore, At
<1>2. TypeOK'
  <2>1. cache' \in [Replicas -> [Users -> Int \union {NoCache}]]
    BY <1>1, JobFields DEF TypeOK, LoadOrStore
  <2>2. job' \in [Handlers -> Job]
    BY BecomeJob, IdleFields DEF LoadOrStore, Done
  <2> QED BY <2>1, <2>2 DEF TypeOK, LoadOrStore
<1> QED BY <1>2, TaskStep, IdleFields, IdleFits DEF LoadOrStore, Done

LEMMA PublishStep == ASSUME IInv, NEW h \in Handlers, Publish(h) PROVE IInv'
<1> USE DEF IInv
<1>1. job[h].user \in Users
  BY DEF SafeInv, GroundInv, JobsAreGrounded, Publish, At
<1>2. TypeOK'
  <2>1. eventCh' \in [Replicas -> Seq(Event)]
    <3>1. [user |-> job[h].user, amount |-> job[h].amount] \in Event
      BY <1>1, JobFields DEF Event
    <3>2. Append(eventCh[Home[h]], [user |-> job[h].user, amount |-> job[h].amount])
              \in Seq(Event)
      BY <3>1 DEF TypeOK
    <3> QED BY <3>2 DEF TypeOK, Publish
  <2>2. lossy' \in [Users -> BOOLEAN]
    BY <1>1 DEF TypeOK, Publish
  <2> QED BY <2>1, <2>2, BecomeJob, IdleFields DEF TypeOK, Publish, Done
<1> QED BY <1>2, TaskStep, IdleFields, IdleFits DEF Publish, Done

----------------------------------------------------------------------------
(* Steps that change an order, the provider's view of it, or a balance.    *)

LEMMA MarkPaymentFailedStep == ASSUME IInv, NEW h \in Handlers, MarkPaymentFailed(h) PROVE IInv'
<1> USE DEF IInv
<1> DEFINE p == job[h].pay
<1>1. p \in Payments /\ order[p].status = "pending" /\ provider[p] = "none" /\ Creating(h, p)
  <2>1. p \in Payments
    BY DEF SafeInv, GroundInv, JobsAreGrounded, MarkPaymentFailed, At
  <2>2. Creating(h, p)
    BY DEF MarkPaymentFailed, At, Creating
  <2> QED BY <2>1, <2>2 DEF SafeInv, SettleInv, OneCreator
<1>2. order' = [order EXCEPT ![p].status = "failed"]
  BY <1>1 DEF MarkPaymentFailed
<1> HIDE DEF p
<1>3. /\ order' \in [Payments -> Order]
      /\ \A q \in Payments : /\ order'[q].status = IF q = p THEN "failed" ELSE order[q].status
                             /\ order'[q].user = order[q].user
                             /\ order'[q].channel = order[q].channel
  BY <1>1, <1>2, SetStatus DEF Statuses
<1>4. /\ job' \in [Handlers -> Job]
      /\ \A g \in Handlers : job'[g] = IF g = h THEN Idle ELSE job[g]
  BY BecomeJob, IdleFields DEF MarkPaymentFailed, Done
<1>5. TypeOK'
  BY <1>3, <1>4 DEF TypeOK, MarkPaymentFailed
<1>6. GroundInv'
  BY <1>1, <1>3, <1>4, IdleFields DEF SafeInv, GroundInv, JobsAreGrounded, OrdersAreOwned
<1>7. NoOverdraft'
  BY DEF SafeInv, NoOverdraft, MarkPaymentFailed
<1>8. CreditInv'
  BY <1>1, <1>3, <1>4, IdleFields
     DEF SafeInv, CreditInv, CreditedOnce, OneLicence, Crediting, MarkPaymentFailed
<1>9. SettleInv'
  <2>1. OneCreator'
    BY <1>1, <1>3, <1>4, IdleFields DEF SafeInv, SettleInv, OneCreator, Creating, MarkPaymentFailed
  <2>2. ConfirmsAreEarned'
    BY <1>3, <1>4, IdleFields DEF SafeInv, SettleInv, ConfirmsAreEarned, MarkPaymentFailed
  <2>3. UnborrowedOrders' /\ FailedOrderNeverCharged' /\ PaidMeansSettled'
    BY <1>1, <1>3 DEF SafeInv, SettleInv, UnborrowedOrders, FailedOrderNeverCharged,
       PaidMeansSettled, MarkPaymentFailed
  <2> QED BY <2>1, <2>2, <2>3 DEF SettleInv
<1> QED BY <1>5, <1>6, <1>7, <1>8, <1>9 DEF SafeInv

LEMMA UpdatePaymentProviderStep ==
    ASSUME IInv, NEW h \in Handlers, UpdatePaymentProvider(h) PROVE IInv'
<1> USE DEF IInv
<1> DEFINE p == job[h].pay
<1>1. p \in Payments /\ order[p].status = "pending" /\ provider[p] = "none" /\ Creating(h, p)
  <2>1. p \in Payments
    BY DEF SafeInv, GroundInv, JobsAreGrounded, UpdatePaymentProvider, At
  <2>2. Creating(h, p)
    BY DEF UpdatePaymentProvider, At, Creating
  <2> QED BY <2>1, <2>2 DEF SafeInv, SettleInv, OneCreator
<1>2. /\ order' = [order EXCEPT ![p].ref = TRUE]
      /\ provider' = [provider EXCEPT ![p] = "open"]
  BY <1>1 DEF UpdatePaymentProvider
<1> HIDE DEF p
<1>3. /\ order' \in [Payments -> Order]
      /\ \A q \in Payments : /\ order'[q].status = order[q].status
                             /\ order'[q].user = order[q].user
                             /\ order'[q].channel = order[q].channel
  BY ZenonT(60), <1>1, <1>2, OrderFields DEF TypeOK, Order
<1>4. /\ job' \in [Handlers -> Job]
      /\ \A g \in Handlers : job'[g] = IF g = h THEN Idle ELSE job[g]
  BY BecomeJob, IdleFields DEF UpdatePaymentProvider, Done
<1>5. \A q \in Payments : provider'[q] = IF q = p THEN "open" ELSE provider[q]
  BY <1>2 DEF TypeOK
<1>6. TypeOK'
  BY <1>2, <1>3, <1>4 DEF TypeOK, UpdatePaymentProvider, ProviderStates
<1>7. GroundInv'
  BY <1>3, <1>4, IdleFields DEF SafeInv, GroundInv, JobsAreGrounded, OrdersAreOwned
<1>8. NoOverdraft'
  BY DEF SafeInv, NoOverdraft, UpdatePaymentProvider
<1>9. CreditInv'
  BY <1>3, <1>4, IdleFields
     DEF SafeInv, CreditInv, CreditedOnce, OneLicence, Crediting, UpdatePaymentProvider
<1>10. SettleInv'
  <2>1. OneCreator'
    BY <1>1, <1>3, <1>4, <1>5, IdleFields DEF SafeInv, SettleInv, OneCreator, Creating
  <2>2. ConfirmsAreEarned'
    BY <1>1, <1>3, <1>4, <1>5, IdleFields DEF SafeInv, SettleInv, ConfirmsAreEarned
  <2>3. UnborrowedOrders' /\ FailedOrderNeverCharged' /\ PaidMeansSettled'
    BY <1>1, <1>3, <1>5 DEF SafeInv, SettleInv, UnborrowedOrders, FailedOrderNeverCharged,
       PaidMeansSettled
  <2> QED BY <2>1, <2>2, <2>3 DEF SettleInv
<1> QED BY <1>6, <1>7, <1>8, <1>9, <1>10 DEF SafeInv

\* The statement that fails leaves the tables alone; a failed backfill still
\* answers with the payable order.
LEMMA StatementFailsStep == ASSUME IInv, NEW h \in Handlers, StatementFails(h) PROVE IInv'
<1> USE DEF IInv
<1>0. /\ job' \in [Handlers -> Job]
      /\ \A g \in Handlers : job'[g] = IF g = h THEN Idle ELSE job[g]
  BY BecomeJob, IdleFields DEF StatementFails, Done
<1>1. CASE At(h, "backfill")
  <2> DEFINE p == job[h].pay
  <2>1. p \in Payments /\ order[p].status = "pending" /\ provider[p] = "none" /\ Creating(h, p)
    <3>1. p \in Payments
      BY <1>1 DEF SafeInv, GroundInv, JobsAreGrounded, At
    <3>2. Creating(h, p)
      BY <1>1 DEF At, Creating
    <3> QED BY <3>1, <3>2 DEF SafeInv, SettleInv, OneCreator
  <2>2. provider' = [provider EXCEPT ![p] = "open"]
    BY <1>1 DEF StatementFails
  <2> HIDE DEF p
  <2>3. \A q \in Payments : provider'[q] = IF q = p THEN "open" ELSE provider[q]
    BY <2>2 DEF TypeOK
  <2>4. TypeOK'
    <3>1. provider' \in [Payments -> ProviderStates]
      BY <2>1, <2>2 DEF TypeOK, ProviderStates
    <3>2. faults' \in Nat
      BY DEF TypeOK, StatementFails
    <3> QED BY <1>0, <3>1, <3>2 DEF TypeOK, StatementFails
  <2>5. GroundInv' /\ NoOverdraft'
    <3>1. JobsAreGrounded'
      BY <1>0, IdleFields DEF SafeInv, GroundInv, JobsAreGrounded, StatementFails
    <3>2. OrdersAreOwned' /\ NoOverdraft'
      BY DEF SafeInv, GroundInv, OrdersAreOwned, NoOverdraft, StatementFails
    <3> QED BY <3>1, <3>2 DEF GroundInv
  <2>6. CreditInv'
    BY <1>0, IdleFields
       DEF SafeInv, CreditInv, CreditedOnce, OneLicence, Crediting, StatementFails
  <2>7. OneCreator'
    BY <2>1, <2>3, <1>0, IdleFields DEF SafeInv, SettleInv, OneCreator, Creating, StatementFails
  <2>8. ConfirmsAreEarned'
    BY <2>1, <2>3, <1>0, IdleFields DEF SafeInv, SettleInv, ConfirmsAreEarned, StatementFails
  <2>9. UnborrowedOrders' /\ FailedOrderNeverCharged' /\ PaidMeansSettled'
    BY <2>1, <2>3 DEF SafeInv, SettleInv, UnborrowedOrders, FailedOrderNeverCharged,
       PaidMeansSettled, StatementFails
  <2> QED BY <2>4, <2>5, <2>6, <2>7, <2>8, <2>9 DEF SafeInv, SettleInv
<1>2. CASE ~At(h, "backfill")
  <2>1. TypeOK'
    BY <1>2, <1>0 DEF TypeOK, StatementFails
  <2> QED BY <1>2, <2>1, TaskStep, IdleFields, IdleFits DEF StatementFails, Done
<1> QED BY <1>1, <1>2

LEMMA MarkPaymentPaidStep == ASSUME IInv, NEW h \in Handlers, MarkPaymentPaid(h) PROVE IInv'
<1> USE DEF IInv
<1> DEFINE p == job[h].pay
<1>0. p \in Payments /\ order[p].status # "none"
  BY DEF SafeInv, GroundInv, JobsAreGrounded, MarkPaymentPaid, At
<1>1. CASE order[p].status # "pending"
  <2>1. TypeOK'
    BY <1>1, BecomeJob, IdleFields DEF TypeOK, MarkPaymentPaid, Done
  <2> QED BY <1>1, <2>1, TaskStep, IdleFields, IdleFits DEF MarkPaymentPaid, Done
<1>2. CASE order[p].status = "pending"
  <2> DEFINE j == Task("credit", p, order[p].user, order[p].credits, 0)
  <2>1. Become(h, j) /\ order' = [order EXCEPT ![p].status = "paid"]
    BY <1>2 DEF MarkPaymentPaid
  <2>2. /\ j \in Job /\ j.pc = "credit" /\ j.pay = p
        /\ j.user = order[p].user /\ j.amount = order[p].credits
    BY <1>0, TaskFields, OrderFields DEF Steps
  <2>3. j.user \in Users /\ j.amount >= 0
    BY <1>0, <2>2, OrderFields DEF SafeInv, GroundInv, OrdersAreOwned
  <2>4. ~(order[p].channel # "wechat") \/ provider[p] = "paid"
    BY <1>0 DEF SafeInv, SettleInv, ConfirmsAreEarned, MarkPaymentPaid, At
  <2>5. provider[p] # "none"
    BY <1>0 DEF SafeInv, SettleInv, ConfirmsAreEarned, MarkPaymentPaid, At
  <2>6. credited[p] = 0 /\ \A g \in Handlers : ~Crediting(g, p)
    <3>1. credited[p] \in Nat /\ credited[p] <= 1 /\ credited[p] # 1
      BY <1>0, <1>2 DEF SafeInv, CreditInv, CreditedOnce, TypeOK
    <3>2. \A g \in Handlers : ~Crediting(g, p)
      BY <1>0, <1>2 DEF SafeInv, CreditInv, OneLicence
    <3> QED BY <3>1, <3>2
  <2> HIDE DEF j, p
  <2>7. /\ order' \in [Payments -> Order]
        /\ \A q \in Payments : /\ order'[q].status = IF q = p THEN "paid" ELSE order[q].status
                               /\ order'[q].user = order[q].user
                               /\ order'[q].channel = order[q].channel
    BY <1>0, <2>1, SetStatus DEF Statuses
  <2>8. /\ job' \in [Handlers -> Job]
        /\ \A g \in Handlers : job'[g] = IF g = h THEN j ELSE job[g]
    BY <2>1, <2>2, BecomeJob
  <2>9. TypeOK'
    BY <2>7, <2>8 DEF TypeOK, MarkPaymentPaid
  <2>10. GroundInv'
    BY <1>0, <2>2, <2>3, <2>7, <2>8 DEF SafeInv, GroundInv, JobsAreGrounded, OrdersAreOwned
  <2>11. NoOverdraft'
    BY DEF SafeInv, NoOverdraft, MarkPaymentPaid
  <2>12. CreditInv'
    BY <1>0, <1>2, <2>2, <2>6, <2>7, <2>8
       DEF SafeInv, CreditInv, CreditedOnce, OneLicence, Crediting, MarkPaymentPaid
  <2>13. OneCreator'
    BY <1>0, <2>2, <2>5, <2>7, <2>8 DEF SafeInv, SettleInv, OneCreator, Creating, MarkPaymentPaid
  <2>14. ConfirmsAreEarned'
    BY <2>2, <2>7, <2>8 DEF SafeInv, SettleInv, ConfirmsAreEarned, MarkPaymentPaid
  <2>15. UnborrowedOrders' /\ FailedOrderNeverCharged' /\ PaidMeansSettled'
    BY <1>0, <2>4, <2>7 DEF SafeInv, SettleInv, UnborrowedOrders, FailedOrderNeverCharged,
       PaidMeansSettled, MarkPaymentPaid
  <2> QED BY <2>9, <2>10, <2>11, <2>12, <2>13, <2>14, <2>15 DEF SafeInv, SettleInv
<1> QED BY <1>1, <1>2

LEMMA AtomicAddBalanceStep == ASSUME IInv, NEW h \in Handlers, AtomicAddBalance(h) PROVE IInv'
<1> USE DEF IInv
<1> DEFINE p == job[h].pay
           u == job[h].user
           b == credits[u] + job[h].amount
           j == Task("cache", p, u, job[h].amount, b)
<1>1. /\ job[h].pc = "credit" /\ p \in Payments \union {NoPay} /\ u \in Users
      /\ job[h].amount \in Int /\ job[h].amount >= 0
  BY JobFields DEF SafeInv, GroundInv, JobsAreGrounded, AtomicAddBalance, At
<1>2. b \in Int /\ b >= credits[u] /\ b >= 0
  BY <1>1 DEF TypeOK, SafeInv, NoOverdraft
<1>3. j \in Job /\ j.pc = "cache" /\ j.user = u
  BY <1>1, <1>2, TaskFields DEF Steps
<1>4. /\ Become(h, j)
      /\ credits' = [credits EXCEPT ![u] = b]
      /\ credited' = IF p = NoPay THEN credited ELSE [credited EXCEPT ![p] = @ + 1]
  BY DEF AtomicAddBalance
<1>5. p \in Payments =>
          /\ order[p].status = "paid" /\ credited[p] = 0
          /\ \A g \in Handlers : Crediting(g, p) => g = h
  BY <1>1 DEF SafeInv, CreditInv, OneLicence, Crediting
<1> HIDE DEF p, u, b, j
<1>6. /\ job' \in [Handlers -> Job]
      /\ \A g \in Handlers : job'[g] = IF g = h THEN j ELSE job[g]
  BY <1>3, <1>4, BecomeJob
<1>7. /\ credited' \in [Payments -> Nat]
      /\ \A q \in Payments : credited'[q] = IF q = p THEN credited[q] + 1 ELSE credited[q]
  BY <1>1, <1>4 DEF TypeOK
<1>8. TypeOK'
  BY <1>1, <1>2, <1>4, <1>6, <1>7 DEF TypeOK, AtomicAddBalance
<1>9. GroundInv'
  BY <1>1, <1>3, <1>6
     DEF SafeInv, GroundInv, JobsAreGrounded, OrdersAreOwned, AtomicAddBalance
<1>10. NoOverdraft'
  BY <1>1, <1>2, <1>4 DEF SafeInv, NoOverdraft, TypeOK
<1>11. CreditInv'
  <2>1. CreditedOnce'
    BY <1>5, <1>7 DEF SafeInv, CreditInv, CreditedOnce, TypeOK, AtomicAddBalance
  <2>2. OneLicence'
    BY <1>3, <1>5, <1>6, <1>7
       DEF SafeInv, CreditInv, OneLicence, Crediting, AtomicAddBalance
  <2> QED BY <2>1, <2>2 DEF CreditInv
<1>12. SettleInv'
  <2>1. OneCreator' /\ ConfirmsAreEarned'
    BY <1>3, <1>6
       DEF SafeInv, SettleInv, OneCreator, Creating, ConfirmsAreEarned, AtomicAddBalance
  <2> QED
    BY <2>1 DEF SafeInv, SettleInv, UnborrowedOrders, FailedOrderNeverCharged,
       PaidMeansSettled, AtomicAddBalance
<1> QED BY <1>8, <1>9, <1>10, <1>11, <1>12 DEF SafeInv

LEMMA AtomicDeductBalanceStep ==
    ASSUME IInv, NEW h \in Handlers, NEW u \in Users, NEW n \in Debits,
           AtomicDeductBalance(h, u, n)
    PROVE  IInv'
<1> USE DEF IInv
<1> DEFINE j == Task("cache", NoPay, u, -n, credits[u] - n)
<1>1. n \in Nat /\ credits[u] \in Int /\ credits[u] - n \in Int /\ credits[u] - n >= 0
  BY DEF AtomicDeductBalance, TypeOK
<1>2. j \in Job /\ j.pc = "cache" /\ j.user = u
  BY <1>1, TaskFields DEF Steps
<1>3. /\ Become(h, j)
      /\ credits' = [credits EXCEPT ![u] = credits[u] - n]
  BY DEF AtomicDeductBalance
<1> HIDE DEF j
<1>4. /\ job' \in [Handlers -> Job]
      /\ \A g \in Handlers : job'[g] = IF g = h THEN j ELSE job[g]
  BY <1>2, <1>3, BecomeJob
<1>5. TypeOK'
  BY <1>1, <1>3, <1>4 DEF TypeOK, AtomicDeductBalance
<1>6. GroundInv'
  BY <1>2, <1>4
     DEF SafeInv, GroundInv, JobsAreGrounded, OrdersAreOwned, AtomicDeductBalance
<1>7. NoOverdraft'
  BY <1>1, <1>3 DEF SafeInv, NoOverdraft, TypeOK
<1>8. CreditInv'
  BY <1>2, <1>4
     DEF SafeInv, CreditInv, CreditedOnce, OneLicence, Crediting, AtomicDeductBalance
<1>9. SettleInv'
  <2>1. OneCreator' /\ ConfirmsAreEarned'
    BY <1>2, <1>4
       DEF SafeInv, SettleInv, OneCreator, Creating, ConfirmsAreEarned, AtomicDeductBalance
  <2> QED
    BY <2>1 DEF SafeInv, SettleInv, UnborrowedOrders, FailedOrderNeverCharged,
       PaidMeansSettled, AtomicDeductBalance
<1> QED BY <1>5, <1>6, <1>7, <1>8, <1>9 DEF SafeInv

LEMMA CreatePaymentStep ==
    ASSUME IInv, NEW h \in Handlers, NEW p \in Payments, NEW u \in Users, NEW c \in Channels,
           NEW n \in TopUps, CreatePayment(h, p, u, c, n)
    PROVE  IInv'
<1> USE DEF IInv
<1> DEFINE j == Task("precreate", p, NoUser, 0, 0)
           o == [status |-> "pending", user |-> u, channel |-> c, credits |-> n, ref |-> FALSE]
<1>1. j \in Job /\ j.pc = "precreate" /\ j.pay = p
  BY TaskFields DEF Steps
<1>2. /\ o \in Order /\ o.status = "pending" /\ o.user = u
      /\ order[p].status = "none"
  BY DEF Order, Statuses, CreatePayment, NoOrder
<1>3. Become(h, j) /\ order' = [order EXCEPT ![p] = o]
  BY DEF CreatePayment, Serving
<1>4. provider[p] = "none"
  BY <1>2 DEF SafeInv, SettleInv, UnborrowedOrders
<1> HIDE DEF j, o
<1>5. /\ job' \in [Handlers -> Job]
      /\ \A g \in Handlers : job'[g] = IF g = h THEN j ELSE job[g]
  BY <1>1, <1>3, BecomeJob
<1>6. /\ order' \in [Payments -> Order]
      /\ \A q \in Payments : order'[q] = IF q = p THEN o ELSE order[q]
  BY <1>2, <1>3 DEF TypeOK
<1>7. TypeOK'
  BY <1>5, <1>6 DEF TypeOK, CreatePayment
<1>8. GroundInv'
  BY <1>1, <1>2, <1>5, <1>6 DEF SafeInv, GroundInv, JobsAreGrounded, OrdersAreOwned
<1>9. NoOverdraft'
  BY DEF SafeInv, NoOverdraft, CreatePayment
<1>10. CreditInv'
  <2>1. CreditedOnce'
    BY <1>2, <1>6 DEF SafeInv, CreditInv, CreditedOnce, CreatePayment
  <2>2. OneLicence'
    BY <1>1, <1>2, <1>5, <1>6 DEF SafeInv, CreditInv, OneLicence, Crediting, CreatePayment
  <2> QED BY <2>1, <2>2 DEF CreditInv
<1>11. OneCreator'
  BY <1>1, <1>2, <1>4, <1>5, <1>6 DEF SafeInv, SettleInv, OneCreator, Creating, CreatePayment
<1>12. ConfirmsAreEarned'
  BY <1>1, <1>4, <1>5, <1>6 DEF SafeInv, SettleInv, ConfirmsAreEarned, CreatePayment
<1>13. UnborrowedOrders' /\ FailedOrderNeverCharged' /\ PaidMeansSettled'
  BY <1>2, <1>4, <1>6 DEF SafeInv, SettleInv, UnborrowedOrders, FailedOrderNeverCharged,
     PaidMeansSettled, CreatePayment
<1> QED BY <1>7, <1>8, <1>9, <1>10, <1>11, <1>12, <1>13 DEF SafeInv, SettleInv

\* The provider's view of an order moves on, once the order is open.
LEMMA ProviderStep ==
    ASSUME IInv, NEW p \in Payments, NEW s \in {"paying", "paid"}, provider[p] # "none",
           provider[p] # "paid", provider' = [provider EXCEPT ![p] = s],
           UNCHANGED <<credits, order, credited>>,
           \A g \in Handlers : \/ job'[g] = job[g]
                               \/ /\ job'[g].pc \in {"idle", "lookup"}
                                  /\ job'[g].pay = p /\ s = "paid"
    PROVE  SafeInv'
<1> USE DEF IInv
<1>1. \A q \in Payments : provider'[q] = IF q = p THEN s ELSE provider[q]
  BY DEF TypeOK
<1>2. order[p].status # "none"
  BY DEF SafeInv, SettleInv, UnborrowedOrders
<1>3. JobsAreGrounded'
  BY <1>2 DEF SafeInv, GroundInv, JobsAreGrounded
<1>4. OrdersAreOwned' /\ NoOverdraft' /\ CreditedOnce'
  BY DEF SafeInv, GroundInv, OrdersAreOwned, NoOverdraft, CreditInv, CreditedOnce
<1>5. OneLicence'
  BY DEF SafeInv, CreditInv, OneLicence, Crediting
<1>6. OneCreator'
  BY <1>1 DEF SafeInv, SettleInv, OneCreator, Creating
<1>7. ConfirmsAreEarned'
  BY <1>1 DEF SafeInv, SettleInv, ConfirmsAreEarned
<1>8. UnborrowedOrders' /\ FailedOrderNeverCharged' /\ PaidMeansSettled'
  BY <1>1, <1>2 DEF SafeInv, SettleInv, UnborrowedOrders, FailedOrderNeverCharged,
     PaidMeansSettled
<1> QED BY <1>3, <1>4, <1>5, <1>6, <1>7, <1>8 DEF SafeInv, GroundInv, CreditInv, SettleInv

LEMMA UserStartsPayingStep ==
    ASSUME IInv, NEW p \in Payments, UserStartsPaying(p) PROVE IInv'
<1>1. TypeOK'
  BY DEF IInv, TypeOK, UserStartsPaying, ProviderStates
<1> QED BY <1>1, ProviderStep DEF IInv, UserStartsPaying

LEMMA ProviderSettlesStep ==
    ASSUME IInv, NEW p \in Payments, ProviderSettles(p) PROVE IInv'
<1>1. TypeOK'
  BY DEF IInv, TypeOK, ProviderSettles, ProviderStates
<1> QED BY <1>1, ProviderStep DEF IInv, ProviderSettles

LEMMA PayPalCaptureStep ==
    ASSUME IInv, NEW h \in Handlers, NEW p \in Payments, PayPalCapture(h, p) PROVE IInv'
<1> DEFINE j == Task("lookup", p, NoUser, 0, 0)
<1>1. j \in Job /\ j.pc = "lookup" /\ j.pay = p
  BY TaskFields DEF Steps
<1>2. Become(h, j)
  BY DEF PayPalCapture, Serving
<1> HIDE DEF j
<1>3. /\ job' \in [Handlers -> Job]
      /\ \A g \in Handlers : job'[g] = IF g = h THEN j ELSE job[g]
  BY <1>1, <1>2, BecomeJob DEF IInv
<1>4. TypeOK'
  BY <1>3 DEF IInv, TypeOK, PayPalCapture, ProviderStates
<1> QED BY <1>1, <1>3, <1>4, ProviderStep DEF IInv, PayPalCapture

----------------------------------------------------------------------------
(* The dispatcher and crashes.                                             *)

LEMMA DispatchStep ==
    ASSUME IInv, NEW r \in Replicas, Dispatch(r) \/ RecordFails(r) PROVE IInv'
<1> USE DEF IInv
<1>1. eventCh[r] \in Seq(Event) /\ eventCh[r] # << >>
  BY DEF TypeOK, Dispatch, RecordFails
<1>2. Head(eventCh[r]) \in Event /\ Tail(eventCh[r]) \in Seq(Event)
  BY <1>1
<1>3. Head(eventCh[r]).user \in Users /\ Head(eventCh[r]).amount \in Int
  BY <1>2 DEF Event
<1>4. eventCh' \in [Replicas -> Seq(Event)]
  <2>1. eventCh' = [eventCh EXCEPT ![r] = Tail(eventCh[r])]
    BY DEF Dispatch, RecordFails
  <2> QED BY <1>2, <2>1 DEF TypeOK
<1>5. ledger' \in [Users -> Int] /\ lossy' \in [Users -> BOOLEAN]
  <2> DEFINE e == Head(eventCh[r])
  <2>1. \/ ledger' = [ledger EXCEPT ![e.user] = ledger[e.user] + e.amount] /\ lossy' = lossy
        \/ lossy' = [lossy EXCEPT ![e.user] = TRUE] /\ ledger' = ledger
    BY DEF Dispatch, RecordFails
  <2>2. e.user \in Users /\ e.amount \in Int
    BY <1>3
  <2> HIDE DEF e
  <2>3. CASE ledger' = [ledger EXCEPT ![e.user] = ledger[e.user] + e.amount] /\ lossy' = lossy
    BY <2>2, <2>3 DEF TypeOK
  <2>4. CASE lossy' = [lossy EXCEPT ![e.user] = TRUE] /\ ledger' = ledger
    <3>1. lossy' \in [Users -> BOOLEAN]
      BY <2>2, <2>4, Zenon DEF TypeOK
    <3> QED BY <2>4, <3>1 DEF TypeOK
  <2> QED BY <2>1, <2>3, <2>4
<1>6. TypeOK'
  BY <1>4, <1>5 DEF TypeOK, Dispatch, RecordFails
<1>7. UNCHANGED <<credits, order, provider, credited, job>>
  BY DEF Dispatch, RecordFails
<1>8. SafeInv'
  BY <1>7 DEF SafeInv, GroundInv, JobsAreGrounded, OrdersAreOwned, NoOverdraft,
     CreditInv, CreditedOnce, OneLicence, Crediting, SettleInv, OneCreator, Creating,
     ConfirmsAreEarned, UnborrowedOrders, FailedOrderNeverCharged, PaidMeansSettled
<1> QED BY <1>6, <1>8

LEMMA CrashStep == ASSUME IInv, NEW r \in Replicas, Crash(r) PROVE IInv'
<1> USE DEF IInv
<1>1. /\ job' \in [Handlers -> Job]
      /\ \A g \in Handlers : job'[g] = job[g] \/ job'[g] = Idle
  BY IdleFields DEF TypeOK, Crash
<1>2. TypeOK'
  <2>1. cache' \in [Replicas -> [Users -> Int \union {NoCache}]]
    BY DEF TypeOK, Crash
  <2>2. eventCh' \in [Replicas -> Seq(Event)]
    <3>1. << >> \in Seq(Event)
      OBVIOUS
    <3> QED BY <3>1 DEF TypeOK, Crash
  <2>3. lossy' \in [Users -> BOOLEAN]
    BY DEF TypeOK, Crash
  <2> QED BY <1>1, <2>1, <2>2, <2>3 DEF TypeOK, Crash
<1>3. UNCHANGED <<credits, order, provider, credited>>
  BY DEF Crash
<1>4. JobsAreGrounded'
  BY <1>1, <1>3, IdleFields DEF SafeInv, GroundInv, JobsAreGrounded
<1>5. OneLicence'
  BY <1>1, <1>3, IdleFields DEF SafeInv, CreditInv, OneLicence, Crediting
<1>6. OneCreator'
  BY <1>1, <1>3, IdleFields DEF SafeInv, SettleInv, OneCreator, Creating
<1>7. ConfirmsAreEarned'
  BY <1>1, <1>3, IdleFields DEF SafeInv, SettleInv, ConfirmsAreEarned
<1>8. SafeInv'
  BY <1>3, <1>4, <1>5, <1>6, <1>7 DEF SafeInv, GroundInv, OrdersAreOwned, NoOverdraft,
     CreditInv, CreditedOnce, SettleInv, UnborrowedOrders, FailedOrderNeverCharged,
     PaidMeansSettled
<1> QED BY <1>2, <1>8

----------------------------------------------------------------------------
LEMMA StutterStep == ASSUME IInv, UNCHANGED vars PROVE IInv'
<1>1. TypeOK'
  BY DEF IInv, TypeOK, vars
<1>2. SafeInv'
  BY DEF IInv, vars, SafeInv, GroundInv, JobsAreGrounded, OrdersAreOwned, NoOverdraft,
     CreditInv, CreditedOnce, OneLicence, Crediting, SettleInv, OneCreator, Creating,
     ConfirmsAreEarned, UnborrowedOrders, FailedOrderNeverCharged, PaidMeansSettled
<1> QED BY <1>1, <1>2 DEF IInv

LEMMA StepIInv == ASSUME IInv, [Next]_vars PROVE IInv'
<1>1. CASE UNCHANGED vars
  BY <1>1, StutterStep
<1>2. CASE Next
  BY <1>2, NextCases, PrecreateStep, MarkPaymentFailedStep, UpdatePaymentProviderStep,
     PayPalLookupStep, MarkPaymentPaidStep, AtomicAddBalanceStep, SetBalanceCacheStep,
     PublishStep, LoadOrStoreStep, StatementFailsStep, CreatePaymentStep, NotificationStep,
     PayPalCaptureStep, RechargeStep, AtomicDeductBalanceStep, GetBalanceStep,
     UserStartsPayingStep, ProviderSettlesStep, DispatchStep, CrashStep, Zenon
<1> QED BY <1>1, <1>2

\* Every reachable state satisfies the inductive invariant.
THEOREM Invariance == Spec => []IInv
<1>1. Init => IInv
  BY InitIInv
<1>2. IInv /\ [Next]_vars => IInv'
  BY StepIInv
<1> QED BY <1>1, <1>2, PTL DEF Spec

\* The tables, the caches, the channels and the handlers' tasks keep their
\* shape, whatever handlers, replicas and faults do.
THEOREM TypeCorrect == Spec => []TypeOK
<1>1. IInv => TypeOK
  BY DEF IInv
<1> QED BY <1>1, Invariance, PTL

\* ConfirmPayment credits an order at most once, for any number of racing
\* notifications, polls and captures on any number of crashing replicas.
THEOREM CreditsAtMostOnce == Spec => []CreditedOnce
<1>1. IInv => CreditedOnce
  BY DEF IInv, SafeInv, CreditInv
<1> QED BY <1>1, Invariance, PTL

\* Deduct never overdraws an account, for any number of concurrent callers.
THEOREM BalancesStayNonNegative == Spec => []NoOverdraft
<1>1. IInv => NoOverdraft
  BY DEF IInv, SafeInv
<1> QED BY <1>1, Invariance, PTL

\* An order recorded as failed is one nobody can have paid.
THEOREM FailedOrdersAreUnpaid == Spec => []FailedOrderNeverCharged
<1>1. IInv => FailedOrderNeverCharged
  BY DEF IInv, SafeInv, SettleInv
<1> QED BY <1>1, Invariance, PTL

\* Outside WeChat, an order recorded as paid is settled at the provider.
THEOREM PaidOrdersAreSettled == Spec => []PaidMeansSettled
<1>1. IInv => PaidMeansSettled
  BY DEF IInv, SafeInv, SettleInv
<1> QED BY <1>1, Invariance, PTL

----------------------------------------------------------------------------
(* The handlers implement the accounts of TopUpAccounts.  The mapping is    *)
(* the one of Accounts: an order's stage is read off its row, its history   *)
(* and the handlers that are about to credit it.                            *)

\* A handler about to add credits adds an order's own, or a recharge.
CreditsAreOwn ==
    \A h \in Handlers : At(h, "credit") =>
        IF job[h].pay \in Payments
        THEN job[h].user = order[job[h].pay].user /\ job[h].amount = order[job[h].pay].credits
        ELSE job[h].amount \in Recharges

Crediters(p) == \E h \in Handlers : Crediting(h, p)

\* The same order, but for whether its provider id is stored.
SameRow(p) ==
    /\ order'[p].status = order[p].status
    /\ order'[p].user = order[p].user
    /\ order'[p].credits = order[p].credits

\* A task that adds nothing of an order.
Recharging(j) == j.pc = "credit" => j.pay \notin Payments /\ j.amount \in Recharges

\* A step that no account notices.
Unnoticed ==
    /\ UNCHANGED <<credits, credited>>
    /\ \A p \in Payments : SameRow(p)
    /\ \A h \in Handlers : \/ job'[h] = job[h]
                           \/ Recharging(job[h]) /\ Recharging(job'[h])

\* What the stage of an order says of its row, its history and the handlers.
LEMMA StageIs ==
    ASSUME IInv, NEW p \in Payments
    PROVE  /\ order[p].status # "paid" => Stage(p) = order[p].status
           /\ order[p].status = "paid" /\ credited[p] > 0 => Stage(p) = "booked"
           /\ order[p].status = "paid" /\ credited[p] = 0 /\ Crediters(p) => Stage(p) = "due"
           /\ order[p].status = "paid" /\ credited[p] = 0 /\ ~Crediters(p) => Stage(p) = "lost"
<1>1. credited[p] \in Nat /\ (credited[p] > 0 => order[p].status = "paid")
  BY DEF IInv, TypeOK, SafeInv, CreditInv, CreditedOnce
<1>2. Crediters(p) => order[p].status = "paid"
  BY DEF IInv, SafeInv, CreditInv, OneLicence, Crediters
<1> QED BY <1>1, <1>2 DEF Stage, Crediters, Crediting, At

\* The same after the step.
LEMMA StageBecomes ==
    ASSUME IInv', NEW p \in Payments
    PROVE  /\ order'[p].status # "paid" => Stage(p)' = order'[p].status
           /\ order'[p].status = "paid" /\ credited'[p] > 0 => Stage(p)' = "booked"
           /\ order'[p].status = "paid" /\ credited'[p] = 0 /\ Crediters(p)' => Stage(p)' = "due"
           /\ order'[p].status = "paid" /\ credited'[p] = 0 /\ ~Crediters(p)' => Stage(p)' = "lost"
<1>1. credited'[p] \in Nat /\ (credited'[p] > 0 => order'[p].status = "paid")
  BY DEF IInv, TypeOK, SafeInv, CreditInv, CreditedOnce
<1>2. Crediters(p)' => order'[p].status = "paid"
  BY DEF IInv, SafeInv, CreditInv, OneLicence, Crediters
<1> QED BY <1>1, <1>2 DEF Stage, Crediters, Crediting, At

\* An order keeps its stage unless its status, its history or its crediters move.
LEMMA SameStage ==
    ASSUME IInv, IInv', NEW p \in Payments, order'[p].status = order[p].status,
           credited'[p] = credited[p], Crediters(p)' <=> Crediters(p)
    PROVE  Stage(p)' = Stage(p)
<1>1. credited[p] \in Nat
  BY DEF IInv, TypeOK
<1> QED BY <1>1, StageIs, StageBecomes

LEMMA UnnoticedStutters ==
    ASSUME IInv, IInv', Unnoticed
    PROVE  UNCHANGED Accounts!accountVars
<1>1. \A p \in Payments : Stage(p)' = Stage(p)
  <2> SUFFICES ASSUME NEW p \in Payments PROVE Stage(p)' = Stage(p)
    OBVIOUS
  <2>1. Crediters(p)' <=> Crediters(p)
    BY DEF Unnoticed, Recharging, Crediters, Crediting
  <2> QED BY <2>1, SameStage DEF Unnoticed, SameRow
<1>2. \A p \in Payments : order'[p].user = order[p].user /\ order'[p].credits = order[p].credits
  BY DEF Unnoticed, SameRow
<1> QED BY <1>1, <1>2 DEF Accounts!accountVars, Unnoticed

LEMMA UnnoticedOwns ==
    ASSUME IInv, CreditsAreOwn, Unnoticed
    PROVE  CreditsAreOwn'
<1> SUFFICES ASSUME NEW h \in Handlers, job'[h].pc = "credit"
             PROVE  IF job'[h].pay \in Payments
                    THEN /\ job'[h].user = order'[job'[h].pay].user
                         /\ job'[h].amount = order'[job'[h].pay].credits
                    ELSE job'[h].amount \in Recharges
  BY DEF CreditsAreOwn, At
<1>1. CASE job'[h] = job[h]
  BY <1>1 DEF CreditsAreOwn, At, Unnoticed, SameRow
<1>2. CASE Recharging(job'[h])
  BY <1>2 DEF Recharging
<1> QED BY <1>1, <1>2 DEF Unnoticed

\* A handler takes on a task that adds nothing of an order.
LEMMA TaskUnnoticed ==
    ASSUME IInv, NEW h \in Handlers, NEW j \in Job, Become(h, j), Recharging(job[h]), Recharging(j),
           UNCHANGED <<credits, credited>>, \A p \in Payments : SameRow(p)
    PROVE  Unnoticed
<1>1. \A g \in Handlers : job'[g] = IF g = h THEN j ELSE job[g]
  BY BecomeJob DEF IInv
<1> QED BY <1>1 DEF Unnoticed

\* Whom the accounts take no notice of.
QuietStep(h) ==
    \/ Precreate(h) \/ UpdatePaymentProvider(h) \/ PayPalLookup(h)
    \/ SetBalanceCache(h) \/ Publish(h) \/ LoadOrStore(h)
    \/ \E p \in Payments : AlipayCallback(h, p) \/ WechatCallback(h, p) \/ GetOrder(h, p)
                           \/ PayPalCapture(h, p)
    \/ \E u \in Users : GetBalance(h, u) \/ \E n \in Recharges : Recharge(h, u, n)

LEMMA QuietStepUnnoticed ==
    ASSUME IInv, NEW h \in Handlers, QuietStep(h)
    PROVE  Unnoticed
<1> USE DEF Recharging, At
<1>1. ASSUME NEW s \in Steps, s # "credit", NEW p \in Payments \union {NoPay}, Serving(h, s, p),
             job[h].pc # "credit", UNCHANGED <<credits, credited, order>>
      PROVE  Unnoticed
  <2> DEFINE j == Task(s, p, NoUser, 0, 0)
  <2>1. j \in Job /\ j.pc = s
    BY TaskFields
  <2> HIDE DEF j
  <2>2. Become(h, j)
    BY <1>1 DEF Serving, j
  <2> QED BY <1>1, <2>1, <2>2, TaskUnnoticed DEF SameRow
<1>2. ASSUME Done(h), job[h].pc # "credit", UNCHANGED <<credits, credited>>,
             \A p \in Payments : SameRow(p)
      PROVE  Unnoticed
  BY <1>2, IdleFields, TaskUnnoticed DEF Done
<1>3. /\ job[h].pay \in Payments \union {NoPay} /\ job[h].user \in Users \union {NoUser}
      /\ job[h].amount \in Int /\ job[h].balance \in Int
      /\ \A u \in Users : credits[u] \in Int
  BY JobFields DEF IInv, TypeOK
<1>4. CASE Precreate(h)
  BY <1>1, <1>2, <1>3, <1>4 DEF Precreate, SameRow, Steps
<1>5. CASE UpdatePaymentProvider(h)
  <2>1. \A p \in Payments : SameRow(p)
    BY <1>5 DEF UpdatePaymentProvider, SameRow, IInv, TypeOK, Order
  <2> QED BY <1>2, <1>5, <2>1 DEF UpdatePaymentProvider
<1>6. CASE PayPalLookup(h)
  BY <1>1, <1>2, <1>3, <1>6 DEF PayPalLookup, SameRow, Steps
<1>7. CASE SetBalanceCache(h)
  <2> DEFINE j == Task("publish", job[h].pay, job[h].user, job[h].amount, job[h].balance)
  <2>1. j \in Job /\ j.pc = "publish"
    BY <1>3, TaskFields DEF Steps
  <2> HIDE DEF j
  <2>2. Become(h, j) /\ UNCHANGED <<credits, credited, order>> /\ job[h].pc # "credit"
    BY <1>7 DEF SetBalanceCache, j
  <2> QED BY <2>1, <2>2, TaskUnnoticed DEF SameRow
<1>8. CASE Publish(h) \/ LoadOrStore(h)
  BY <1>2, <1>8 DEF Publish, LoadOrStore, SameRow
<1>9. ASSUME NEW p \in Payments,
             AlipayCallback(h, p) \/ WechatCallback(h, p) \/ GetOrder(h, p) \/ PayPalCapture(h, p)
      PROVE  Unnoticed
  BY <1>1, <1>9 DEF AlipayCallback, WechatCallback, GetOrder, PayPalCapture, Steps
<1>10. ASSUME NEW u \in Users, GetBalance(h, u) PROVE Unnoticed
  <2> DEFINE j == Task("load", NoPay, u, 0, credits[u])
  <2>1. j \in Job /\ j.pc = "load"
    BY <1>3, TaskFields DEF Steps
  <2> HIDE DEF j
  <2>2. Become(h, j) /\ UNCHANGED <<credits, credited, order>> /\ job[h].pc # "credit"
    BY <1>10 DEF GetBalance, j
  <2> QED BY <2>1, <2>2, TaskUnnoticed DEF SameRow
<1>11. ASSUME NEW u \in Users, NEW n \in Recharges, Recharge(h, u, n) PROVE Unnoticed
  <2> DEFINE j == Task("credit", NoPay, u, n, 0)
  <2>1. j \in Job /\ j.pay = NoPay /\ j.amount = n
    BY TaskFields DEF Steps
  <2> HIDE DEF j
  <2>2. Become(h, j) /\ UNCHANGED <<credits, credited, order>> /\ job[h].pc # "credit"
    BY <1>11 DEF Recharge, j
  <2> QED BY <2>1, <2>2, TaskUnnoticed DEF SameRow
<1> QED BY <1>4, <1>5, <1>6, <1>7, <1>8, <1>9, <1>10, <1>11 DEF QuietStep

\* So does what happens to providers and channels.
LEMMA OutsideUnnoticed ==
    ASSUME IInv,
           \/ \E p \in Payments : UserStartsPaying(p) \/ ProviderSettles(p)
           \/ \E r \in Replicas : Dispatch(r) \/ RecordFails(r)
           \/ UNCHANGED vars
    PROVE  Unnoticed
<1>1. UNCHANGED <<credits, credited, order, job>>
  BY DEF UserStartsPaying, ProviderSettles, Dispatch, RecordFails, vars
<1> QED BY <1>1 DEF Unnoticed, SameRow

\* An order's stage moves and everybody else's stays.
LEMMA Moved ==
    ASSUME NEW p \in Payments, NEW s, Stage(p)' = s,
           \A q \in Payments \ {p} : Stage(q)' = Stage(q)
    PROVE  [q \in Payments |-> Stage(q)'] = [[q \in Payments |-> Stage(q)] EXCEPT ![p] = s]
OBVIOUS

\* CreatePayment opens the order for its user.
LEMMA CreateOpens ==
    ASSUME IInv, IInv', CreditsAreOwn, NEW h \in Handlers, NEW p \in Payments, NEW u \in Users,
           NEW c \in Channels, NEW n \in TopUps, CreatePayment(h, p, u, c, n)
    PROVE  Accounts!Open(p, u, n) /\ CreditsAreOwn'
<1> DEFINE j == Task("precreate", p, NoUser, 0, 0)
           o == [status |-> "pending", user |-> u, channel |-> c, credits |-> n, ref |-> FALSE]
<1>1. j \in Job /\ j.pc = "precreate"
  BY TaskFields DEF Steps
<1>2. /\ o.status = "pending" /\ o.user = u /\ o.credits = n
      /\ order[p].status = "none" /\ job[h].pc # "credit"
      /\ UNCHANGED <<credits, credited>>
  BY DEF CreatePayment, NoOrder, At
<1>3. Become(h, j) /\ order' = [order EXCEPT ![p] = o]
  BY DEF CreatePayment, Serving
<1> HIDE DEF j, o
<1>4. \A g \in Handlers : job'[g] = IF g = h THEN j ELSE job[g]
  BY <1>1, <1>3, BecomeJob DEF IInv
<1>5. \A q \in Payments : order'[q] = IF q = p THEN o ELSE order[q]
  BY <1>3 DEF IInv, TypeOK
<1>6. \A q \in Payments : Crediters(q)' <=> Crediters(q)
  BY <1>1, <1>2, <1>4 DEF Crediters, Crediting
<1>7. \A q \in Payments \ {p} : Stage(q)' = Stage(q)
  BY <1>2, <1>5, <1>6, SameStage
<1>8. Stage(p) = "none" /\ Stage(p)' = "pending"
  BY <1>2, <1>5, StageIs, StageBecomes
<1>9. CreditsAreOwn'
  <2> SUFFICES ASSUME NEW g \in Handlers, job'[g].pc = "credit"
               PROVE  IF job'[g].pay \in Payments
                      THEN /\ job'[g].user = order'[job'[g].pay].user
                           /\ job'[g].amount = order'[job'[g].pay].credits
                      ELSE job'[g].amount \in Recharges
    BY DEF CreditsAreOwn, At
  <2>1. job'[g] = job[g]
    BY <1>1, <1>4
  <2>2. job[g].pay # p
    BY <1>2, <2>1 DEF IInv, SafeInv, CreditInv, OneLicence, Crediting
  <2> QED BY <1>5, <2>1, <2>2 DEF CreditsAreOwn, At
<1>10. [q \in Payments |-> order'[q].user] = [[q \in Payments |-> order[q].user] EXCEPT ![p] = u]
  BY <1>2, <1>5
<1>11. [q \in Payments |-> order'[q].credits] = [[q \in Payments |-> order[q].credits] EXCEPT ![p] = n]
  BY <1>2, <1>5
<1> QED BY <1>2, <1>7, <1>8, <1>9, <1>10, <1>11, Moved DEF Accounts!Open, Accounts!Moves

\* MarkPaymentFailed refuses the order its handler created.
LEMMA MarkFailedRefuses ==
    ASSUME IInv, IInv', CreditsAreOwn, NEW h \in Handlers, MarkPaymentFailed(h)
    PROVE  /\ (\E p \in Payments : Accounts!Refuse(p)) \/ UNCHANGED Accounts!accountVars
           /\ CreditsAreOwn'
<1>1. /\ \A g \in Handlers : job'[g] = IF g = h THEN Idle ELSE job[g]
      /\ job[h].pc # "credit" /\ Idle.pc = "idle"
  BY IdleFields, BecomeJob DEF MarkPaymentFailed, Done, IInv, At
<1>2. PICK p \in Payments : p = job[h].pay /\ order[p].status = "pending"
  BY DEF MarkPaymentFailed, At, IInv, SafeInv, GroundInv, JobsAreGrounded, SettleInv,
         OneCreator, Creating
<1>3. order' = [order EXCEPT ![p].status = "failed"] /\ UNCHANGED <<credits, credited>>
  BY <1>2 DEF MarkPaymentFailed
<1>4. \A q \in Payments : /\ order'[q].status = IF q = p THEN "failed" ELSE order[q].status
                          /\ order'[q].user = order[q].user /\ order'[q].credits = order[q].credits
  BY <1>2, <1>3 DEF IInv, TypeOK, Order
<1>5. \A q \in Payments : Crediters(q)' <=> Crediters(q)
  BY <1>1 DEF Crediters, Crediting
<1>6. \A q \in Payments \ {p} : Stage(q)' = Stage(q)
  BY <1>3, <1>4, <1>5, SameStage
<1>7. Stage(p) = "pending" /\ Stage(p)' = "failed"
  BY <1>2, <1>4, StageIs, StageBecomes
<1>8. CreditsAreOwn'
  BY <1>1, <1>4 DEF CreditsAreOwn, At
<1>9. Accounts!Refuse(p)
  BY <1>2, <1>3, <1>4, <1>6, <1>7, Moved DEF Accounts!Refuse, Accounts!Moves
<1> QED BY <1>2, <1>8, <1>9

\* The conditional UPDATE settles a pending order and is nothing to the accounts
\* otherwise.
LEMMA MarkPaidSettles ==
    ASSUME IInv, IInv', CreditsAreOwn, NEW h \in Handlers, MarkPaymentPaid(h)
    PROVE  /\ (\E p \in Payments : Accounts!Settle(p)) \/ UNCHANGED Accounts!accountVars
           /\ CreditsAreOwn'
<1>1. PICK p \in Payments : p = job[h].pay /\ job[h].pc = "confirm" /\ UNCHANGED <<credits, credited>>
  BY DEF MarkPaymentPaid, At, IInv, SafeInv, GroundInv, JobsAreGrounded
<1>2. CASE order[p].status = "pending"
  <2> DEFINE j == Task("credit", p, order[p].user, order[p].credits, 0)
  <2>1. Become(h, j) /\ order' = [order EXCEPT ![p].status = "paid"]
    BY <1>1, <1>2 DEF MarkPaymentPaid
  <2>2. j \in Job /\ j.pc = "credit" /\ j.pay = p /\ j.user = order[p].user /\ j.amount = order[p].credits
    BY <1>1, TaskFields, OrderFields DEF Steps, IInv
  <2> HIDE DEF j
  <2>3. \A g \in Handlers : job'[g] = IF g = h THEN j ELSE job[g]
    BY <2>1, <2>2, BecomeJob DEF IInv
  <2>4. \A q \in Payments : /\ order'[q].status = IF q = p THEN "paid" ELSE order[q].status
                            /\ order'[q].user = order[q].user /\ order'[q].credits = order[q].credits
    BY <1>1, <2>1 DEF IInv, TypeOK, Order
  <2>5. \A q \in Payments \ {p} : Crediters(q)' <=> Crediters(q)
    BY <1>1, <2>2, <2>3 DEF Crediters, Crediting
  <2>6. Crediters(p)'
    BY <2>2, <2>3 DEF Crediters, Crediting
  <2>7. \A q \in Payments \ {p} : Stage(q)' = Stage(q)
    BY <1>1, <2>4, <2>5, SameStage
  <2>8. credited'[p] = 0
    <3>1. credited[p] \in Nat
      BY DEF IInv, TypeOK
    <3>2. credited[p] <= 1 /\ credited[p] # 1
      BY <1>2 DEF IInv, SafeInv, CreditInv, CreditedOnce
    <3> QED BY <1>1, <3>1, <3>2
  <2>9. Stage(p) = "pending" /\ Stage(p)' = "due"
    BY <1>1, <1>2, <2>4, <2>6, <2>8, StageIs, StageBecomes
  <2>10. CreditsAreOwn'
    BY <1>1, <2>2, <2>3, <2>4 DEF CreditsAreOwn, At
  <2>11. Accounts!Settle(p)
    BY <1>1, <2>4, <2>7, <2>9, Moved DEF Accounts!Settle, Accounts!Moves
  <2> QED BY <1>1, <2>10, <2>11
<1>3. CASE order[p].status # "pending"
  <2>1. Done(h) /\ UNCHANGED order
    BY <1>1, <1>3 DEF MarkPaymentPaid
  <2>2. Unnoticed
    BY <1>1, <2>1, IdleFields, TaskUnnoticed DEF Done, Recharging, SameRow
  <2> QED BY <2>2, UnnoticedStutters, UnnoticedOwns
<1> QED BY <1>2, <1>3

\* AddCredits books the order whole to its own user, or an administrator's recharge.
LEMMA AddBooks ==
    ASSUME IInv, IInv', CreditsAreOwn, NEW h \in Handlers, AtomicAddBalance(h)
    PROVE  /\ \/ \E p \in Payments : Accounts!Book(p)
              \/ \E u \in Users, n \in Recharges : Accounts!Change(u, n)
           /\ CreditsAreOwn'
<1>1. PICK u \in Users, n \in Int, p \in Payments \union {NoPay} :
          /\ job[h].pc = "credit" /\ u = job[h].user /\ n = job[h].amount /\ p = job[h].pay
  BY JobFields DEF AtomicAddBalance, At, IInv, SafeInv, GroundInv, JobsAreGrounded
<1> DEFINE j == Task("cache", p, u, n, credits[u] + n)
<1>2. /\ credits' = [credits EXCEPT ![u] = credits[u] + n]
      /\ Become(h, j) /\ order' = order
      /\ credited' = IF p = NoPay THEN credited ELSE [credited EXCEPT ![p] = credited[p] + 1]
  BY <1>1 DEF AtomicAddBalance
<1>3. credits \in [Users -> Int] /\ credited \in [Payments -> Nat]
  BY DEF IInv, TypeOK
<1>4. j \in Job /\ j.pc = "cache"
  BY <1>3, TaskFields DEF Steps
<1> HIDE DEF j
<1>5. \A g \in Handlers : job'[g] = IF g = h THEN j ELSE job[g]
  BY <1>2, <1>4, BecomeJob DEF IInv
<1>6. CreditsAreOwn'
  BY <1>2, <1>4, <1>5 DEF CreditsAreOwn, At
<1>7. CASE p = NoPay
  <2>0. job[h].pay \notin Payments
    BY <1>1, <1>7
  <2>1. n \in Recharges
    BY <1>1, <2>0 DEF CreditsAreOwn, At
  <2>2. credits[u] >= 0
    BY DEF IInv, SafeInv, NoOverdraft
  <2>3. \A q \in Payments : Crediters(q)' <=> Crediters(q)
    BY <1>1, <1>4, <1>5, <1>7 DEF Crediters, Crediting
  <2>4. \A q \in Payments : Stage(q)' = Stage(q)
    BY <1>2, <1>7, <2>3, SameStage
  <2>5. credits[u] + n >= 0
    <3>1. n \in Nat /\ credits[u] \in Int
      BY <1>3, <2>1
    <3> QED BY <2>2, <3>1
  <2>6. Accounts!Change(u, n)
    BY <1>2, <2>4, <2>5 DEF Accounts!Change
  <2> QED BY <1>6, <2>1, <2>6
<1>8. CASE p \in Payments
  <2>1. /\ u = order[p].user /\ n = order[p].credits
        /\ order[p].status = "paid" /\ credited[p] = 0 /\ Crediters(p)
        /\ \A g \in Handlers : Crediting(g, p) => g = h
    BY <1>1, <1>8 DEF CreditsAreOwn, At, IInv, SafeInv, CreditInv, OneLicence, Crediting, Crediters
  <2>2. credited' = [credited EXCEPT ![p] = 1]
    BY <1>2, <1>8, <2>1
  <2>3. \A q \in Payments \ {p} : Crediters(q)' <=> Crediters(q)
    BY <1>1, <1>4, <1>5 DEF Crediters, Crediting
  <2>4. \A q \in Payments \ {p} : Stage(q)' = Stage(q)
    BY <1>2, <1>3, <2>2, <2>3, SameStage
  <2>5. Stage(p) = "due" /\ Stage(p)' = "booked"
    <3>1. credited'[p] = 1 /\ order'[p].status = "paid"
      BY <1>2, <1>3, <1>8, <2>1, <2>2
    <3> QED BY <1>8, <2>1, <3>1, StageIs, StageBecomes
  <2>6. Accounts!Book(p)
    BY <1>2, <1>8, <2>1, <2>4, <2>5, Moved DEF Accounts!Book, Accounts!Moves
  <2> QED BY <1>6, <1>8, <2>6
<1> QED BY <1>7, <1>8

\* A deduction changes one balance by what it asked for, and fits.
LEMMA DeductChanges ==
    ASSUME IInv, IInv', CreditsAreOwn, NEW h \in Handlers, NEW u \in Users, NEW n \in Debits,
           AtomicDeductBalance(h, u, n)
    PROVE  Accounts!Change(u, -n) /\ CreditsAreOwn'
<1> DEFINE j == Task("cache", NoPay, u, -n, credits[u] - n)
<1>1. credits[u] \in Int /\ n \in Int /\ -n \in Int /\ credits[u] - n = credits[u] + (-n)
  BY DEF IInv, TypeOK
<1>2. /\ credits' = [credits EXCEPT ![u] = credits[u] - n] /\ credits[u] >= n
      /\ Become(h, j) /\ order' = order /\ credited' = credited /\ job[h].pc # "credit"
  BY DEF AtomicDeductBalance, At
<1>3. j \in Job /\ j.pc = "cache"
  BY <1>1, TaskFields DEF Steps
<1> HIDE DEF j
<1>4. \A g \in Handlers : job'[g] = IF g = h THEN j ELSE job[g]
  BY <1>2, <1>3, BecomeJob DEF IInv
<1>5. \A q \in Payments : Crediters(q)' <=> Crediters(q)
  BY <1>2, <1>3, <1>4 DEF Crediters, Crediting
<1>6. \A q \in Payments : Stage(q)' = Stage(q)
  BY <1>2, <1>5, SameStage
<1>7. CreditsAreOwn'
  BY <1>2, <1>3, <1>4 DEF CreditsAreOwn, At
<1>8. credits[u] + (-n) >= 0
  <2>1. credits[u] - n >= 0
    BY <1>1, <1>2
  <2> QED BY <1>1, <2>1
<1>9. credits' = [credits EXCEPT ![u] = credits[u] + (-n)]
  BY <1>1, <1>2
<1> QED BY <1>2, <1>6, <1>7, <1>8, <1>9 DEF Accounts!Change

\* Handlers that go away lose the orders they were about to book.
LEMMA GoneLose ==
    ASSUME IInv, IInv', CreditsAreOwn, \A h \in Handlers : job'[h] = job[h] \/ job'[h].pc # "credit",
           UNCHANGED <<credits, order, credited>>
    PROVE  /\ (\E S \in SUBSET Payments : Accounts!Lose(S)) \/ UNCHANGED Accounts!accountVars
           /\ CreditsAreOwn'
<1> DEFINE S == {p \in Payments : Crediters(p) /\ ~Crediters(p)'}
<1>1. CreditsAreOwn'
  BY DEF CreditsAreOwn, At
<1>2. \A p \in Payments : Crediters(p)' => Crediters(p)
  BY DEF Crediters, Crediting
<1>3. \A p \in Payments \ S : Stage(p)' = Stage(p)
  BY <1>2, SameStage
<1>4. \A p \in S : Stage(p) = "due" /\ Stage(p)' = "lost"
  <2> SUFFICES ASSUME NEW p \in Payments, Crediters(p), ~Crediters(p)'
               PROVE  Stage(p) = "due" /\ Stage(p)' = "lost"
    OBVIOUS
  <2>1. order[p].status = "paid" /\ credited[p] = 0
    BY DEF IInv, SafeInv, CreditInv, OneLicence, Crediters
  <2> QED BY <2>1, StageIs, StageBecomes
<1>5. S \in SUBSET Payments
  OBVIOUS
<1> HIDE DEF S
<1>6. CASE S = {}
  <2>1. \A p \in Payments : Stage(p)' = Stage(p)
    BY <1>3, <1>6
  <2> QED BY <1>1, <2>1 DEF Accounts!accountVars
<1>7. CASE S # {}
  <2>1. [p \in Payments |-> Stage(p)'] =
            [p \in Payments |-> IF p \in S THEN "lost" ELSE [q \in Payments |-> Stage(q)][p]]
    BY <1>3, <1>4
  <2>2. \A p \in S : [q \in Payments |-> Stage(q)][p] = "due"
    BY <1>4, <1>5
  <2>3. Accounts!Lose(S)
    BY <1>7, <2>1, <2>2 DEF Accounts!Lose
  <2> QED BY <1>1, <1>5, <2>3
<1> QED BY <1>6, <1>7

\* A failed statement or a crash loses what was due on it, and nothing else.
LEMMA FaultLoses ==
    ASSUME IInv, IInv', CreditsAreOwn,
           (\E h \in Handlers : StatementFails(h)) \/ (\E r \in Replicas : Crash(r))
    PROVE  /\ (\E S \in SUBSET Payments : Accounts!Lose(S)) \/ UNCHANGED Accounts!accountVars
           /\ CreditsAreOwn'
<1>1. \A g \in Handlers : job'[g] = job[g] \/ job'[g].pc # "credit"
  <2>1. ASSUME NEW h \in Handlers, StatementFails(h)
        PROVE  \A g \in Handlers : job'[g] = job[g] \/ job'[g].pc # "credit"
    BY <2>1, IdleFields, BecomeJob DEF StatementFails, Done, IInv
  <2>2. ASSUME NEW r \in Replicas, Crash(r)
        PROVE  \A g \in Handlers : job'[g] = job[g] \/ job'[g].pc # "credit"
    BY <2>2, IdleFields DEF Crash
  <2> QED BY <2>1, <2>2
<1>2. UNCHANGED <<credits, order, credited>>
  BY DEF StatementFails, Crash
<1> QED BY <1>1, <1>2, GoneLose

LEMMA InitAccounts == ASSUME Init PROVE Accounts!AccountInit /\ CreditsAreOwn
<1>1. \A p \in Payments : order[p] = NoOrder
  BY DEF Init
<1>2. \A p \in Payments : Stage(p) = "none"
  BY <1>1, InitIInv, StageIs DEF NoOrder
<1>3. \A h \in Handlers : job[h].pc # "credit"
  BY IdleFields DEF Init
<1> QED BY <1>1, <1>2, <1>3 DEF Init, NoOrder, Accounts!AccountInit, CreditsAreOwn, At

\* Every step maps to a step of the accounts or a stutter.
LEMMA StepAccounts ==
    ASSUME IInv, IInv', CreditsAreOwn, [Next]_vars
    PROVE  [Accounts!AccountNext]_Accounts!accountVars /\ CreditsAreOwn'
<1>1. ASSUME Unnoticed PROVE [Accounts!AccountNext]_Accounts!accountVars /\ CreditsAreOwn'
  BY <1>1, UnnoticedStutters, UnnoticedOwns
<1>2. CASE (\E h \in Handlers : QuietStep(h))
  BY <1>1, <1>2, QuietStepUnnoticed
<1>3. CASE \/ \E p \in Payments : UserStartsPaying(p) \/ ProviderSettles(p)
           \/ \E r \in Replicas : Dispatch(r) \/ RecordFails(r)
           \/ UNCHANGED vars
  BY <1>1, <1>3, OutsideUnnoticed
<1>4. CASE (\E h \in Handlers : StatementFails(h)) \/ (\E r \in Replicas : Crash(r))
  BY <1>4, FaultLoses DEF Accounts!AccountNext
<1>5. ASSUME NEW h \in Handlers, MarkPaymentFailed(h) \/ MarkPaymentPaid(h)
      PROVE  [Accounts!AccountNext]_Accounts!accountVars /\ CreditsAreOwn'
  BY <1>5, MarkFailedRefuses, MarkPaidSettles DEF Accounts!AccountNext
<1>6. ASSUME NEW h \in Handlers, AtomicAddBalance(h)
      PROVE  [Accounts!AccountNext]_Accounts!accountVars /\ CreditsAreOwn'
  BY <1>6, AddBooks DEF Accounts!AccountNext
<1>7. ASSUME NEW h \in Handlers, NEW u \in Users, NEW n \in Debits, AtomicDeductBalance(h, u, n)
      PROVE  [Accounts!AccountNext]_Accounts!accountVars /\ CreditsAreOwn'
  BY <1>7, DeductChanges DEF Accounts!AccountNext
<1>8. ASSUME NEW h \in Handlers, NEW p \in Payments, NEW u \in Users, NEW c \in Channels,
             NEW n \in TopUps, CreatePayment(h, p, u, c, n)
      PROVE  [Accounts!AccountNext]_Accounts!accountVars /\ CreditsAreOwn'
  BY <1>8, CreateOpens DEF Accounts!AccountNext
<1> QED BY <1>2, <1>3, <1>4, <1>5, <1>6, <1>7, <1>8, NextCases, Zenon DEF QuietStep

\* What a handler is about to add to a balance is an order's own size, for the
\* user it was opened for, or an administrator's recharge.
THEOREM CreditsComeFromOrders == Spec => []CreditsAreOwn
<1>1. Init => CreditsAreOwn
  BY InitAccounts
<1>2. IInv /\ IInv' /\ CreditsAreOwn /\ [Next]_vars => CreditsAreOwn'
  BY StepAccounts
<1> QED BY <1>1, <1>2, Invariance, PTL DEF Spec

\* Every step of the handlers, their races, crashes and failed statements, is
\* a step of the accounts of TopUpAccounts or changes none of them.
THEOREM BillingImplementsAccounts == Spec => ImplementsAccounts
<1>1. Init => Accounts!AccountInit
  BY InitAccounts
<1>2. IInv /\ IInv' /\ CreditsAreOwn /\ [Next]_vars => [Accounts!AccountNext]_Accounts!accountVars
  BY StepAccounts
<1> QED BY <1>1, <1>2, Invariance, CreditsComeFromOrders, PTL
        DEF Spec, ImplementsAccounts, Accounts!AccountSpec

----------------------------------------------------------------------------
(* What a step does to the audit trail.                                    *)

\* The tasks that hold no event.
Quiet(j) == j.pc \notin {"cache", "publish"}
Others(h) == \A g \in Handlers \ {h} : job'[g] = job[g]
QuietTurn(h) == Quiet(job[h]) /\ Quiet(job'[h]) /\ Others(h) /\ UNCHANGED <<credits, eventCh, ledger, lossy>>

LEMMA TaskIs ==
    ASSUME NEW s, NEW p, NEW u, NEW n, NEW b
    PROVE  Task(s, p, u, n, b).pc = s /\ Task(s, p, u, n, b).user = u /\ Task(s, p, u, n, b).amount = n
BY DEF Task

LEMMA Becomes ==
    ASSUME TypeOK, NEW h \in Handlers, NEW j, Become(h, j)
    PROVE  job'[h] = j /\ Others(h)
BY DEF TypeOK, Become, Others

LEMMA HeldIs ==
    ASSUME NEW u, NEW j
    PROVE  /\ Quiet(j) => Held(u, j) = 0
           /\ ~Quiet(j) /\ j.user = u => Held(u, j) = j.amount
           /\ j.user # u => Held(u, j) = 0
BY DEF Held, Quiet, AmountFor

LEMMA QuietTurns ==
    ASSUME IInv, NEW h \in Handlers,
           \/ Precreate(h) \/ MarkPaymentFailed(h) \/ UpdatePaymentProvider(h) \/ PayPalLookup(h)
           \/ MarkPaymentPaid(h) \/ LoadOrStore(h) \/ StatementFails(h)
           \/ \E p \in Payments, u \in Users, c \in Channels, n \in TopUps : CreatePayment(h, p, u, c, n)
           \/ \E p \in Payments : AlipayCallback(h, p) \/ WechatCallback(h, p) \/ GetOrder(h, p) \/ PayPalCapture(h, p)
           \/ \E u \in Users, n \in Recharges : Recharge(h, u, n)
           \/ \E u \in Users : GetBalance(h, u)
    PROVE  QuietTurn(h)
<1>1. UNCHANGED <<credits, eventCh, ledger, lossy>> /\ Quiet(job[h])
  BY DEF Precreate, MarkPaymentFailed, UpdatePaymentProvider, PayPalLookup, MarkPaymentPaid, LoadOrStore, StatementFails,
         CreatePayment, AlipayCallback, WechatCallback, GetOrder, PayPalCapture, Recharge, GetBalance, At, Quiet
<1>2. Quiet(Idle)
  BY TaskIs DEF Idle, Quiet
<1>3. \A s, p, u, n, b : s \notin {"cache", "publish"} => Quiet(Task(s, p, u, n, b))
  BY TaskIs DEF Quiet
<1>4. PICK j : Become(h, j) /\ Quiet(j)
  <2>1. CASE Done(h)
    BY <1>2, <2>1 DEF Done
  <2>2. CASE \E s, p : Serving(h, s, p) /\ s \notin {"cache", "publish"}
    BY <1>3, <2>2 DEF Serving
  <2>3. CASE \E s, p, u, n, b : Become(h, Task(s, p, u, n, b)) /\ s \notin {"cache", "publish"}
    BY <1>3, <2>3
  <2>4. CASE MarkPaymentPaid(h)
    BY <2>1, <2>3, <2>4 DEF MarkPaymentPaid
  <2>5. CASE PayPalLookup(h) \/ Precreate(h)
    BY <2>1, <2>2, <2>5 DEF PayPalLookup, Precreate
  <2>6. CASE MarkPaymentFailed(h) \/ UpdatePaymentProvider(h) \/ LoadOrStore(h) \/ StatementFails(h)
    BY <2>1, <2>6 DEF MarkPaymentFailed, UpdatePaymentProvider, LoadOrStore, StatementFails
  <2>7. CASE \/ \E p \in Payments, u \in Users, c \in Channels, n \in TopUps : CreatePayment(h, p, u, c, n)
             \/ \E p \in Payments : AlipayCallback(h, p) \/ WechatCallback(h, p) \/ GetOrder(h, p) \/ PayPalCapture(h, p)
    BY <2>2, <2>7 DEF CreatePayment, AlipayCallback, WechatCallback, GetOrder, PayPalCapture
  <2>8. CASE (\E u \in Users, n \in Recharges : Recharge(h, u, n)) \/ (\E u \in Users : GetBalance(h, u))
    BY <2>3, <2>8 DEF Recharge, GetBalance
  <2> QED BY <2>4, <2>5, <2>6, <2>7, <2>8
<1>5. job'[h] = j /\ Others(h)
  BY <1>4, Becomes DEF IInv
<1> QED BY <1>1, <1>4, <1>5 DEF QuietTurn

LEMMA Sums ==
    ASSUME TypeOK, NEW u \in Users
    PROVE  credits[u] \in Int /\ ledger[u] \in Int /\ InChannel(u) \in Int /\ BeingPublished(u) \in Int /\ FreeCredits \in Int
<1>1. [r \in Replicas |-> InQueue(u, eventCh[r])] \in [Replicas -> Int]
  <2>1. \A r \in Replicas : eventCh[r] \in Seq(Event)
    BY DEF TypeOK
  <2> QED BY <2>1, QueueType
<1>2. [h \in Handlers |-> Held(u, job[h])] \in [Handlers -> Int]
  <2>1. \A h \in Handlers : job[h] \in Job
    BY DEF TypeOK
  <2> QED BY <2>1, Amounts
<1> QED BY <1>1, <1>2, TotalType, CountedAssumption, AmountAssumption DEF TypeOK, InChannel, BeingPublished

LEMMA SameChannel == ASSUME NEW u \in Users, UNCHANGED eventCh PROVE InChannel(u)' = InChannel(u)
BY DEF InChannel

LEMMA QuietLedger ==
    ASSUME IInv, IInv', LedgerReconciles, NEW h \in Handlers, QuietTurn(h)
    PROVE  LedgerReconciles'
<1> SUFFICES ASSUME NEW u \in Users, ~lossy'[u]
             PROVE  (credits[u] = FreeCredits + ledger[u] + InChannel(u) + BeingPublished(u))'
  BY DEF LedgerReconciles
<1>1. BeingPublished(u)' = BeingPublished(u) - Held(u, job[h]) + Held(u, job'[h]) /\ BeingPublished(u) \in Int
  BY TaskMoves DEF IInv, QuietTurn, Others
<1>2. Held(u, job[h]) = 0 /\ Held(u, job'[h]) = 0
  BY HeldIs DEF QuietTurn
<1>3. BeingPublished(u)' = BeingPublished(u) /\ InChannel(u)' = InChannel(u)
  BY <1>1, <1>2, SameChannel DEF QuietTurn
<1> QED BY <1>3 DEF QuietTurn, LedgerReconciles

\* A statement that moves credits leaves its amount with the handler.
LEMMA MovingLedger ==
    ASSUME IInv, IInv', LedgerReconciles, NEW h \in Handlers, NEW w \in Users, NEW n \in Int, Quiet(job[h]),
           Others(h), ~Quiet(job'[h]), job'[h].user = w, job'[h].amount = n,
           credits' = [credits EXCEPT ![w] = credits[w] + n], UNCHANGED <<eventCh, ledger, lossy>>
    PROVE  LedgerReconciles'
<1> SUFFICES ASSUME NEW u \in Users, ~lossy'[u]
             PROVE  (credits[u] = FreeCredits + ledger[u] + InChannel(u) + BeingPublished(u))'
  BY DEF LedgerReconciles
<1>1. BeingPublished(u)' = BeingPublished(u) - Held(u, job[h]) + Held(u, job'[h])
  BY TaskMoves DEF IInv, Others
<1>2. Held(u, job[h]) = 0 /\ Held(u, job'[h]) = IF u = w THEN n ELSE 0
  BY HeldIs
<1>3. credits'[u] = credits[u] + IF u = w THEN n ELSE 0
  BY DEF IInv, TypeOK
<1>4. InChannel(u)' = InChannel(u)
  BY SameChannel
<1>5. credits[u] = FreeCredits + ledger[u] + InChannel(u) + BeingPublished(u)
  BY DEF LedgerReconciles
<1>6. credits[u] \in Int /\ ledger[u] \in Int /\ InChannel(u) \in Int /\ BeingPublished(u) \in Int /\ FreeCredits \in Int
  BY Sums DEF IInv
<1>7. ledger'[u] = ledger[u]
  OBVIOUS
<1> QED BY <1>1, <1>2, <1>3, <1>4, <1>5, <1>6, <1>7

LEMMA AddLedger == ASSUME IInv, IInv', LedgerReconciles, NEW h \in Handlers, AtomicAddBalance(h) PROVE LedgerReconciles'
<1> DEFINE w == job[h].user
           n == job[h].amount
<1>1. w \in Users /\ n \in Int /\ job[h].pc = "credit"
  BY JobFields DEF IInv, SafeInv, GroundInv, JobsAreGrounded, AtomicAddBalance, At
<1>2. /\ credits' = [credits EXCEPT ![w] = credits[w] + n] /\ UNCHANGED <<eventCh, ledger, lossy>>
      /\ Become(h, Task("cache", job[h].pay, w, n, credits[w] + n))
  BY DEF AtomicAddBalance
<1>3. Others(h) /\ job'[h].pc = "cache" /\ job'[h].user = w /\ job'[h].amount = n
  BY <1>2, Becomes, TaskIs DEF IInv
<1> HIDE DEF w, n
<1> QED BY <1>1, <1>2, <1>3, MovingLedger DEF Quiet

LEMMA DeductLedger ==
    ASSUME IInv, IInv', LedgerReconciles, NEW h \in Handlers, NEW w \in Users, NEW d \in Debits, AtomicDeductBalance(h, w, d)
    PROVE  LedgerReconciles'
<1> DEFINE n == -d
<1>1. n \in Int /\ job[h].pc = "idle" /\ credits[w] \in Int /\ credits[w] - d = credits[w] + n
  BY AmountAssumption DEF IInv, TypeOK, AtomicDeductBalance, At
<1>2. /\ credits' = [credits EXCEPT ![w] = credits[w] + n] /\ UNCHANGED <<eventCh, ledger, lossy>>
      /\ Become(h, Task("cache", NoPay, w, n, credits[w] - d))
  BY <1>1 DEF AtomicDeductBalance
<1> HIDE DEF n
<1>3. Others(h) /\ job'[h].pc = "cache" /\ job'[h].user = w /\ job'[h].amount = n
  BY <1>2, Becomes, TaskIs DEF IInv
<1> QED BY <1>1, <1>2, <1>3, MovingLedger DEF Quiet

LEMMA CacheLedger == ASSUME IInv, IInv', LedgerReconciles, NEW h \in Handlers, SetBalanceCache(h) PROVE LedgerReconciles'
<1> SUFFICES ASSUME NEW u \in Users, ~lossy'[u]
             PROVE  (credits[u] = FreeCredits + ledger[u] + InChannel(u) + BeingPublished(u))'
  BY DEF LedgerReconciles
<1>1. /\ job[h].pc = "cache" /\ UNCHANGED <<credits, eventCh, ledger, lossy>>
      /\ Become(h, Task("publish", job[h].pay, job[h].user, job[h].amount, job[h].balance))
  BY DEF SetBalanceCache, At
<1>2. Others(h) /\ job'[h].pc = "publish" /\ job'[h].user = job[h].user /\ job'[h].amount = job[h].amount
  BY <1>1, Becomes, TaskIs DEF IInv
<1>3. Held(u, job'[h]) = Held(u, job[h])
  BY <1>1, <1>2 DEF Held, AmountFor
<1>4. BeingPublished(u)' = BeingPublished(u)
  BY <1>2, <1>3, TaskMoves DEF IInv, Others
<1>5. InChannel(u)' = InChannel(u)
  BY <1>1, SameChannel
<1> QED BY <1>1, <1>4, <1>5 DEF LedgerReconciles

LEMMA PublishLedger == ASSUME IInv, IInv', LedgerReconciles, NEW h \in Handlers, Publish(h) PROVE LedgerReconciles'
<1> DEFINE r == Home[h]
           w == job[h].user
           n == job[h].amount
           e == [user |-> w, amount |-> n]
<1> SUFFICES ASSUME NEW u \in Users, ~lossy'[u]
             PROVE  (credits[u] = FreeCredits + ledger[u] + InChannel(u) + BeingPublished(u))'
  BY DEF LedgerReconciles
<1>1. w \in Users /\ n \in Int /\ job[h].pc = "publish" /\ r \in Replicas
  BY JobFields, HomeAssumption DEF IInv, SafeInv, GroundInv, JobsAreGrounded, Publish, At
<1>2. UNCHANGED <<credits, ledger>> /\ Become(h, Idle)
  BY DEF Publish, Done
<1>3. Others(h) /\ job'[h] = Idle
  BY <1>2, Becomes DEF IInv
<1>4. Held(u, job'[h]) = 0 /\ Held(u, job[h]) = IF w = u THEN n ELSE 0
  BY <1>1, <1>3, HeldIs, IdleFields DEF Quiet
<1>5. BeingPublished(u)' = BeingPublished(u) - Held(u, job[h]) + Held(u, job'[h])
  BY <1>3, TaskMoves DEF IInv, Others
<1>6. credits[u] \in Int /\ ledger[u] \in Int /\ InChannel(u) \in Int /\ BeingPublished(u) \in Int /\ FreeCredits \in Int
  BY Sums DEF IInv
<1>7. CASE eventCh' = [eventCh EXCEPT ![r] = Append(eventCh[r], e)] /\ UNCHANGED lossy
  <2>1. e \in Event /\ AmountFor(u, e) = IF w = u THEN n ELSE 0
    BY <1>1 DEF Event, AmountFor
  <2>2. eventCh[r] \in Seq(Event)
    BY <1>1 DEF IInv, TypeOK
  <2> HIDE DEF e, r
  <2> DEFINE q == Append(eventCh[r], e)
  <2>3. q \in Seq(Event) /\ InQueue(u, q) = InQueue(u, eventCh[r]) + AmountFor(u, e)
    BY <2>1, <2>2, AppendProperties, QueueAppend
  <2>4. eventCh' = [eventCh EXCEPT ![r] = q]
    BY <1>7
  <2> HIDE DEF q
  <2>5. InChannel(u)' = InChannel(u) - InQueue(u, eventCh[r]) + InQueue(u, q) /\ InQueue(u, eventCh[r]) \in Int
    BY <1>1, <2>3, <2>4, ChannelMoves DEF IInv
  <2>6. credits[u] = FreeCredits + ledger[u] + InChannel(u) + BeingPublished(u)
    BY <1>7 DEF LedgerReconciles
  <2>7. /\ InChannel(u)' = InChannel(u) + AmountFor(u, e) /\ AmountFor(u, e) \in Int
        /\ BeingPublished(u)' = BeingPublished(u) - AmountFor(u, e)
    <3>1. AmountFor(u, e) \in Int
      BY <1>1, <2>1
    <3>2. Held(u, job[h]) = AmountFor(u, e)
      BY <1>4, <2>1
    <3> QED BY <1>4, <1>5, <1>6, <2>3, <2>5, <3>1, <3>2
  <2>8. credits'[u] = credits[u] /\ ledger'[u] = ledger[u]
    BY <1>2
  <2> QED BY <1>6, <2>6, <2>7, <2>8
<1>8. CASE lossy' = [lossy EXCEPT ![w] = TRUE] /\ UNCHANGED eventCh
  <2>1. w # u /\ ~lossy[u]
    BY <1>1, <1>8 DEF IInv, TypeOK
  <2>2. credits[u] = FreeCredits + ledger[u] + InChannel(u) + BeingPublished(u)
    BY <2>1 DEF LedgerReconciles
  <2>3. InChannel(u)' = InChannel(u)
    BY <1>8, SameChannel
  <2> QED BY <1>2, <1>4, <1>5, <1>6, <2>1, <2>2, <2>3
<1> QED BY <1>7, <1>8 DEF Publish

LEMMA DispatchLedger ==
    ASSUME IInv, IInv', LedgerReconciles, NEW r \in Replicas, Dispatch(r) \/ RecordFails(r)
    PROVE  LedgerReconciles'
<1> DEFINE e == Head(eventCh[r])
           q == Tail(eventCh[r])
<1> SUFFICES ASSUME NEW u \in Users, ~lossy'[u]
             PROVE  (credits[u] = FreeCredits + ledger[u] + InChannel(u) + BeingPublished(u))'
  BY DEF LedgerReconciles
<1>1. /\ eventCh[r] # << >> /\ eventCh' = [eventCh EXCEPT ![r] = q] /\ UNCHANGED <<credits, job>>
      /\ eventCh[r] \in Seq(Event)
  BY DEF Dispatch, RecordFails, IInv, TypeOK
<1>2. /\ InQueue(u, eventCh[r]) = AmountFor(u, e) + InQueue(u, q) /\ e \in Event /\ q \in Seq(Event)
  BY <1>1, QueueTail
<1>3. InChannel(u)' = InChannel(u) - InQueue(u, eventCh[r]) + InQueue(u, q) /\ InQueue(u, q) \in Int
  <2> HIDE DEF q
  <2> QED BY <1>1, <1>2, ChannelMoves DEF IInv
<1>4. AmountFor(u, e) = (IF e.user = u THEN e.amount ELSE 0) /\ e.amount \in Int /\ e.user \in Users
  BY <1>2 DEF AmountFor, Event
<1>5. credits[u] \in Int /\ ledger[u] \in Int /\ InChannel(u) \in Int /\ BeingPublished(u) \in Int /\ FreeCredits \in Int
  BY Sums DEF IInv
<1>6. BeingPublished(u)' = BeingPublished(u)
  BY <1>1 DEF BeingPublished
<1> HIDE DEF e, q
<1>7. CASE ledger' = [ledger EXCEPT ![e.user] = @ + e.amount] /\ UNCHANGED lossy
  <2>1. ledger'[u] = ledger[u] + IF e.user = u THEN e.amount ELSE 0
    BY <1>4, <1>5, <1>7 DEF IInv, TypeOK
  <2>2. credits[u] = FreeCredits + ledger[u] + InChannel(u) + BeingPublished(u)
    BY <1>7 DEF LedgerReconciles
  <2> QED BY SMTT(30), <1>1, <1>2, <1>3, <1>4, <1>5, <1>6, <2>1, <2>2
<1>8. CASE lossy' = [lossy EXCEPT ![e.user] = TRUE] /\ UNCHANGED ledger
  <2>1. e.user # u /\ ~lossy[u]
    BY <1>4, <1>8 DEF IInv, TypeOK
  <2>2. credits[u] = FreeCredits + ledger[u] + InChannel(u) + BeingPublished(u)
    BY <2>1 DEF LedgerReconciles
  <2> QED BY <1>1, <1>2, <1>3, <1>4, <1>5, <1>6, <1>8, <2>1, <2>2
<1> QED BY <1>7, <1>8 DEF Dispatch, RecordFails, e

\* A crash loses the events of its replica, and those of no user who is not marked.
LEMMA CrashLedger == ASSUME IInv, IInv', LedgerReconciles, NEW r \in Replicas, Crash(r) PROVE LedgerReconciles'
<1> SUFFICES ASSUME NEW u \in Users, ~lossy'[u]
             PROVE  (credits[u] = FreeCredits + ledger[u] + InChannel(u) + BeingPublished(u))'
  BY DEF LedgerReconciles
<1>1. /\ UNCHANGED <<credits, ledger>> /\ eventCh' = [eventCh EXCEPT ![r] = << >>]
      /\ job' = [h \in Handlers |-> IF Home[h] = r THEN Idle ELSE job[h]]
      /\ ~lossy[u] /\ ~Unrecorded(r, u)
  BY DEF Crash
<1>2. eventCh[r] \in Seq(Event) /\ << >> \in Seq(Event)
  BY DEF IInv, TypeOK
<1>3. InQueue(u, eventCh[r]) = 0
  <2> DEFINE s == eventCh[r]
  <2>1. \A i \in DOMAIN s : AmountFor(u, s[i]) = 0
    BY <1>1 DEF Unrecorded, AmountFor
  <2>2. s \in Seq(Event)
    BY <1>2
  <2> HIDE DEF s
  <2>3. [i \in DOMAIN s |-> AmountFor(u, s[i])] \in [DOMAIN s -> Int]
    BY <2>2, QueueType
  <2>4. InQueue(u, s) = 0
    BY <2>1, <2>3, TotalNone DEF InQueue
  <2> QED BY <2>4 DEF s
<1>4. InChannel(u)' = InChannel(u)
  <2>1. InChannel(u)' = InChannel(u) - InQueue(u, eventCh[r]) + InQueue(u, << >>) /\ InChannel(u) \in Int
    BY <1>1, <1>2, ChannelMoves DEF IInv
  <2> QED BY <1>3, <2>1, QueueEmpty
<1>5. BeingPublished(u)' = BeingPublished(u)
  <2> DEFINE w == [h \in Handlers |-> Held(u, job[h])]
             v == [h \in Handlers |-> Held(u, job'[h])]
  <2>1. \A h \in Handlers : Held(u, job'[h]) = Held(u, job[h])
    <3> TAKE h \in Handlers
    <3>1. CASE Home[h] = r
      <4>1. job'[h] = Idle /\ (Quiet(job[h]) \/ job[h].user # u)
        BY <1>1, <3>1 DEF Unrecorded, Quiet
      <4>2. Held(u, job[h]) = 0
        BY <4>1, HeldIs
      <4>3. Held(u, Idle) = 0
        BY HeldIs, IdleFields DEF Quiet
      <4> QED BY <4>1, <4>2, <4>3
    <3>2. CASE Home[h] # r
      BY <1>1, <3>2
    <3> QED BY <3>1, <3>2
  <2>2. \A h \in Handlers : v[h] = w[h]
    BY <2>1
  <2>3. BeingPublished(u)' = Total(Handlers, v) /\ BeingPublished(u) = Total(Handlers, w)
    BY DEF BeingPublished
  <2> HIDE DEF v, w
  <2> QED BY <2>2, <2>3, TotalSame
<1> QED BY <1>1, <1>4, <1>5 DEF LedgerReconciles

LEMMA StillLedger ==
    ASSUME LedgerReconciles, UNCHANGED <<credits, eventCh, ledger, lossy, job>>
    PROVE  LedgerReconciles'
BY DEF LedgerReconciles, InChannel, BeingPublished

LEMMA StepLedger == ASSUME IInv, IInv', LedgerReconciles, [Next]_vars PROVE LedgerReconciles'
<1>1. ASSUME NEW h \in Handlers, QuietTurn(h) PROVE LedgerReconciles'
  BY <1>1, QuietLedger
<1>2. ASSUME NEW p \in Payments, UserStartsPaying(p) \/ ProviderSettles(p) PROVE LedgerReconciles'
  BY <1>2, StillLedger DEF UserStartsPaying, ProviderSettles
<1>3. CASE UNCHANGED vars
  BY <1>3, StillLedger DEF vars
<1>4. CASE Next
  BY <1>1, <1>2, <1>4, NextCases, QuietTurns, AddLedger, DeductLedger, CacheLedger, PublishLedger, DispatchLedger, CrashLedger,
     Zenon
<1> QED BY <1>3, <1>4

LEMMA InitLedger == ASSUME Init PROVE LedgerReconciles
<1> SUFFICES ASSUME NEW u \in Users
             PROVE  credits[u] = FreeCredits + ledger[u] + InChannel(u) + BeingPublished(u)
  BY DEF LedgerReconciles
<1>1. credits[u] = FreeCredits /\ ledger[u] = 0
  BY DEF Init
<1>2. InChannel(u) = 0
  <2> DEFINE w == [r \in Replicas |-> InQueue(u, eventCh[r])]
  <2>1. \A r \in Replicas : InQueue(u, eventCh[r]) = 0
    BY QueueEmpty DEF Init
  <2>2. w \in [Replicas -> Int] /\ \A r \in Replicas : w[r] = 0
    BY <2>1
  <2>3. InChannel(u) = Total(Replicas, w)
    BY DEF InChannel
  <2> HIDE DEF w
  <2> QED BY <2>2, <2>3, TotalNone
<1>3. BeingPublished(u) = 0
  <2> DEFINE w == [h \in Handlers |-> Held(u, job[h])]
  <2>1. \A h \in Handlers : Held(u, job[h]) = 0
    BY HeldIs, IdleFields DEF Init, Quiet
  <2>2. w \in [Handlers -> Int] /\ \A h \in Handlers : w[h] = 0
    BY <2>1
  <2>3. BeingPublished(u) = Total(Handlers, w)
    BY DEF BeingPublished
  <2> HIDE DEF w
  <2> QED BY <2>2, <2>3, TotalNone
<1> QED BY <1>1, <1>2, <1>3, AmountAssumption

\* For every user none of whose events was dropped, the credits at registration, the
\* recorded transactions and the events on their way give the balance, for any users,
\* handlers, replicas, amounts and faults (publish, dispatch, OnCreditChange).
THEOREM LedgerStaysReconciled == Spec => []LedgerReconciles
<1>1. Init => LedgerReconciles
  BY InitLedger
<1>2. IInv /\ IInv' /\ LedgerReconciles /\ [Next]_vars => LedgerReconciles'
  BY StepLedger
<1> QED BY <1>1, <1>2, Invariance, PTL DEF Spec
=============================================================================
