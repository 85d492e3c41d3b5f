------------------------------ MODULE Billing ------------------------------
(***************************************************************************)
(* Credits and top-up orders of the Go gateway: internal/billing (Manager, *)
(* PGStore, payments, TransactionRecorder) and the billing handlers of     *)
(* internal/api that drive them.                                           *)
(*                                                                         *)
(* One SQL statement is one step.  A handler is a goroutine that serves a  *)
(* request on one gateway replica; job[h] is what it still has to do.  A   *)
(* replica may crash between any two steps, any statement may fail, and    *)
(* the payment providers deliver notifications late, twice, or on several  *)
(* replicas at once.                                                       *)
(***************************************************************************)
EXTENDS Integers, Sequences, FiniteSets

CONSTANTS
    Users,
    Payments,      \* order ids that may be drawn by NewPayment
    Handlers,      \* request goroutines
    Replicas,      \* gateway processes
    Home,          \* the replica a handler runs on
    Channels,      \* subset of {"alipay", "wechat", "paypal"}
    TopUps,        \* order sizes, in credits (1 credit = 1 cent)
    TruncatedCents,\* amounts whose yuan, times 100 in float64, fall below them
    Debits,        \* amounts Deduct is called with
    Recharges,     \* amounts of the admin Recharge endpoint
    FreeCredits,   \* users.credits at registration
    ChanCap,       \* capacity of Manager.eventCh (1024 in the code)
    MaxChanges,    \* bound: Deduct and Recharge calls
    MaxFaults,     \* bound: crashes and failed statements
    NoPay, NoUser, NoCache

ASSUME HomeAssumption == Home \in [Handlers -> Replicas]

ASSUME AmountAssumption ==
    /\ TopUps \subseteq Nat \ {0}
    /\ TruncatedCents \subseteq Nat \ {0}
    /\ Debits \subseteq Nat \ {0}
    /\ Recharges \subseteq Nat \ {0}
    /\ FreeCredits \in Nat

ASSUME BoundAssumption == ChanCap \in Nat /\ MaxChanges \in Nat /\ MaxFaults \in Nat

ASSUME NullAssumption == NoPay \notin Payments /\ NoUser \notin Users /\ NoCache \notin Int

ASSUME CountedAssumption == IsFiniteSet(Handlers) /\ IsFiniteSet(Replicas)

VARIABLES
    credits,    \* users.credits, the only authority on balances
    order,      \* the payments table
    provider,   \* the order as the payment provider sees it (external)
    credited,   \* history: how often an order's credits reached users.credits
    cache,      \* Manager.balances of each replica
    eventCh,    \* Manager.eventCh of each replica
    ledger,     \* credit_transactions, as the sum of the recorded amounts
    lossy,      \* history: users with an event that will never be recorded
    job,        \* the state of each handler
    changes, faults

vars == <<credits, order, provider, credited, cache, eventCh, ledger, lossy,
          job, changes, faults>>

----------------------------------------------------------------------------
Statuses == {"none", "pending", "paid", "failed"}
ProviderStates == {"none", "open", "paying", "paid"}
Steps == {"idle", "precreate", "markfailed", "backfill", "lookup", "confirm",
          "credit", "cache", "publish", "load"}

Order == [status: Statuses, user: Users \union {NoUser},
          channel: Channels \union {"none"}, credits: Nat, ref: BOOLEAN]
Job == [pc: Steps, pay: Payments \union {NoPay}, user: Users \union {NoUser},
        amount: Int, balance: Int]
Event == [user: Users, amount: Int]

NoOrder == [status |-> "none", user |-> NoUser, channel |-> "none",
            credits |-> 0, ref |-> FALSE]
Task(step, p, u, n, b) == [pc |-> step, pay |-> p, user |-> u, amount |-> n, balance |-> b]
Idle == Task("idle", NoPay, NoUser, 0, 0)

TypeOK ==
    /\ credits \in [Users -> Int]
    /\ order \in [Payments -> Order]
    /\ provider \in [Payments -> ProviderStates]
    /\ credited \in [Payments -> Nat]
    /\ cache \in [Replicas -> [Users -> Int \union {NoCache}]]
    /\ eventCh \in [Replicas -> Seq(Event)]
    /\ ledger \in [Users -> Int]
    /\ lossy \in [Users -> BOOLEAN]
    /\ job \in [Handlers -> Job]
    /\ changes \in Nat
    /\ faults \in Nat

Init ==
    /\ credits = [u \in Users |-> FreeCredits]
    /\ order = [p \in Payments |-> NoOrder]
    /\ provider = [p \in Payments |-> "none"]
    /\ credited = [p \in Payments |-> 0]
    /\ cache = [r \in Replicas |-> [u \in Users |-> NoCache]]
    /\ eventCh = [r \in Replicas |-> << >>]
    /\ ledger = [u \in Users |-> 0]
    /\ lossy = [u \in Users |-> FALSE]
    /\ job = [h \in Handlers |-> Idle]
    /\ changes = 0
    /\ faults = 0

At(h, step) == job[h].pc = step
Become(h, j) == job' = [job EXCEPT ![h] = j]
Done(h) == Become(h, Idle)
Serving(h, step, p) == Become(h, Task(step, p, NoUser, 0, 0))

----------------------------------------------------------------------------
(* Orders: CreatePayment inserts a pending row, asks the provider for a    *)
(* payable order, and records the outcome.                                 *)

CreatePayment(h, p, u, c, n) ==
    /\ At(h, "idle")
    /\ order[p] = NoOrder
    /\ order' = [order EXCEPT ![p] = [status |-> "pending", user |-> u,
                     channel |-> c, credits |-> n, ref |-> FALSE]]
    /\ Serving(h, "precreate", p)
    /\ UNCHANGED <<credits, provider, credited, cache, eventCh, ledger, lossy, changes, faults>>

\* The provider accepts the order, refuses it, or is not configured (501: the
\* row stays pending).
Precreate(h) ==
    /\ At(h, "precreate")
    /\ \/ Serving(h, "backfill", job[h].pay)
       \/ Serving(h, "markfailed", job[h].pay)
       \/ Done(h)
    /\ UNCHANGED <<credits, order, provider, credited, cache, eventCh, ledger, lossy, changes, faults>>

\* Mutant: a refused order is recorded as expired, a status nothing reads.
MarkPaymentFailed_Expires(h) ==
    /\ At(h, "markfailed")
    /\ order' = [order EXCEPT ![job[h].pay].status = "expired"]
    /\ Done(h)
    /\ UNCHANGED <<credits, provider, credited, cache, eventCh, ledger, lossy, changes, faults>>

MarkPaymentFailed(h) ==
    /\ At(h, "markfailed")
    /\ LET p == job[h].pay IN
       order' = IF order[p].status = "pending"
                THEN [order EXCEPT ![p].status = "failed"] ELSE order
    /\ Done(h)
    /\ UNCHANGED <<credits, provider, credited, cache, eventCh, ledger, lossy, changes, faults>>

\* The response with the QR code or the checkout URL follows this statement,
\* so from here on the user can pay.
UpdatePaymentProvider(h) ==
    /\ At(h, "backfill")
    /\ LET p == job[h].pay IN
       /\ order' = IF order[p].status = "pending"
                   THEN [order EXCEPT ![p].ref = TRUE] ELSE order
       /\ provider' = [provider EXCEPT ![p] = "open"]
    /\ Done(h)
    /\ UNCHANGED <<credits, credited, cache, eventCh, ledger, lossy, changes, faults>>

----------------------------------------------------------------------------
(* The provider and the paying user (external).                            *)

UserStartsPaying(p) ==
    /\ provider[p] = "open"
    /\ provider' = [provider EXCEPT ![p] = "paying"]
    /\ UNCHANGED <<credits, order, credited, cache, eventCh, ledger, lossy, job, changes, faults>>

\* A PayPal order is only approved by the user; the capture below settles it.
ProviderSettles(p) ==
    /\ provider[p] = "paying"
    /\ order[p].channel # "paypal"
    /\ provider' = [provider EXCEPT ![p] = "paid"]
    /\ UNCHANGED <<credits, order, credited, cache, eventCh, ledger, lossy, job, changes, faults>>

----------------------------------------------------------------------------
(* The ways to ConfirmPayment.                                             *)

\* The callback quotes total_amount in yuan; int64(amt*100) truncates the
\* float64 product, which loses a cent for some amounts (29, 57, 58, 113, 201
\* and many more); TruncatedCents is any set of such amounts.
\* Mutant: the amount is parsed with an off-by-one.
ParseCents_Short(cents) == cents - 1
ParseCents(cents) == IF cents \in TruncatedCents THEN cents - 1 ELSE cents

\* Mutant: VerifyCallback forgets to look at trade_status.
AlipayCallback_AnyStatus(h, p) ==
    /\ At(h, "idle")
    /\ order[p].channel = "alipay"
    /\ provider[p] \in {"paying", "paid"}
    /\ Serving(h, "confirm", p)
    /\ UNCHANGED <<credits, order, provider, credited, cache, eventCh, ledger, lossy, changes, faults>>

AlipayCallback(h, p) ==
    /\ At(h, "idle")
    /\ order[p].channel = "alipay"
    /\ provider[p] = "paid"
    /\ ParseCents(order[p].credits) = order[p].credits
    /\ Serving(h, "confirm", p)
    /\ UNCHANGED <<credits, order, provider, credited, cache, eventCh, ledger, lossy, changes, faults>>

\* ParseCallback reports "paid" for SUCCESS and for USERPAYING.
WechatCallback(h, p) ==
    /\ At(h, "idle")
    /\ order[p].channel = "wechat"
    /\ provider[p] \in {"paying", "paid"}
    /\ Serving(h, "confirm", p)
    /\ UNCHANGED <<credits, order, provider, credited, cache, eventCh, ledger, lossy, changes, faults>>

\* The front end polls a pending order; the handler asks the provider.
GetOrder(h, p) ==
    /\ At(h, "idle")
    /\ order[p].status = "pending"
    /\ order[p].channel \in {"alipay", "wechat"}
    /\ provider[p] = "paid"
    /\ Serving(h, "confirm", p)
    /\ UNCHANGED <<credits, order, provider, credited, cache, eventCh, ledger, lossy, changes, faults>>

\* A second capture of the same order is refused by PayPal.
PayPalCapture(h, p) ==
    /\ At(h, "idle")
    /\ order[p].channel = "paypal"
    /\ provider[p] = "paying"
    /\ provider' = [provider EXCEPT ![p] = "paid"]
    /\ Serving(h, "lookup", p)
    /\ UNCHANGED <<credits, order, credited, cache, eventCh, ledger, lossy, changes, faults>>

PayPalLookup(h) ==
    /\ At(h, "lookup")
    /\ LET p == job[h].pay IN
       IF order[p].status = "pending" /\ order[p].ref
       THEN Serving(h, "confirm", p)
       ELSE Done(h)
    /\ UNCHANGED <<credits, order, provider, credited, cache, eventCh, ledger, lossy, changes, faults>>

\* Mutant: the order is credited with the amount the notification was parsed to.
MarkPaymentPaid_ParsedAmount(h) ==
    /\ At(h, "confirm")
    /\ LET p == job[h].pay IN
       IF order[p].status = "pending"
       THEN /\ order' = [order EXCEPT ![p].status = "paid"]
            /\ Become(h, Task("credit", p, order[p].user, ParseCents_Short(order[p].credits), 0))
       ELSE /\ Done(h)
            /\ UNCHANGED order
    /\ UNCHANGED <<credits, provider, credited, cache, eventCh, ledger, lossy, changes, faults>>

\* UPDATE payments SET status='paid' WHERE id AND status='pending' RETURNING.
MarkPaymentPaid(h) ==
    /\ At(h, "confirm")
    /\ LET p == job[h].pay IN
       IF order[p].status = "pending"
       THEN /\ order' = [order EXCEPT ![p].status = "paid"]
            /\ Become(h, Task("credit", p, order[p].user, order[p].credits, 0))
       ELSE /\ Done(h)
            /\ UNCHANGED order
    /\ UNCHANGED <<credits, provider, credited, cache, eventCh, ledger, lossy, changes, faults>>

----------------------------------------------------------------------------
(* Manager: AddCredits, Deduct, the read cache and the event channel.      *)

Recharge(h, u, n) ==
    /\ At(h, "idle")
    /\ changes < MaxChanges
    /\ changes' = changes + 1
    /\ Become(h, Task("credit", NoPay, u, n, 0))
    /\ UNCHANGED <<credits, order, provider, credited, cache, eventCh, ledger, lossy, faults>>

AtomicAddBalance(h) ==
    /\ At(h, "credit")
    /\ LET u == job[h].user
           p == job[h].pay
           b == credits[u] + job[h].amount
       IN /\ credits' = [credits EXCEPT ![u] = b]
          /\ credited' = IF p = NoPay THEN credited
                         ELSE [credited EXCEPT ![p] = @ + 1]
          /\ Become(h, Task("cache", p, u, job[h].amount, b))
    /\ UNCHANGED <<order, provider, cache, eventCh, ledger, lossy, changes, faults>>

\* Mutant: the UPDATE lost its AND credits >= $1.
AtomicDeductBalance_Unguarded(h, u, n) ==
    /\ At(h, "idle")
    /\ changes < MaxChanges
    /\ changes' = changes + 1
    /\ credits' = [credits EXCEPT ![u] = @ - n]
    /\ Become(h, Task("cache", NoPay, u, -n, credits[u] - n))
    /\ UNCHANGED <<order, provider, credited, cache, eventCh, ledger, lossy, faults>>

\* UPDATE users SET credits = credits - $1 WHERE id AND credits >= $1 RETURNING.
AtomicDeductBalance(h, u, n) ==
    /\ At(h, "idle")
    /\ changes < MaxChanges
    /\ credits[u] >= n
    /\ changes' = changes + 1
    /\ credits' = [credits EXCEPT ![u] = @ - n]
    /\ Become(h, Task("cache", NoPay, u, -n, credits[u] - n))
    /\ UNCHANGED <<order, provider, credited, cache, eventCh, ledger, lossy, faults>>

\* Mutant: the change is cached and never published.
SetBalanceCache_Silent(h) ==
    /\ At(h, "cache")
    /\ cache' = [cache EXCEPT ![Home[h]][job[h].user] = job[h].balance]
    /\ Done(h)
    /\ UNCHANGED <<credits, order, provider, credited, eventCh, ledger, lossy, changes, faults>>

SetBalanceCache(h) ==
    /\ At(h, "cache")
    /\ cache' = [cache EXCEPT ![Home[h]][job[h].user] = job[h].balance]
    /\ Become(h, Task("publish", job[h].pay, job[h].user, job[h].amount, job[h].balance))
    /\ UNCHANGED <<credits, order, provider, credited, eventCh, ledger, lossy, changes, faults>>

\* Mutant: a confirmation whose event did not fit adds the credits again.
Publish_Again(h) ==
    /\ At(h, "publish")
    /\ LET r == Home[h]
           u == job[h].user
       IN IF Len(eventCh[r]) < ChanCap
          THEN /\ eventCh' = [eventCh EXCEPT ![r] =
                                 Append(@, [user |-> u, amount |-> job[h].amount])]
               /\ Done(h)
               /\ UNCHANGED lossy
          ELSE /\ lossy' = [lossy EXCEPT ![u] = TRUE]
               /\ Become(h, IF job[h].pay = NoPay THEN Idle
                               ELSE Task("credit", job[h].pay, u, job[h].amount, 0))
               /\ UNCHANGED eventCh
    /\ UNCHANGED <<credits, order, provider, credited, cache, ledger, changes, faults>>

\* A full channel drops the event.
Publish(h) ==
    /\ At(h, "publish")
    /\ LET r == Home[h]
           u == job[h].user
       IN IF Len(eventCh[r]) < ChanCap
          THEN /\ eventCh' = [eventCh EXCEPT ![r] =
                                 Append(@, [user |-> u, amount |-> job[h].amount])]
               /\ UNCHANGED lossy
          ELSE /\ lossy' = [lossy EXCEPT ![u] = TRUE]
               /\ UNCHANGED eventCh
    /\ Done(h)
    /\ UNCHANGED <<credits, order, provider, credited, cache, ledger, changes, faults>>

\* Mutant: the recorder was never subscribed; the event is consumed and lost.
Dispatch_NoObserver(r) ==
    /\ eventCh[r] # << >>
    /\ eventCh' = [eventCh EXCEPT ![r] = Tail(@)]
    /\ UNCHANGED <<credits, order, provider, credited, cache, ledger, lossy, job, changes, faults>>

\* dispatch hands the event to TransactionRecorder, which inserts a row.
Dispatch(r) ==
    /\ eventCh[r] # << >>
    /\ LET e == Head(eventCh[r]) IN
       ledger' = [ledger EXCEPT ![e.user] = @ + e.amount]
    /\ eventCh' = [eventCh EXCEPT ![r] = Tail(@)]
    /\ UNCHANGED <<credits, order, provider, credited, cache, lossy, job, changes, faults>>

\* A cache miss of getOrLoadBalance: SELECT now, LoadOrStore later.
GetBalance(h, u) ==
    /\ At(h, "idle")
    /\ cache[Home[h]][u] = NoCache
    /\ Become(h, Task("load", NoPay, u, 0, credits[u]))
    /\ UNCHANGED <<credits, order, provider, credited, cache, eventCh, ledger, lossy, changes, faults>>

LoadOrStore(h) ==
    /\ At(h, "load")
    /\ LET r == Home[h]
           u == job[h].user
       IN cache' = IF cache[r][u] = NoCache
                   THEN [cache EXCEPT ![r][u] = job[h].balance] ELSE cache
    /\ Done(h)
    /\ UNCHANGED <<credits, order, provider, credited, eventCh, ledger, lossy, changes, faults>>

----------------------------------------------------------------------------
(* Failures.                                                               *)

\* Mutant: a failed backfill marks the order failed and still shows its QR code.
StatementFails_MarksFailed(h) ==
    /\ faults < MaxFaults
    /\ faults' = faults + 1
    /\ At(h, "backfill")
    /\ order' = [order EXCEPT ![job[h].pay].status = "failed"]
    /\ provider' = [provider EXCEPT ![job[h].pay] = "open"]
    /\ Done(h)
    /\ UNCHANGED <<credits, credited, cache, eventCh, ledger, lossy, changes>>

\* The statement returns an error: the handler answers with an error (or a
\* warning, for the backfill) and does nothing else.
StatementFails(h) ==
    /\ faults < MaxFaults
    /\ faults' = faults + 1
    /\ job[h].pc \in {"markfailed", "backfill", "lookup", "confirm", "credit"}
    /\ provider' = IF At(h, "backfill")
                   THEN [provider EXCEPT ![job[h].pay] = "open"] ELSE provider
    /\ Done(h)
    /\ UNCHANGED <<credits, order, credited, cache, eventCh, ledger, lossy, changes>>

\* AddTransaction fails: the row is never written.
RecordFails(r) ==
    /\ faults < MaxFaults
    /\ faults' = faults + 1
    /\ eventCh[r] # << >>
    /\ lossy' = [lossy EXCEPT ![Head(eventCh[r]).user] = TRUE]
    /\ eventCh' = [eventCh EXCEPT ![r] = Tail(@)]
    /\ UNCHANGED <<credits, order, provider, credited, cache, ledger, job, changes>>

Unrecorded(r, u) ==
    \/ \E i \in DOMAIN eventCh[r] : eventCh[r][i].user = u
    \/ \E h \in Handlers : /\ Home[h] = r
                           /\ job[h].pc \in {"cache", "publish"}
                           /\ job[h].user = u

Crash(r) ==
    /\ faults < MaxFaults
    /\ faults' = faults + 1
    /\ lossy' = [u \in Users |-> lossy[u] \/ Unrecorded(r, u)]
    /\ job' = [h \in Handlers |-> IF Home[h] = r THEN Idle ELSE job[h]]
    /\ cache' = [cache EXCEPT ![r] = [u \in Users |-> NoCache]]
    /\ eventCh' = [eventCh EXCEPT ![r] = << >>]
    /\ UNCHANGED <<credits, order, provider, credited, ledger, changes>>

----------------------------------------------------------------------------
HandlerStep(h) ==
    \/ Precreate(h)
    \/ MarkPaymentFailed(h)
    \/ UpdatePaymentProvider(h)
    \/ PayPalLookup(h)
    \/ MarkPaymentPaid(h)
    \/ AtomicAddBalance(h)
    \/ SetBalanceCache(h)
    \/ Publish(h)
    \/ LoadOrStore(h)

Notification(p) == \E h \in Handlers : AlipayCallback(h, p) \/ WechatCallback(h, p)

Request(h) ==
    \/ \E p \in Payments, u \in Users, c \in Channels, n \in TopUps :
           CreatePayment(h, p, u, c, n)
    \/ \E p \in Payments : GetOrder(h, p) \/ PayPalCapture(h, p)
    \/ \E u \in Users, n \in Recharges : Recharge(h, u, n)
    \/ \E u \in Users, n \in Debits : AtomicDeductBalance(h, u, n)
    \/ \E u \in Users : GetBalance(h, u)

Next ==
    \/ \E h \in Handlers : HandlerStep(h) \/ Request(h) \/ StatementFails(h)
    \/ \E p \in Payments : Notification(p) \/ UserStartsPaying(p) \/ ProviderSettles(p)
    \/ \E r \in Replicas : Dispatch(r) \/ RecordFails(r) \/ Crash(r)

Spec == Init /\ [][Next]_vars

\* Goroutines run, the dispatcher runs, and a provider repeats a notification
\* until it is accepted.  Users, administrators and faults owe nothing.
Fairness ==
    /\ \A h \in Handlers : WF_vars(HandlerStep(h))
    /\ \A r \in Replicas : WF_vars(Dispatch(r))
    /\ \A p \in Payments : SF_vars(Notification(p))

FairSpec == Spec /\ Fairness

----------------------------------------------------------------------------
(* Properties.                                                             *)

\* However many notifications, polls and captures of one order race on
\* however many replicas, and wherever a replica crashes, the conditional
\* UPDATE of MarkPaymentPaid lets the order's credits reach the balance at
\* most once, and only for an order that is marked paid.
CreditedOnce ==
    \A p \in Payments :
        /\ credited[p] <= 1
        /\ credited[p] = 1 => order[p].status = "paid"

\* Concurrent Deduct calls never drive a balance below zero: the statement
\* re-checks credits >= amount itself, whatever the caller saw before.
NoOverdraft == \A u \in Users : credits[u] >= 0

\* The sum of the integers w[i], as the sizes of two sets of marks.
Total(I, w) ==
    Cardinality(UNION {{i} \X (1..w[i]) : i \in I}) - Cardinality(UNION {{i} \X (1..(-w[i])) : i \in I})

AmountFor(u, e) == IF e.user = u THEN e.amount ELSE 0
InQueue(u, events) == Total(DOMAIN events, [i \in DOMAIN events |-> AmountFor(u, events[i])])
Held(u, j) == IF j.pc \in {"cache", "publish"} THEN AmountFor(u, j) ELSE 0

InChannel(u) == Total(Replicas, [r \in Replicas |-> InQueue(u, eventCh[r])])
BeingPublished(u) == Total(Handlers, [h \in Handlers |-> Held(u, job[h])])

\* The audit trail reconciles with the balance: the registration credits plus
\* the recorded transactions plus the events still on their way give the
\* balance, for every user none of whose events was dropped by a full channel,
\* a failed insert or a crash.
LedgerReconciles ==
    \A u \in Users :
        ~lossy[u] => credits[u] = FreeCredits + ledger[u] + InChannel(u) + BeingPublished(u)

\* An order whose pre-creation failed never takes the user's money, although
\* the row was inserted before the provider was asked.
FailedOrderNeverCharged ==
    \A p \in Payments : order[p].status = "failed" => provider[p] = "none"

\* Outside the WeChat channel a paid order is one the provider has settled.
PaidMeansSettled ==
    \A p \in Payments :
        order[p].status = "paid" /\ order[p].channel # "wechat" => provider[p] = "paid"

\* The stage an order has reached for its user: due while a handler is about to
\* book it, lost when it is marked paid and no handler will.
Stage(p) ==
    CASE order[p].status # "paid" -> order[p].status
      [] credited[p] > 0 -> "booked"
      [] credited[p] = 0 /\ (\E h \in Handlers : At(h, "credit") /\ job[h].pay = p) -> "due"
      [] OTHER -> "lost"

Accounts == INSTANCE TopUpAccounts WITH
    Sizes <- TopUps, balance <- credits, stage <- [p \in Payments |-> Stage(p)],
    owner <- [p \in Payments |-> order[p].user], size <- [p \in Payments |-> order[p].credits]

\* The handlers, statement by statement and with all their races, crashes and
\* failing statements, implement the accounts of TopUpAccounts: every step
\* books at most one order, whole, to its own user, and no order is booked
\* again or after it was lost.
ImplementsAccounts == Accounts!AccountSpec

\* The provider's repeated notification alone gets a settled payment marked
\* paid, although replicas crash and statements fail in between: at WeChat
\* always, at Alipay for the amounts the callback parses exactly.  The
\* notification of another amount is refused each time, and only a poll of the
\* order, which nothing forces, marks it paid.
Recognised(p) ==
    \/ order[p].channel = "wechat"
    \/ order[p].channel = "alipay" /\ order[p].credits \notin TruncatedCents

SettledIsNoticed ==
    \A p \in Payments :
        provider[p] = "paid" /\ Recognised(p) ~> order[p].status = "paid"
=============================================================================
