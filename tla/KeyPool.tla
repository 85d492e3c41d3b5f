------------------------------ MODULE KeyPool -------------------------------
(***************************************************************************)
(* SmartAPIKeyPool of the Python engine (app/gateway/smart_key_pool.py):   *)
(* one provider's API keys with their circuit breakers, the callers that   *)
(* take and report on keys, and the operator who edits the pool.           *)
(*                                                                         *)
(* The pool is a list: a key added twice has two entries, and reports and  *)
(* operator commands reach the first one only.  Weights decide only which  *)
(* available key is drawn, and any may be.  A breaker's clock is whether   *)
(* recovery_timeout has passed since its last failure, its counter         *)
(* saturates at the threshold.                                             *)
(***************************************************************************)
EXTENDS Naturals, Sequences, SequencesExt

CONSTANTS
    ApiKeys,
    Getters,            \* callers of get_key
    KpThreshold,        \* failure_threshold
    MaxEntries,         \* bound: entries of the pool
    MaxEdits,           \* bound: operator commands
    MaxKeyFailures,     \* bound: failed calls
    NoKey

ASSUME KeyPoolAssumption ==
    /\ KpThreshold \in Nat \ {0} /\ MaxEntries \in Nat \ {0} /\ MaxEdits \in Nat /\ MaxKeyFailures \in Nat
    /\ NoKey \notin ApiKeys

VARIABLES pool, getter, edits, keyFailures

kpVars == <<pool, getter, edits, keyFailures>>

----------------------------------------------------------------------------
KeyEntry == [key: ApiKeys, state: {"closed", "open", "half_open"}, fails: 0..KpThreshold,
             elapsed: BOOLEAN, status: {"active", "rate_limited", "circuit_open"}]
Getter == [pc: {"idle", "get", "waiting", "using", "none"}, key: ApiKeys \union {NoKey}]

KeyPoolTypeOK ==
    /\ pool \in Seq(KeyEntry) /\ Len(pool) <= MaxEntries
    /\ getter \in [Getters -> Getter]
    /\ edits \in 0..MaxEdits /\ keyFailures \in 0..MaxKeyFailures

FreshEntry(k) ==
    [key |-> k, state |-> "closed", fails |-> 0, elapsed |-> FALSE, status |-> "active"]

\* The keys found in the environment at start-up are added one by one.
KpInit ==
    /\ \E k \in ApiKeys : pool = <<FreshEntry(k)>>
    /\ getter = [g \in Getters |-> [pc |-> "idle", key |-> NoKey]]
    /\ edits = 0 /\ keyFailures = 0

----------------------------------------------------------------------------
\* CircuitBreaker.
Succeeded(e) == [e EXCEPT !.fails = 0, !.state = "closed"]
Failed(e) ==
    LET n == IF e.fails < KpThreshold THEN e.fails + 1 ELSE e.fails IN
    [e EXCEPT !.fails = n, !.elapsed = FALSE, !.state = IF n = KpThreshold THEN "open" ELSE @]

IsOpen(e) == e.state # "closed" /\ ~e.elapsed

\* What is_open leaves behind.
Looked(e) == IF e.state # "closed" /\ e.elapsed THEN [e EXCEPT !.state = "half_open"] ELSE e

\* Entries that answer to a key, and the one a report or command reaches.
Holding(k) == {i \in 1..Len(pool) : pool[i].key = k}
First(S) == CHOOSE i \in S : \A j \in S : i <= j
Held(k) == pool[First(Holding(k))]
OnFirst(k, entry) ==
    IF Holding(k) = {} THEN pool ELSE [pool EXCEPT ![First(Holding(k))] = entry]

Asks(g) ==
    /\ getter[g].pc = "idle" /\ getter' = [getter EXCEPT ![g].pc = "get"]
    /\ UNCHANGED <<pool, edits, keyFailures>>

\* None of an empty pool; a key whose breaker is not open; or, all open, a wait
\* outside the lock until the first of them recovers, and another try.
GetKey(g) ==
    LET available == {i \in 1..Len(pool) : ~IsOpen(pool[i])} IN
    /\ getter[g].pc = "get"
    /\ pool' = [i \in 1..Len(pool) |-> Looked(pool[i])]
    /\ \/ Len(pool) = 0 /\ getter' = [getter EXCEPT ![g].pc = "none"]
       \/ \E i \in available : getter' = [getter EXCEPT ![g] = [pc |-> "using", key |-> pool[i].key]]
       \/ /\ Len(pool) > 0 /\ available = {}
          /\ getter' = [getter EXCEPT ![g].pc = "waiting"]
    /\ UNCHANGED <<edits, keyFailures>>

WaitEnds(g) ==
    /\ getter[g].pc = "waiting" /\ getter' = [getter EXCEPT ![g].pc = "get"]
    /\ UNCHANGED <<pool, edits, keyFailures>>

Activated(e) == [Succeeded(e) EXCEPT !.status = "active"]
ReportSuccess(g) ==
    /\ getter[g].pc = "using"
    /\ pool' = OnFirst(getter[g].key, Activated(Held(getter[g].key)))
    /\ getter' = [getter EXCEPT ![g] = [pc |-> "idle", key |-> NoKey]]
    /\ UNCHANGED <<edits, keyFailures>>

Blamed(e) == LET f == Failed(e) IN [f EXCEPT !.status = IF IsOpen(f) THEN "circuit_open" ELSE @]
ReportFailure(g) ==
    /\ getter[g].pc = "using" /\ keyFailures < MaxKeyFailures
    /\ pool' = OnFirst(getter[g].key, Blamed(Held(getter[g].key)))
    /\ getter' = [getter EXCEPT ![g] = [pc |-> "idle", key |-> NoKey]]
    /\ keyFailures' = keyFailures + 1
    /\ UNCHANGED edits

\* recovery_timeout has passed for an entry.
RecoveryTimePasses(i) ==
    /\ i \in 1..Len(pool) /\ pool[i].state # "closed" /\ ~pool[i].elapsed
    /\ pool' = [pool EXCEPT ![i].elapsed = TRUE]
    /\ UNCHANGED <<getter, edits, keyFailures>>

Edits == edits < MaxEdits /\ edits' = edits + 1 /\ UNCHANGED <<getter, keyFailures>>

AddKey(k) == Edits /\ Len(pool) < MaxEntries /\ pool' = Append(pool, FreshEntry(k))

\* remove_key and remove_key_by_id.
RemoveKey(k) == Edits /\ Holding(k) # {} /\ pool' = RemoveAt(pool, First(Holding(k)))

WithStatus(e, status) == IF status = "active" THEN Activated(e) ELSE [e EXCEPT !.status = status]

UpdateKeyStatus(k, status) ==
    Edits /\ Holding(k) # {} /\ pool' = OnFirst(k, WithStatus(Held(k), status))

KpNext ==
    \/ \E g \in Getters : Asks(g) \/ GetKey(g) \/ WaitEnds(g) \/ ReportSuccess(g) \/ ReportFailure(g)
    \/ \E i \in 1..MaxEntries : RecoveryTimePasses(i)
    \/ \E k \in ApiKeys :
        \/ AddKey(k) \/ RemoveKey(k)
        \/ \E s \in {"active", "rate_limited", "circuit_open"} : UpdateKeyStatus(k, s)

\* The event loop's sleep ends, a coroutine with the lock proceeds, time passes.
KpFairness ==
    /\ \A g \in Getters : WF_kpVars(GetKey(g)) /\ WF_kpVars(WaitEnds(g))
    /\ \A i \in 1..MaxEntries : WF_kpVars(RecoveryTimePasses(i))

KpSpec == KpInit /\ [][KpNext]_kpVars /\ KpFairness

----------------------------------------------------------------------------
\* An entry whose breaker is open is never shown as active in the statistics and
\* the key list, whoever reported or edited it last.
OpenIsVisible == \A i \in 1..Len(pool) : pool[i].state = "open" => pool[i].status # "active"

\* A caller of get_key ends up with a key or with None: keys come back, and the
\* wait for them is outside the lock and retried.
GettersServed == \A g \in Getters : getter[g].pc = "get" ~> getter[g].pc \in {"using", "none"}
=============================================================================
