----------------------------- MODULE RateWindow -----------------------------
(***************************************************************************)
(* TenantRateLimiter of the Python engine (app/gateway/ratelimit.py) behind *)
(* RateLimitMiddleware: a per-second and a per-minute window of one tenant, *)
(* each a Redis sorted set.  A request reads the clock once, then each     *)
(* window is trimmed and counted in one transaction and the request added  *)
(* by a later command; other requests run in between, and the clock moves. *)
(* Requests without a tenant and the public paths pass without a window.   *)
(***************************************************************************)
EXTENDS Integers, FiniteSets

CONSTANTS
    Windows,            \* the windows in the order they are checked
    WindowLength, WindowLimit,
    RateSlots,          \* requests handled at the same time
    MaxRateTime,        \* bound: clock
    MaxAdmissions       \* bound: requests that pass

ASSUME RateAssumption ==
    /\ Windows = 1..2
    /\ WindowLength \in [Windows -> Nat \ {0}] /\ WindowLimit \in [Windows -> Nat \ {0}]
    /\ MaxRateTime \in Nat /\ MaxAdmissions \in Nat
    /\ IsFiniteSet(RateSlots) /\ RateSlots # {}

VARIABLES
    clock,
    window,    \* the sorted sets: how many members have each score
    slot,      \* the requests in progress
    entered    \* history: how many members with each score were ever added

rwVars == <<clock, window, slot, entered>>

----------------------------------------------------------------------------
\* A member's score is the time its request arrived; member names are unique.
Times == 0..MaxRateTime
Slot == [pc: {"idle", "count", "add", "refused"}, w: Windows, now: Times]

RateTypeOK ==
    /\ clock \in Times
    /\ window \in [Windows -> [Times -> Nat]]
    /\ entered \in [Windows -> [Times -> Nat]]
    /\ \A w \in Windows, t \in Times : window[w][t] <= entered[w][t]
    /\ slot \in [RateSlots -> Slot]

RwInit ==
    /\ clock = 0
    /\ window = [w \in Windows |-> [t \in Times |-> 0]]
    /\ entered = window
    /\ slot = [s \in RateSlots |-> [pc |-> "idle", w |-> 1, now |-> 0]]

\* The members with a score in T, those of one score numbered.
SizeOf(counts, T) == Cardinality(UNION {{t} \X (1..counts[t]) : t \in T})

ClockTicks == clock < MaxRateTime /\ clock' = clock + 1 /\ UNCHANGED <<window, slot, entered>>

RequestArrives(s) ==
    /\ slot[s].pc = "idle" /\ SizeOf(entered[1], Times) < MaxAdmissions
    /\ slot' = [slot EXCEPT ![s] = [pc |-> "count", w |-> 1, now |-> clock]]
    /\ UNCHANGED <<clock, window, entered>>

Full(n, w) == n >= WindowLimit[w]

Trimmed(w, now) == [t \in Times |-> IF t <= now - WindowLength[w] THEN 0 ELSE window[w][t]]

\* The transaction of _check_window: trim, count.
CountWindow(s) ==
    LET w == slot[s].w
        kept == Trimmed(w, slot[s].now) IN
    /\ slot[s].pc = "count"
    /\ window' = [window EXCEPT ![w] = kept]
    /\ slot' = [slot EXCEPT ![s].pc = IF Full(SizeOf(kept, Times), w) THEN "refused" ELSE "add"]
    /\ UNCHANGED <<clock, entered>>

\* The ZADD; then the next window, or the request is allowed.
AddToWindow(s) ==
    LET w == slot[s].w
        t == slot[s].now IN
    /\ slot[s].pc = "add"
    /\ window' = [window EXCEPT ![w][t] = @ + 1]
    /\ entered' = [entered EXCEPT ![w][t] = @ + 1]
    /\ slot' = [slot EXCEPT ![s] = IF w = 1 THEN [@ EXCEPT !.pc = "count", !.w = 2]
                                 ELSE [pc |-> "idle", w |-> 1, now |-> 0]]
    /\ UNCHANGED clock

\* dispatch answers 429 with what get_remaining reads from the windows.
Refuses(s) ==
    /\ slot[s].pc = "refused"
    /\ slot' = [slot EXCEPT ![s] = [pc |-> "idle", w |-> 1, now |-> 0]]
    /\ UNCHANGED <<clock, window, entered>>

RwNext ==
    \/ ClockTicks
    \/ \E s \in RateSlots : RequestArrives(s) \/ CountWindow(s) \/ AddToWindow(s) \/ Refuses(s)

RwSpec == RwInit /\ [][RwNext]_rwVars

----------------------------------------------------------------------------
\* In no window of time do more requests pass than the limit allows, up to two for
\* every other request in progress: one between its count and its ZADD, and one
\* that counts with an older clock what a later request has already trimmed.
OvershootBounded == \A w \in Windows : \A t \in Times :
    SizeOf(entered[w], {u \in Times : u <= t /\ u > t - WindowLength[w]})
        <= WindowLimit[w] + 2 * (Cardinality(RateSlots) - 1)
=============================================================================
