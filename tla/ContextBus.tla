----------------------------- MODULE ContextBus -----------------------------
(***************************************************************************)
(* The context bus (app/core/context_bus.py), one topic of it: in memory,  *)
(* where publish walks the live list of callbacks and awaits each of them, *)
(* and over Redis, where a message goes to a stream, a snapshot and a      *)
(* Pub/Sub channel, one command after the other, and a listener of each    *)
(* process hands it to the process's callbacks.                            *)
(***************************************************************************)
EXTENDS Integers, Sequences, SequencesExt, FiniteSets

CONSTANTS
    BusMessages, BusTenants,
    BusProcs,           \* processes that subscribe over Redis
    BusChannels,        \* the channels they subscribe to: tenants, or AllTenants
    Elsewhere,          \* any other process
    Callbacks,          \* subscribers of the bus in memory
    BusLog,             \* _max_log_size
    QueryLimit,
    BusLeaves,          \* bound: removals of callbacks
    MaxCallbacks,       \* bound: callbacks of a process
    AllTenants          \* the channel contextbus:*:topic, subscribed by its literal name

ASSUME BusAssumption == BusLog \in Nat \ {0} /\ QueryLimit \in Nat \ {0} /\ BusChannels \subseteq BusTenants \union {AllTenants}
    /\ AllTenants \notin BusTenants /\ Elsewhere \notin BusProcs

VARIABLES
    subs,         \* _subscriptions
    busLog,       \* _message_log
    sent,         \* the messages: tenant, process, place in the list of callbacks, step of the
                  \* publish, and (history) the messages added before its snapshot was written
    heard,        \* how often each callback was called with each message
    leaves,
    steady,       \* history: the callbacks subscribed ever since a publish began
    slid,         \* history: how often a removal moved the list under a publish
    everSent,     \* history: the messages in the order of publication
    \* the Redis bus
    stream,       \* of each tenant
    snapshot,     \* contextbus:snapshot of each tenant: the message, or none
    channels,     \* _pubsub_channels of each process
    tuned,        \* the channels the listener of a process subscribed to
    wired,        \* messages on their way to a listener
    cbs,          \* callbacks in _local_subs of each process
    asked,        \* history: channels a process subscribed to at any time
    rheard        \* how often a message reached the callbacks of a process, and by which way

memVars == <<subs, busLog, sent, heard, leaves, steady, slid, everSent>>
redisVars == <<stream, snapshot, channels, tuned, wired, cbs, asked, rheard>>
cbVars == <<memVars, redisVars>>

NoMessage == "none"
ASSUME MessageAssumption == NoMessage \notin BusMessages
BusTypeOK ==
    /\ subs \in Seq(Callbacks) /\ Len(busLog) <= BusLog
    /\ \A m \in BusMessages : sent[m].pc \in {"new", "calling", "added", "stored", "told", "done"} /\ sent[m].at \in Nat
    /\ \A p \in BusProcs : tuned[p] \subseteq BusTenants \union {AllTenants} /\ wired[p] \in Seq(BusMessages)
    /\ \A t \in BusTenants : snapshot[t] \in BusMessages \union {NoMessage}

BusInit ==
    /\ subs = <<>> /\ busLog = <<>> /\ leaves = 0 /\ everSent = <<>>
    /\ sent = [m \in BusMessages |-> [pc |-> "new", at |-> 1, over |-> {}, tenant |-> CHOOSE t \in BusTenants : TRUE,
                                      proc |-> CHOOSE p \in BusProcs : TRUE]]
    /\ heard = [m \in BusMessages |-> [c \in Callbacks |-> 0]]
    /\ steady = [m \in BusMessages |-> {}] /\ slid = [m \in BusMessages |-> 0]
    /\ stream = [t \in BusTenants |-> <<>>] /\ snapshot = [t \in BusTenants |-> NoMessage]
    /\ cbs = [p \in BusProcs |-> 0] /\ asked = [p \in BusProcs |-> {}]
    /\ channels = [p \in BusProcs |-> {}] /\ tuned = [p \in BusProcs |-> {}]
    /\ wired = [p \in BusProcs |-> <<>>] 
    /\ rheard = [m \in BusMessages |-> [p \in BusProcs |-> [local |-> 0, wire |-> 0]]]

----------------------------------------------------------------------------
\* The bus in memory.
Subscribe(c) ==
    /\ c \notin Range(subs) /\ subs' = Append(subs, c)
    /\ UNCHANGED <<busLog, sent, heard, leaves, steady, slid, everSent>>

\* list.remove: the callbacks behind it move up, under the feet of a publish.
Unsubscribe(c) ==
    \E i \in 1..Len(subs) :
        /\ subs[i] = c /\ subs' = RemoveAt(subs, i)
        /\ steady' = [m \in BusMessages |-> steady[m] \ {c}]
        /\ slid' = [m \in BusMessages |->
                        slid[m] + IF sent[m].pc = "calling" /\ i < sent[m].at THEN 1 ELSE 0]
        /\ leaves < BusLeaves /\ leaves' = leaves + 1
        /\ UNCHANGED <<busLog, sent, heard, everSent>>

Logged(m) == LET all == Append(busLog, m) IN IF Len(all) > BusLog THEN Tail(all) ELSE all
Publish(m) ==
    /\ sent[m].pc = "new"
    /\ \E t \in BusTenants : sent' = [sent EXCEPT ![m].pc = "calling", ![m].tenant = t]
    /\ busLog' = Logged(m) /\ everSent' = Append(everSent, m)
    /\ steady' = [steady EXCEPT ![m] = Range(subs)]
    /\ UNCHANGED <<subs, heard, leaves, slid>>

\* The next callback of the list as it is now; what it raises is logged.
CallNext(m) ==
    /\ sent[m].pc = "calling" /\ UNCHANGED <<subs, busLog, leaves, steady, slid, everSent>>
    /\ IF sent[m].at <= Len(subs)
       THEN /\ heard' = [heard EXCEPT ![m][subs[sent[m].at]] = @ + 1]
            /\ sent' = [sent EXCEPT ![m].at = @ + 1]
       ELSE sent' = [sent EXCEPT ![m].pc = "done"] /\ UNCHANGED heard

Among(s, ms) ==
    LET kept[i \in 0..Len(s)] ==
            IF i = 0 THEN <<>> ELSE IF s[i] \in ms THEN Append(kept[i - 1], s[i]) ELSE kept[i - 1]
    IN kept[Len(s)]
OfTenant(s, t) == Among(s, {m \in BusMessages : sent[m].tenant = t})
LastOf(s, n) == IF Len(s) <= n THEN s ELSE SubSeq(s, Len(s) - n + 1, Len(s))
Query(t) == LastOf(OfTenant(busLog, t), QueryLimit)

MemNext == \/ \E c \in Callbacks : Subscribe(c) \/ Unsubscribe(c)
           \/ \E m \in BusMessages : Publish(m) \/ CallNext(m)

----------------------------------------------------------------------------
\* The bus over Redis.  RedisContextBus.subscribe: a callback of a process, for one tenant or all.
RedisSubscribe(p, ch) ==
    /\ cbs[p] < MaxCallbacks /\ cbs' = [cbs EXCEPT ![p] = @ + 1]
    /\ channels' = [channels EXCEPT ![p] = @ \union {ch}] /\ asked' = [asked EXCEPT ![p] = @ \union {ch}]
    /\ UNCHANGED <<sent, everSent, stream, snapshot, tuned, wired, rheard>>
\* The channel of the call that removes the last callback is forgotten; the listener
\* stays tuned to it.
RedisUnsubscribe(p, ch) ==
    /\ cbs[p] > 0 /\ cbs' = [cbs EXCEPT ![p] = @ - 1]
    /\ channels' = [channels EXCEPT ![p] = IF cbs[p] = 1 THEN @ \ {ch} ELSE @]
    /\ UNCHANGED <<sent, everSent, stream, snapshot, tuned, wired, asked, rheard>>

\* The listener subscribes to the channels there are and then only listens.
ListenerTunes(p) ==
    /\ channels[p] # {} /\ tuned[p] = {} /\ tuned' = [tuned EXCEPT ![p] = channels[p]]
    /\ UNCHANGED <<sent, everSent, stream, snapshot, channels, wired, rheard, cbs, asked>>

\* The connection breaks: what was under way is lost, and the listener subscribes anew.
ListenerBreaks(p) ==
    /\ tuned[p] # {} /\ tuned' = [tuned EXCEPT ![p] = {}] /\ wired' = [wired EXCEPT ![p] = <<>>]
    /\ UNCHANGED <<sent, everSent, stream, snapshot, channels, rheard, cbs, asked>>

\* publish: XADD, SETEX, PUBLISH, and the callbacks of the process itself.
XAdd(m) ==
    /\ sent[m].pc = "new"
    /\ \E t \in BusTenants, p \in BusProcs \union {Elsewhere} :
        /\ sent' = [sent EXCEPT ![m].pc = "added", ![m].tenant = t, ![m].proc = p]
        /\ stream' = [stream EXCEPT ![t] = Append(@, m)]
    /\ everSent' = Append(everSent, m)
    /\ UNCHANGED <<snapshot, channels, tuned, wired, rheard, cbs, asked>>
\* The messages behind m in its stream.
Behind(t, m) == {n \in Range(stream[t]) : \E i, j \in 1..Len(stream[t]) : i < j /\ stream[t][i] = m /\ stream[t][j] = n}
\* Mutant: a snapshot that exists is kept.
SetSnapshot_First(m) ==
    /\ sent[m].pc = "added"
    /\ sent' = [sent EXCEPT ![m].pc = "stored", ![m].over = Behind(sent[m].tenant, m)]
    /\ snapshot' = [snapshot EXCEPT ![sent[m].tenant] = IF @ = NoMessage THEN m ELSE @]
    /\ UNCHANGED <<everSent, stream, channels, tuned, wired, rheard, cbs, asked>>
SetSnapshot(m) ==
    /\ sent[m].pc = "added"
    /\ sent' = [sent EXCEPT ![m].pc = "stored", ![m].over = Behind(sent[m].tenant, m)]
    /\ snapshot' = [snapshot EXCEPT ![sent[m].tenant] = m]
    /\ UNCHANGED <<everSent, stream, channels, tuned, wired, rheard, cbs, asked>>
Announce(m) ==
    /\ sent[m].pc = "stored" /\ sent' = [sent EXCEPT ![m].pc = "told"]
    /\ wired' = [p \in BusProcs |-> IF sent[m].tenant \in tuned[p] THEN Append(wired[p], m) ELSE wired[p]]
    /\ UNCHANGED <<everSent, stream, snapshot, channels, tuned, rheard, cbs, asked>>
CallLocal(m) ==
    /\ sent[m].pc = "told" /\ sent' = [sent EXCEPT ![m].pc = "done"]
    /\ rheard' = IF sent[m].proc # Elsewhere /\ cbs[sent[m].proc] > 0
                 THEN [rheard EXCEPT ![m][sent[m].proc].local = @ + 1] ELSE rheard
    /\ UNCHANGED <<everSent, stream, snapshot, channels, tuned, wired, cbs, asked>>
\* Every callback of the topic in the process is called, whatever tenant it asked for.
ListenerHears(p) ==
    /\ wired[p] # <<>> /\ wired' = [wired EXCEPT ![p] = Tail(@)]
    /\ rheard' = IF cbs[p] > 0 THEN [rheard EXCEPT ![Head(wired[p])][p].wire = @ + 1] ELSE rheard
    /\ UNCHANGED <<sent, everSent, stream, snapshot, channels, tuned, cbs, asked>>
\* query reads the oldest entries of the stream.
RedisQuery(t) == SubSeq(stream[t], 1, IF Len(stream[t]) < QueryLimit THEN Len(stream[t]) ELSE QueryLimit)

RedisNext ==
    /\ UNCHANGED <<subs, busLog, heard, leaves, steady, slid>>
    /\ \/ \E p \in BusProcs : \/ \E ch \in BusChannels : RedisSubscribe(p, ch) \/ RedisUnsubscribe(p, ch)
                              \/ ListenerTunes(p) \/ ListenerBreaks(p) \/ ListenerHears(p)
       \/ \E m \in BusMessages : XAdd(m) \/ SetSnapshot(m) \/ Announce(m) \/ CallLocal(m)

----------------------------------------------------------------------------
\* A callback that was subscribed throughout a publish is called exactly once, however
\* others come and go meanwhile, except that each removal in front of the place the
\* publish has reached makes it pass over one callback.
SteadyHear == \A m \in BusMessages :
    /\ \A c \in steady[m] : heard[m][c] <= 1
    /\ sent[m].pc = "done" => Cardinality({c \in steady[m] : heard[m][c] = 0}) <= slid[m]

\* A query has the latest messages of its tenant and of nobody else, with no gap,
\* although all tenants share the log and its bound.
QueryIsRecent == \A t \in BusTenants :
    busLog # <<>> => IsSuffix(Query(t), OfTenant(everSent, t))

\* When no publish is between its two commands, the snapshot a tenant reads is behind
\* the stream only by messages whose publish overlapped with its own; a query has the
\* oldest entries of the stream.
SnapshotIsRecent == \A t \in BusTenants :
    /\ (stream[t] # <<>> /\ \A m \in Range(stream[t]) : sent[m].pc # "added") =>
        /\ snapshot[t] # NoMessage
        /\ Behind(t, snapshot[t]) \subseteq sent[snapshot[t]].over
    /\ RedisQuery(t) # <<>> => IsPrefix(RedisQuery(t), OfTenant(everSent, t))

\* A process hears a message of the wire once and only on a channel it asked for; only
\* the publishing process hears a message a second time, from the publish itself.
HeardAsAsked == \A m \in BusMessages, p \in BusProcs :
    /\ rheard[m][p].wire <= (IF sent[m].tenant \in asked[p] THEN 1 ELSE 0)
    /\ rheard[m][p].local <= (IF p = sent[m].proc THEN 1 ELSE 0)
=============================================================================
