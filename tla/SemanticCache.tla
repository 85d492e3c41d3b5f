--------------------------- MODULE SemanticCache ----------------------------
(***************************************************************************)
(* SemanticCache of the Python engine (app/gateway/cache.py): an LRU in    *)
(* the process, exact answers in Redis, and answers in Redis under a key   *)
(* made of the quantised embedding.  A chat looks its request up, and on a *)
(* miss stores the answer it got; each Redis command and each embedding is *)
(* a step, and other chats run in between.                                 *)
(*                                                                         *)
(* A prompt is a model value; prompts of one class have the same quantised *)
(* embedding.  An answer is the request it was made for.  Redis entries    *)
(* may expire at any time, the LRU has no expiry.  Requests with tools     *)
(* never touch the cache and are left out.                                 *)
(***************************************************************************)
EXTENDS Naturals, Sequences, SequencesExt

CONSTANTS
    CacheRequests,      \* the requests chats make: model, prompt, temperature
    ClassOf,            \* the embedding class of a prompt
    Chats,              \* chats in progress
    L1Capacity,
    MaxChats,           \* bound: chats started
    NoAnswer

ASSUME CacheAssumption ==
    /\ L1Capacity \in Nat \ {0} /\ MaxChats \in Nat
    /\ CacheRequests # {} /\ \A r \in CacheRequests : r.prompt \in DOMAIN ClassOf

VARIABLES l1, l2, l3, chat, started

scVars == <<l1, l2, l3, chat, started>>

----------------------------------------------------------------------------
\* _exact_key: the whole request.
ExactKey(r) == <<r.model, r.prompt, r.temperature>>

\* Mutant: the model is left out of the hash.
SemanticKey_NoModel(r) == <<ClassOf[r.prompt]>>
\* _semantic_key: the embedding and the model, not the temperature.
SemanticKey(r) == <<ClassOf[r.prompt], r.model>>

ExactKeys == {ExactKey(r) : r \in CacheRequests}
SemanticKeys == {SemanticKey(r) : r \in CacheRequests}
Chat == [pc: {"idle", "l2", "embed", "l3", "calling", "set", "embed2", "hset", "served"},
         req: CacheRequests, answer: CacheRequests \union {NoAnswer}]

SemanticCacheTypeOK ==
    /\ l1 \in Seq([key: ExactKeys, answer: CacheRequests])
    /\ l2 \in [ExactKeys -> CacheRequests \union {NoAnswer}]
    /\ l3 \in [SemanticKeys -> CacheRequests \union {NoAnswer}]
    /\ chat \in [Chats -> Chat]
    /\ started \in 0..MaxChats

ScInit ==
    /\ l1 = <<>>
    /\ l2 = [k \in ExactKeys |-> NoAnswer]
    /\ l3 = [k \in SemanticKeys |-> NoAnswer]
    /\ chat \in [Chats -> [pc: {"idle"}, req: {CHOOSE r \in CacheRequests : TRUE}, answer: {NoAnswer}]]
    /\ started = 0

\* _l1_set: the entry becomes the newest, the oldest are evicted.
L1Set(key, answer) ==
    LET rest == RemoveFirstMatch(l1, LAMBDA e : e.key = key)
        s == Append(rest, [key |-> key, answer |-> answer]) IN
    IF Len(s) > L1Capacity THEN Tail(s) ELSE s
InL1(key) == {e \in Range(l1) : e.key = key}

To(c, pc) == chat' = [chat EXCEPT ![c].pc = pc]
Serve(c, a) == chat' = [chat EXCEPT ![c].pc = "served", ![c].answer = a]

----------------------------------------------------------------------------
\* lookup: L1 without an await, then L2, the embedding, L3.
Lookup(c, r) ==
    /\ chat[c].pc = "idle" /\ started < MaxChats /\ started' = started + 1
    /\ \/ \E e \in InL1(ExactKey(r)) :
            /\ l1' = L1Set(e.key, e.answer)
            /\ chat' = [chat EXCEPT ![c] = [pc |-> "served", req |-> r, answer |-> e.answer]]
       \/ /\ InL1(ExactKey(r)) = {}
          /\ chat' = [chat EXCEPT ![c] = [pc |-> "l2", req |-> r, answer |-> NoAnswer]]
          /\ UNCHANGED l1
    /\ UNCHANGED <<l2, l3>>

LookupL2(c) ==
    LET key == ExactKey(chat[c].req) IN
    /\ chat[c].pc = "l2"
    /\ \/ l2[key] = NoAnswer /\ To(c, "embed") /\ UNCHANGED l1
       \/ l2[key] # NoAnswer /\ Serve(c, l2[key]) /\ l1' = L1Set(key, l2[key])
    /\ UNCHANGED <<l2, l3, started>>

\* The embedding; a short text, an empty vector or an error gives no key.
Embed(c) ==
    /\ chat[c].pc \in {"embed", "embed2"}
    /\ \/ To(c, IF chat[c].pc = "embed" THEN "l3" ELSE "hset")
       \/ To(c, IF chat[c].pc = "embed" THEN "calling" ELSE "served")
    /\ UNCHANGED <<l1, l2, l3, started>>

LookupL3(c) ==
    LET hit == l3[SemanticKey(chat[c].req)] IN
    /\ chat[c].pc = "l3"
    /\ \/ hit = NoAnswer /\ To(c, "calling") /\ UNCHANGED l1
       \/ hit # NoAnswer /\ Serve(c, hit) /\ l1' = L1Set(ExactKey(chat[c].req), hit)
    /\ UNCHANGED <<l2, l3, started>>

\* The provider answers and store puts the answer in L1.
Store(c) ==
    /\ chat[c].pc = "calling"
    /\ chat' = [chat EXCEPT ![c].pc = "set", ![c].answer = chat[c].req]
    /\ l1' = L1Set(ExactKey(chat[c].req), chat[c].req)
    /\ UNCHANGED <<l2, l3, started>>

StoreL2(c) ==
    /\ chat[c].pc = "set" /\ To(c, "embed2")
    /\ l2' = [l2 EXCEPT ![ExactKey(chat[c].req)] = chat[c].answer]
    /\ UNCHANGED <<l1, l3, started>>

StoreL3(c) ==
    /\ chat[c].pc = "hset" /\ To(c, "served")
    /\ l3' = [l3 EXCEPT ![SemanticKey(chat[c].req)] = chat[c].answer]
    /\ UNCHANGED <<l1, l2, started>>

ChatEnds(c) == chat[c].pc = "served" /\ To(c, "idle") /\ UNCHANGED <<l1, l2, l3, started>>

\* A key of L2 expires; so does a bucket of L3, whose time to live every HSET renews.
CacheExpires ==
    /\ \/ \E k \in ExactKeys : l2[k] # NoAnswer /\ l2' = [l2 EXCEPT ![k] = NoAnswer] /\ UNCHANGED l3
       \/ \E k \in SemanticKeys : l3[k] # NoAnswer /\ l3' = [l3 EXCEPT ![k] = NoAnswer] /\ UNCHANGED l2
    /\ UNCHANGED <<l1, chat, started>>

ScNext ==
    \/ \E c \in Chats :
        \/ \E r \in CacheRequests : Lookup(c, r)
        \/ LookupL2(c) \/ Embed(c) \/ LookupL3(c) \/ Store(c) \/ StoreL2(c) \/ StoreL3(c) \/ ChatEnds(c)
    \/ CacheExpires

ScSpec == ScInit /\ [][ScNext]_scVars

----------------------------------------------------------------------------
\* Whatever level answers, and whoever filled it, the answer was given by the
\* requested model to a prompt of the same class.
ServedForTheQuestion == \A c \in Chats : chat[c].pc = "served" =>
    /\ chat[c].answer.model = chat[c].req.model
    /\ ClassOf[chat[c].answer.prompt] = ClassOf[chat[c].req.prompt]

\* The LRU holds one entry per key and never more than its capacity, with hits of
\* all three levels and stores of several chats filling it.
L1WithinCapacity ==
    Len(l1) <= L1Capacity /\ \A i, j \in 1..Len(l1) : l1[i].key = l1[j].key => i = j
=============================================================================
