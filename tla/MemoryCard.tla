----------------------------- MODULE MemoryCard -----------------------------
(***************************************************************************)
(* A user's profile card (app/memory/profile_card.py), its cached copy and *)
(* the conflicts that wait for the user (app/memory/conflict_manager.py),  *)
(* under the calls of the service, of the HTTP routes and of the memory    *)
(* tools.  Every await of a call is a step of its own.                     *)
(***************************************************************************)
EXTENDS Integers, FiniteSets

CONSTANTS
    CardCalls,          \* calls in flight
    CardItems,          \* (slot, item_key) pairs
    CardStart,          \* items the user confirmed before
    CardLimit,          \* MAX_ITEMS_LIMIT
    CardOps,            \* bound: calls started in a behaviour
    CardSeconds,        \* bound: seconds that pass, a conflict's id holds the second
    CardHash            \* the other part of the id: an item's, and its owner's, hash modulo 10000

ASSUME CardAssumption == IsFiniteSet(CardCalls) /\ CardStart \subseteq CardItems /\ CardLimit \in Nat /\ CardOps \in Nat /\ CardSeconds \in Nat

Sources == {"user_confirmed", "derived", "tool_written"}
Missing == [source |-> "none", low |-> FALSE, version |-> 0]
NoCard == [i \in {} |-> Missing]

VARIABLES
    card,         \* user_memory_profile: item -> row or Missing
    cached,       \* memory:profile:*: NoCard, or a whole card
    pending,      \* memory:conflict:pending:*: the conflicts that have a record, one for each id
    plisted,      \* memory:conflict:pending_list: the ids of this user's
    derivedCount, \* memory:conflict:derived_count, per item
    call,         \* the calls in flight
    csecond, cops,
    evicting,     \* evict_over_limit: where it stands, and the rows it counted over the limit
    cexcused,     \* history: the cached card went stale in one of the ways the code leaves open
    raised,       \* history: conflicts whose record was stored
    told,         \* history: conflicts reported to a caller
    settled,      \* history: conflicts resolved, denied or expired
    crossed       \* history: conflicts raised again while their id was being taken off the list

mcVars == <<card, cached, pending, plisted, derivedCount, call, csecond, cops, evicting, cexcused, raised, told, settled, crossed>>

\* A conflict is of a second, an item and an owner, this user or any other; its id is the
\* second and the hash, under a key that all users share (_create_conflict_event, _pending_key).
Owners == {"own", "other"}
Conflicts == (0..CardSeconds) \X CardItems \X Owners
Key(d) == <<d[1], CardHash[<<d[2], d[3]>>]>>
SameKey(d) == {e \in pending : Key(e) = Key(d)}
NoEviction == [pc |-> "idle", excess |-> 0]

IdleCall == [pc |-> "idle", kind |-> "none", item |-> "none", source |-> "none", low |-> FALSE, seen |-> Missing,
             shown |-> NoCard, todo |-> {}, id |-> <<>>, fresh |-> {}, old |-> FALSE]

CardTypeOK ==
    /\ \A i \in CardItems : card[i] = Missing \/ (card[i].source \in Sources /\ card[i].version \in 1..(CardOps + 1))
    /\ cached = NoCard \/ DOMAIN cached = CardItems
    /\ pending \subseteq Conflicts /\ plisted \subseteq {Key(d) : d \in Conflicts}
    /\ raised \subseteq Conflicts /\ told \subseteq Conflicts /\ settled \subseteq Conflicts /\ crossed \subseteq Conflicts
    /\ derivedCount \in [CardItems -> 0..CardOps] /\ csecond \in 0..CardSeconds /\ cops \in 0..CardOps
    /\ evicting.pc \in {"idle", "delete", "inv"}

CardInit ==
    /\ card = [i \in CardItems |-> IF i \in CardStart
                                   THEN [source |-> "user_confirmed", low |-> FALSE, version |-> 1]
                                   ELSE Missing]
    /\ cached = NoCard /\ pending = {} /\ plisted = {}
    /\ derivedCount = [i \in CardItems |-> 0] /\ call = [c \in CardCalls |-> IdleCall]
    /\ csecond = 0 /\ cops = 0 /\ cexcused = FALSE /\ raised = {} /\ told = {} /\ settled = {} /\ crossed = {}
    /\ evicting = NoEviction

conflictVars == <<pending, plisted, derivedCount, raised, told, settled, crossed>>
clockVars == <<csecond, cops, evicting>>

----------------------------------------------------------------------------
(* Calls begin.                                                            *)

Begins(c, r) == /\ call[c].pc = "idle" /\ cops < CardOps /\ cops' = cops + 1
                /\ call' = [call EXCEPT ![c] = r]
                /\ UNCHANGED <<card, cached, conflictVars, csecond, evicting, cexcused>>

\* update_profile, upsert, the remember tool, memory_save: an upsert with the caller's source
\* (of the low confidences only a derived one, the others behave alike).
Remember(c) == \E i \in CardItems, s \in Sources, l \in BOOLEAN : (l => s = "derived") /\
    Begins(c, [IdleCall EXCEPT !.pc = "read", !.kind = "upsert", !.item = i, !.source = s, !.low = l])

\* forget: delete_item by slot and key.
Forget(c) == \E i \in CardItems : Begins(c, [IdleCall EXCEPT !.pc = "del", !.kind = "forget", !.todo = {i}])

\* on_session_start, recall and list_entries read the card; update_entry, delete_entry and
\* clear_all look for their entries in it.
ReadCard(c) == \E k \in {"show", "edit", "erase", "clear"} :
    Begins(c, [IdleCall EXCEPT !.pc = "get", !.kind = k])

\* resolve_conflict and delete_conflict read the record; an unknown id is refused.
Decide(c) == \E d \in pending, k \in {"keep_old", "use_new", "deny"} :
    Begins(c, [IdleCall EXCEPT !.pc = "close", !.kind = k, !.id = d])

----------------------------------------------------------------------------
(* get_profile                                                             *)

\* Where a reader goes with the card it was given.
Shown(r, shown, stale) ==
    LET items == {i \in DOMAIN shown : shown[i] # Missing} IN
    CASE r.kind = "clear" -> {[r EXCEPT !.pc = IF items = {} THEN "cleared" ELSE "del", !.todo = items, !.old = stale]}
      [] r.kind = "erase" /\ items # {} -> {[r EXCEPT !.pc = "del", !.todo = {i}] : i \in items}
      [] r.kind = "edit" /\ items # {} ->
            UNION {{[r EXCEPT !.pc = "read", !.item = e[1], !.source = e[2], !.low = shown[i].low] :
                        e \in CardItems \X {"user_confirmed", shown[i].source}} : i \in items}
      [] OTHER -> {IdleCall}

\* get_profile: the cached card, else the table's, which is put in the cache.
GetProfile(c) ==
    /\ call[c].pc = "get"
    /\ IF cached # NoCard
       THEN \E r \in Shown(call[c], cached, cexcused \/ cached # card) : call' = [call EXCEPT ![c] = r]
       ELSE call' = [call EXCEPT ![c].pc = "fill", ![c].shown = card, ![c].fresh = {}]
    /\ UNCHANGED <<card, cached, conflictVars, clockVars, cexcused>>

\* get_profile: an empty card is not cached.
FillCache(c) ==
    /\ call[c].pc = "fill"
    /\ LET empty == \A i \in CardItems : call[c].shown[i] = Missing IN
       /\ cached' = IF empty THEN cached ELSE call[c].shown
       /\ cexcused' = IF empty THEN cexcused ELSE call[c].shown # card
    /\ \E r \in Shown(call[c], call[c].shown, FALSE) : call' = [call EXCEPT ![c] = r]
    /\ UNCHANGED <<card, conflictVars, clockVars>>

----------------------------------------------------------------------------
(* upsert_item                                                             *)

\* _get_item
ReadItem(c) ==
    /\ call[c].pc = "read"
    /\ call' = [call EXCEPT ![c].pc = "detect", ![c].seen = card[call[c].item]]
    /\ UNCHANGED <<card, cached, conflictVars, clockVars, cexcused>>

\* detect_and_handle_conflict: the row read was confirmed and the new value is not.
Contested(r) == r.seen.source = "user_confirmed" /\ r.source # "user_confirmed"

\* detect_and_handle_conflict: a derived value that comes up for the second time is written
\* without asking, whatever the value and whatever was decided meanwhile.
DetectConflict(c) ==
    LET r == call[c]
        n == derivedCount[r.item] + 1
        counts == Contested(r) /\ r.source = "derived"
        asks == Contested(r) /\ ~(counts /\ n >= 2)
    IN /\ r.pc = "detect"
       /\ derivedCount' = IF counts THEN [derivedCount EXCEPT ![r.item] = n] ELSE derivedCount
       /\ call' = IF asks THEN [call EXCEPT ![c].pc = "store", ![c].id = <<csecond, r.item, "own">>] ELSE [call EXCEPT ![c].pc = "write"]
       /\ UNCHANGED <<card, cached, pending, plisted, raised, told, settled, crossed, clockVars, cexcused>>

\* SETEX of a conflict's record, over whatever has the same id.
PutRecord(d) == pending' = (pending \ SameKey(d)) \union {d} /\ raised' = raised \union {d}

\* _store_pending_confirmation: the record.
StorePending(c) ==
    /\ call[c].pc = "store"
    /\ PutRecord(call[c].id) /\ call' = [call EXCEPT ![c].pc = "list"]
    /\ UNCHANGED <<card, cached, plisted, derivedCount, told, settled, crossed, clockVars, cexcused>>

\* Another user's call stores a conflict whose id one of this user's has (others matter to nobody here).
OthersConflict ==
    /\ \E i \in CardItems :
          LET d == <<csecond, i, "other">> IN (\E e \in SameKey(d) : e[3] = "own") /\ PutRecord(d)
    /\ UNCHANGED <<card, cached, plisted, derivedCount, call, told, settled, crossed, clockVars, cexcused>>

\* _store_pending_confirmation: the user's list; the write is blocked and the caller told.
ListPending(c) ==
    /\ call[c].pc = "list"
    /\ plisted' = plisted \union {Key(call[c].id)} /\ told' = told \union {call[c].id}
    /\ settled' = IF call[c].id \in pending THEN settled \ {call[c].id} ELSE settled
    /\ call' = [call EXCEPT ![c] = IdleCall]
    /\ UNCHANGED <<card, cached, pending, derivedCount, raised, crossed, clockVars, cexcused>>

\* Rows that were written are fresh to a clear_all in flight.
Noticed(calls, items) ==
    [d \in CardCalls |-> IF calls[d].kind = "clear" THEN [calls[d] EXCEPT !.fresh = @ \union items]
                                                   ELSE calls[d]]

\* _insert_item fails on a row inserted meanwhile; _update_item of a row deleted meanwhile
\* writes nothing and the call goes on.
WriteItem(c) ==
    LET r == call[c]
        i == r.item
        row == [source |-> r.source, low |-> r.low, version |-> r.seen.version + 1]
    IN /\ r.pc = "write"
       /\ IF r.seen = Missing /\ card[i] # Missing
          THEN call' = [call EXCEPT ![c] = IdleCall] /\ UNCHANGED card
          ELSE /\ card' = IF r.seen # Missing /\ card[i] = Missing THEN card ELSE [card EXCEPT ![i] = row]
               /\ call' = Noticed([call EXCEPT ![c].pc = "inv"], {i})
       /\ UNCHANGED <<cached, conflictVars, clockVars, cexcused>>

----------------------------------------------------------------------------
(* delete_item, _invalidate_cache, archive and eviction                    *)

\* delete_item: the row.
DeleteItem(c) ==
    /\ call[c].pc = "del"
    /\ \E i \in call[c].todo :
          /\ card' = [card EXCEPT ![i] = Missing]
          /\ call' = [call EXCEPT ![c].pc = "inv", ![c].todo = @ \ {i}]
    /\ UNCHANGED <<cached, conflictVars, clockVars, cexcused>>

\* Where a call goes after _invalidate_cache: clear_all deletes the next entry of its list.
AfterInvalidate(r) == CASE r.todo # {} -> [r EXCEPT !.pc = "del"]
                        [] r.todo = {} /\ r.kind = "clear" -> [r EXCEPT !.pc = "cleared"]
                        [] OTHER -> IdleCall

\* Mutant: deleting leaves the cached card.
Invalidate_KeepsDeleted(c) ==
    /\ call[c].pc = "inv"
    /\ IF call[c].kind = "forget" THEN UNCHANGED <<cached, cexcused>> ELSE cached' = NoCard /\ cexcused' = FALSE
    /\ call' = [call EXCEPT ![c] = AfterInvalidate(call[c])]
    /\ UNCHANGED <<card, conflictVars, clockVars>>
\* _invalidate_cache
Invalidate(c) ==
    /\ call[c].pc = "inv"
    /\ cached' = NoCard /\ cexcused' = FALSE
    /\ call' = [call EXCEPT ![c] = AfterInvalidate(call[c])]
    /\ UNCHANGED <<card, conflictVars, clockVars>>

\* clear_all returns to the route.
Cleared(c) ==
    /\ call[c].pc = "cleared" /\ call' = [call EXCEPT ![c] = IdleCall]
    /\ UNCHANGED <<card, cached, conflictVars, clockVars, cexcused>>

\* A statement or a Redis command raises, and the call ends where it stands.
CallFails(c) ==
    /\ call[c].pc \in {"read", "write", "inv", "list", "close", "unlist"}
    /\ cexcused' = (cexcused \/ (call[c].pc = "inv" /\ cached # NoCard))
    /\ call' = [call EXCEPT ![c] = IdleCall]
    /\ UNCHANGED <<card, cached, conflictVars, clockVars>>

\* archive_low_confidence: last_referenced_at is never written, so every unconfirmed row of
\* low confidence goes; the cached card stays.
ArchiveLow ==
    LET gone == {i \in CardItems : card[i].low /\ card[i].source \notin {"none", "user_confirmed"}} IN
    /\ gone # {}
    /\ card' = [i \in CardItems |-> IF i \in gone THEN Missing ELSE card[i]]
    /\ cexcused' = (cexcused \/ cached # NoCard)
    /\ UNCHANGED <<cached, conflictVars, call, clockVars>>

\* evict_over_limit: the count of the unconfirmed rows, the DELETE of as many as were too
\* many, in no order (the sort key is zero for rows without last_referenced_at), and the
\* cached card, in three awaits; an error of the last two is logged.
Loose == {i \in CardItems : card[i].source \in {"derived", "tool_written"}}
Evicts(r) == evicting' = r /\ UNCHANGED <<conflictVars, call, csecond, cops>>
CountOverLimit ==
    /\ evicting.pc = "idle" /\ Cardinality(Loose) > CardLimit
    /\ Evicts([pc |-> "delete", excess |-> Cardinality(Loose) - CardLimit])
    /\ UNCHANGED <<card, cached, cexcused>>
EvictOverLimit ==
    /\ evicting.pc = "delete" /\ Evicts([pc |-> "inv", excess |-> 0])
    /\ \E gone \in SUBSET Loose :
          /\ Cardinality(gone) = evicting.excess \/ (gone = Loose /\ Cardinality(gone) < evicting.excess)
          /\ card' = [i \in CardItems |-> IF i \in gone THEN Missing ELSE card[i]]
    /\ UNCHANGED <<cached, cexcused>>
DropEvicted == evicting.pc = "inv" /\ Evicts(NoEviction) /\ cached' = NoCard /\ cexcused' = FALSE /\ UNCHANGED card
EvictFails ==
    /\ evicting.pc # "idle" /\ Evicts(NoEviction)
    /\ cexcused' = (cexcused \/ (evicting.pc = "inv" /\ cached # NoCard))
    /\ UNCHANGED <<card, cached>>

----------------------------------------------------------------------------
(* The user's decisions                                                    *)

\* resolve_conflict, delete_conflict: the record of that id is deleted, whatever it has become
\* since it was read; of two decisions that have read it, both go on.
CloseConflict(c) ==
    LET d == call[c].id IN
    /\ call[c].pc = "close"
    /\ pending' = pending \ SameKey(d) /\ settled' = settled \union {d}
    /\ call' = [call EXCEPT ![c].pc = "unlist"]
    /\ UNCHANGED <<card, cached, plisted, derivedCount, raised, told, crossed, clockVars, cexcused>>

\* resolve_conflict: off its owner's list, then use_new (or a manual value) is written as
\* confirmed to the card of the caller; keep_old writes nothing.
UnlistConflict(c) ==
    LET r == call[c] IN
    /\ r.pc = "unlist" /\ plisted' = IF r.id[3] = "own" THEN plisted \ {Key(r.id)} ELSE plisted
    /\ crossed' = crossed \union SameKey(r.id)
    /\ call' = [call EXCEPT ![c] = IF r.kind = "use_new"
                                   THEN [IdleCall EXCEPT !.pc = "read", !.kind = "upsert",
                                                         !.item = r.id[2], !.source = "user_confirmed"]
                                   ELSE IdleCall]
    /\ UNCHANGED <<card, cached, pending, derivedCount, raised, told, settled, clockVars, cexcused>>

\* A key of Redis reaches its TTL: the cached card, a count, a conflict (seven days: no call
\* that has just written one of the two is still at it).
Expires ==
    /\ \/ cached # NoCard /\ cached' = NoCard /\ cexcused' = FALSE /\ UNCHANGED <<pending, settled, derivedCount>>
       \/ \E d \in pending : /\ \A c \in CardCalls : call[c].id # d
                            /\ pending' = pending \ {d} /\ settled' = settled \union {d}
                            /\ UNCHANGED <<cached, cexcused, derivedCount>>
       \/ \E i \in CardItems : /\ \A c \in CardCalls : ~(call[c].pc = "write" /\ call[c].item = i)
                               /\ derivedCount[i] # 0 /\ derivedCount' = [derivedCount EXCEPT ![i] = 0]
                               /\ UNCHANGED <<cached, cexcused, pending, settled>>
    /\ UNCHANGED <<card, plisted, raised, told, crossed, call, clockVars>>

SecondPasses == /\ csecond < CardSeconds /\ csecond' = csecond + 1
                /\ UNCHANGED <<card, cached, conflictVars, call, cops, evicting, cexcused>>

CardNext ==
    \/ \E c \in CardCalls :
          \/ Remember(c) \/ Forget(c) \/ ReadCard(c) \/ Decide(c) \/ GetProfile(c) \/ FillCache(c) \/ ReadItem(c)
          \/ DetectConflict(c) \/ StorePending(c) \/ ListPending(c) \/ WriteItem(c) \/ DeleteItem(c) \/ Invalidate(c)
          \/ Cleared(c) \/ CallFails(c) \/ CloseConflict(c) \/ UnlistConflict(c)
    \/ ArchiveLow \/ CountOverLimit \/ EvictOverLimit \/ DropEvicted \/ EvictFails
    \/ OthersConflict \/ Expires \/ SecondPasses

----------------------------------------------------------------------------
(* Properties                                                              *)

\* The cached card differs from the table only while a writer has still to drop it, or after
\* one of the openings the code leaves: a reader that put back what it read before a write, an
\* archive, a Redis error (get_profile, _invalidate_cache).
StaleCardIsExplained ==
    cached # NoCard /\ cached # card => cexcused \/ evicting.pc = "inv" \/ \E c \in CardCalls : call[c].pc = "inv"

\* What the user confirmed is replaced by something unconfirmed only by a writer that read
\* the row before it was confirmed, or by a derived value of an item that came up twice
\* (upsert_item, detect_and_handle_conflict).
ConfirmedStays ==
    [][\A i \in CardItems :
          card[i].source = "user_confirmed" /\ card'[i].source \in {"derived", "tool_written"}
            => \E c \in CardCalls : /\ call[c].pc = "write" /\ call[c].item = i
                                    /\ call[c].seen.source # "user_confirmed"
                                       \/ (call[c].source = "derived" /\ derivedCount[i] >= 2)]_mcVars

\* A conflict reported to a caller waits, with its record and on the user's list, for a
\* decision or its TTL.  Only an id that is not its own takes it away: that of a conflict of
\* another item or user, in the same second and of the same hash, whose record replaces it and
\* whose decision deletes it, or its own again, raised in the second it was decided in, between
\* the two deletions of the decision (_store_pending_confirmation, resolve_conflict).
SharesKey(d) == \E e \in raised : e # d /\ Key(e) = Key(d)
ToldConflictsWait == \A d \in told \ settled :
    SharesKey(d) \/ (d \in pending /\ (Key(d) \in plisted \/ d \in crossed))

\* When clear_all returns, an entry that is left was written while it ran, or the list it
\* went through came from a stale cached card (clear_all).
ClearAllClears ==
    \A c \in CardCalls : call[c].pc = "cleared" /\ ~call[c].old =>
        \A i \in CardItems : card[i] # Missing => i \in call[c].fresh
=============================================================================
