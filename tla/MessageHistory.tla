--------------------------- MODULE MessageHistory ---------------------------
(***************************************************************************)
(* What the agent runtime does to a conversation before it is sent to a    *)
(* provider (app/agent/runtime.py): the repair of tool calls without       *)
(* results and results without calls, the pruning of a long history, and   *)
(* the conversion of histories in other providers' formats                 *)
(* (app/agent/message_codec.py).                                           *)
(*                                                                         *)
(* A message is its role, the ids of its tool calls, the id a tool result  *)
(* answers, and a tag that tells messages apart; texts are left out, and   *)
(* so is the shortening of a tool result, which changes its text only.     *)
(***************************************************************************)
EXTENDS Integers, Sequences, SequencesExt, FiniteSetsExt, FiniteSets

CONSTANTS
    CallIds, NoId,
    HistoryIds,         \* the ids in the histories that are tried
    HistoryLimit,       \* CompactionConfig.max_messages
    MaxHistory          \* bound: length of the histories that are tried

ASSUME HistoryAssumption ==
    /\ HistoryLimit \in Nat \ {0} /\ MaxHistory \in Nat
    /\ NoId \notin CallIds /\ HistoryIds \subseteq CallIds /\ IsFiniteSet(CallIds)

VARIABLES history, blocks     \* a neutral history, and one with content blocks

mhVars == <<history, blocks>>

----------------------------------------------------------------------------
\* A step of the code's loops for each member of a sequence in turn.
Through(Step(_, _), from, s) ==
    LET after[k \in 0..Len(s)] == IF k = 0 THEN from ELSE Step(after[k - 1], s[k]) IN after[Len(s)]

\* make_message: only a tool message has a tool_call_id.
Text(role, tag) == [role |-> role, calls |-> {}, id |-> NoId, tag |-> tag]
CallMsg(ids, tag) == [Text("assistant", tag) EXCEPT !.calls = ids]
ToolMsg(id) == [Text("tool", NoId) EXCEPT !.id = id]
Calls(m) == m.role = "assistant" /\ m.calls # {}

\* What providers accept: results come right after the message that made the call,
\* and every call has one.
GroupEnd(s, i) == Max({j \in i..Len(s) : \A k \in (i + 1)..j : s[k].role = "tool"})
WellFormed(s) == \A i \in 1..Len(s) :
    /\ Calls(s[i]) => s[i].calls = {s[k].id : k \in (i + 1)..GroupEnd(s, i)}
    /\ s[i].role = "tool" => i > 1 /\ (s[i - 1].role = "tool" \/ Calls(s[i - 1]))

----------------------------------------------------------------------------
\* _flush_pending: the held message keeps the calls that were answered.
Flushed(acc) ==
    LET answered == {acc.group[k].id : k \in 2..Len(acc.group)}
        held == [acc.group[1] EXCEPT !.calls = @ \intersect answered] IN
    IF acc.group = <<>> THEN acc
    ELSE [out |-> acc.out \o <<held>> \o Tail(acc.group), group |-> <<>>]

\* _ensure_valid_tool_sequence: a message with calls is held back with the results
\* that answer it; other results are dropped.
Repaired(acc, m) ==
    IF Calls(m) THEN [Flushed(acc) EXCEPT !.group = <<m>>]
    ELSE IF m.role = "tool"
    THEN IF acc.group # <<>> /\ m.id \in acc.group[1].calls THEN [acc EXCEPT !.group = Append(@, m)] ELSE acc
    ELSE [Flushed(acc) EXCEPT !.out = Append(@, m)]
EnsureValid(s) == Flushed(Through(Repaired, [out |-> <<>>, group |-> <<>>], s)).out

\* Where the kept part starts: at the budget, or as far back as the call of the
\* first result in it.  Positions count from 0.
StartOf(s, budget) ==
    LET first == Max({0, Len(s) - budget})
        begin == IF first > 0 /\ first < Len(s) /\ s[first + 1].role = "tool" THEN first - 1 ELSE first
        PairOf(i) == Max({0} \union {j \in 1..(i - 1) : Calls(s[j])})
        Unpaired(b) == {i \in (b + 1)..Len(s) :
            s[i].role = "tool" /\ ~(i > b + 1 /\ Calls(s[i - 1])) /\ PairOf(i) > 0}
        Extend[b \in 0..Len(s)] ==
            LET need == Min({b} \union {PairOf(i) - 1 : i \in Unpaired(b)}) IN
            IF need = b THEN b ELSE Extend[need]
    IN Extend[begin]

SystemKept(out, m) == IF m.role = "system" THEN Append(out, m) ELSE out
OtherKept(out, m) == IF m.role # "system" THEN Append(out, m) ELSE out
Systems(s) == Through(SystemKept, <<>>, s)
Others(s) == Through(OtherKept, <<>>, s)
\* _prune_messages: the system messages and the most recent others.
Prune(s) ==
    LET budget == HistoryLimit - Len(Systems(s))
        recent == SubSeq(Others(s), StartOf(Others(s), budget) + 1, Len(Others(s))) IN
    IF budget <= 0 THEN Systems(s) ELSE Systems(s) \o recent

\* _compact_messages, strategy "auto": above the limit pruned; below it pruned too
\* when the token estimate says so, otherwise unchanged or with shorter results.
Compactions(s) == IF Len(s) > HistoryLimit THEN {Prune(s)} ELSE {s, Prune(s)}

\* The last clean-up before a call: results without calls in the message of the
\* assistant before them are dropped.
Cleaned(acc, m) ==
    IF m.role = "tool" /\ ~acc.open THEN acc
    ELSE [out |-> Append(acc.out, m), open |-> IF m.role = "assistant" THEN m.calls # {} ELSE acc.open]
PreCallClean(s) == Through(Cleaned, [out |-> <<>>, open |-> FALSE], s).out

----------------------------------------------------------------------------
\* A message made of content blocks: whether it has text, its calls, its results in
\* their order.
Block == [role: {"user", "assistant"}, text: BOOLEAN, uses: SUBSET HistoryIds,
          results: UNION {SetToSeqs(S) : S \in SUBSET HistoryIds}]

Spoken(b) == IF b.uses # {} THEN <<CallMsg(b.uses, NoId)>>
             ELSE IF b.text THEN <<Text(b.role, NoId)>> ELSE <<>>
ResultsOf(b) == [k \in 1..Len(b.results) |-> ToolMsg(b.results[k])]
\* from_anthropic: the text comes before the results; from_gemini: after them.
AnthropicStep(out, b) == out \o Spoken(b) \o ResultsOf(b)
GeminiStep(out, b) == out \o ResultsOf(b) \o Spoken(b)
FromAnthropic(bs) == Through(AnthropicStep, <<>>, bs)
FromGemini(bs) == Through(GeminiStep, <<>>, bs)

----------------------------------------------------------------------------
MhInit == history = <<>> /\ blocks = <<>>

Letters == {Text(r, NoId) : r \in {"system", "user", "assistant"}}
    \union {CallMsg(S, NoId) : S \in (SUBSET HistoryIds) \ {{}}} \union {ToolMsg(c) : c \in HistoryIds}
\* A conversation in blocks alternates: calls are answered by the next message.
Follows(b) ==
    /\ b.role = (IF Len(blocks) % 2 = 0 THEN "user" ELSE "assistant")
    /\ b.role = "user" => b.uses = {} /\ Range(b.results) = (IF blocks = <<>> THEN {} ELSE Last(blocks).uses)
    /\ b.role = "assistant" => b.results = <<>>
    /\ b.text \/ b.uses # {} \/ b.results # <<>>
MhNext ==
    \/ Len(history) < MaxHistory /\ blocks = <<>> /\ \E m \in Letters : history' = Append(history, m) /\ UNCHANGED blocks
    \/ Len(blocks) < MaxHistory /\ history = <<>>
       /\ \E b \in Block : Follows(b) /\ blocks' = Append(blocks, b) /\ UNCHANGED history

----------------------------------------------------------------------------
SaidKept(out, m) == IF m.role # "tool" THEN Append(out, <<m.role, m.tag>>) ELSE out
RolesOf(s) == Through(SaidKept, <<>>, s)
\* Whatever a cache or a client holds, _ensure_valid_tool_sequence makes a history
\* that providers accept, loses no message but tool results, and changes nothing
\* about a history that was already valid.
RepairIsSound ==
    LET fixed == EnsureValid(history) IN
    /\ WellFormed(fixed) /\ RolesOf(fixed) = RolesOf(history)
    /\ WellFormed(history) => fixed = history

\* Pruning a valid history leaves a valid one that ends like it, with all system
\* messages, over the limit by no more than the calls and results it had to reach
\* back for: without its leading group the rest fits.  And the last clean-up has
\* nothing to do then.
PruneKeepsPairs == WellFormed(history) =>
    LET kept == Prune(history)
        recent == Others(kept)
        budget == HistoryLimit - Len(Systems(history)) IN
    /\ WellFormed(kept) /\ PreCallClean(kept) = kept
    /\ Systems(kept) = Systems(history) /\ IsSuffix(recent, Others(history))
    /\ recent # <<>> => \/ Len(recent) <= budget
                        \/ Calls(recent[1]) /\ 0 < budget /\ Len(recent) - GroupEnd(recent, 1) < budget

\* A conversation in Anthropic blocks keeps every call and result through conversion
\* and repair, as long as no message has text beside its results; in Gemini's format,
\* where the text comes after the results, it always does.
ConversionsKeepPairs ==
    /\ (\A k \in 1..Len(blocks) : blocks[k].results = <<>> \/ ~blocks[k].text) =>
        LET s == FromAnthropic(blocks) IN blocks # <<>> /\ Last(blocks).uses = {} => EnsureValid(s) = s
    /\ LET s == FromGemini(blocks) IN blocks # <<>> /\ Last(blocks).uses = {} => EnsureValid(s) = s
=============================================================================
