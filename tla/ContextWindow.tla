--------------------------- MODULE ContextWindow ----------------------------
(***************************************************************************)
(* ContextManager of app/context/manager.py: a conversation is compressed  *)
(* when it passes a threshold.  The middle is replaced by a summary from   *)
(* the gateway (tried twice) or by extracts; what is still too long is     *)
(* trimmed; the middle of a degraded compression is handed to the memory   *)
(* service by a background task, which a shutdown waits for.               *)
(*                                                                         *)
(* A message is its role and its tokens, the framing included.             *)
(***************************************************************************)
EXTENDS Integers, Sequences, FiniteSets, SequencesExt, FiniteSetsExt

CONSTANTS
    WindowTokens,     \* max_tokens
    WindowThreshold,  \* max_tokens * compression_threshold
    MessageKinds,     \* records [role, tokens] of messages that may be added
    SummaryTokens,    \* lengths of summaries
    MaxMessages       \* bound

ASSUME WindowAssumption ==
    /\ WindowThreshold \in Nat /\ WindowTokens \in Nat /\ WindowThreshold <= WindowTokens
    /\ MaxMessages \in Nat /\ SummaryTokens \subseteq Nat /\ \A k \in MessageKinds : k.tokens \in Nat

VARIABLES
    cwMsgs,      \* the conversation: sequence of [role, tokens, id]
    cwNext,      \* the number of the next message
    cwCall,      \* the compression that is going on; lost: degraded with no memory service
    cwTasks,     \* _bg_tasks: middles on their way to the memory service
    cwOpen       \* the process runs; FALSE once its shutdown has waited

cwVars == <<cwMsgs, cwNext, cwCall, cwTasks, cwOpen>>

----------------------------------------------------------------------------
NoWindow == [pc |-> "idle", lost |-> FALSE, last |-> <<>>, middle |-> <<>>]
\* The tokens of the messages together: one pair for each.
Tokens(msgs) == Cardinality(UNION {{i} \X (1..msgs[i].tokens) : i \in DOMAIN msgs})
Numbers(msgs) == {m.id : m \in ToSet(msgs)}

\* The first system message is apart from the others, wherever it stands.
SystemAt(msgs) == {i \in DOMAIN msgs : msgs[i].role = "system"}
System(msgs) == IF SystemAt(msgs) = {} THEN <<>> ELSE <<msgs[Min(SystemAt(msgs))]>>
Others(msgs) == IF SystemAt(msgs) = {} THEN msgs ELSE RemoveAt(msgs, Min(SystemAt(msgs)))

Larger(a, b) == IF a > b THEN a ELSE b
KeepTail(msgs) == Larger(4, Len(Others(msgs)) \div 3)
Newest(seq, n) == SubSeq(seq, Len(seq) - n + 1, Len(seq))
Middle(msgs) == SubSeq(Others(msgs), 1, Len(Others(msgs)) - KeepTail(msgs))

\* As many of the newest messages as fit beside the system message, but one.
TrimToFit(msgs) ==
    LET rest == Others(msgs)
        room == WindowTokens - Tokens(System(msgs))
        fits == {n \in 1..Len(rest) : Tokens(Newest(rest, n)) <= room}
    IN IF Tokens(msgs) <= WindowTokens THEN msgs
       ELSE System(msgs) \o Newest(rest, Larger(Max(fits \union {0}), IF rest = <<>> THEN 0 ELSE 1))

WindowTypeOK ==
    /\ cwNext \in 1..(MaxMessages + 1)
    /\ Numbers(cwMsgs) \subseteq 0..(cwNext - 1)
    /\ cwCall.pc \in {"idle", "first", "second", "extract", "done"}
    /\ \A ids \in cwTasks : ids \subseteq 0..(cwNext - 1)
    /\ cwOpen \in BOOLEAN

WindowInit ==
    /\ cwMsgs = <<>> /\ cwNext = 1 /\ cwCall = NoWindow
    /\ cwTasks = {} /\ cwOpen = TRUE

\* The turn adds a message; the system message is there first or not at all.
AddMessage(k) ==
    /\ cwOpen /\ cwCall.pc = "idle" /\ cwNext <= MaxMessages
    /\ k.role = "system" => cwNext = 1
    /\ cwMsgs' = Append(cwMsgs, [role |-> k.role, tokens |-> k.tokens, id |-> cwNext])
    /\ cwNext' = cwNext + 1
    /\ UNCHANGED <<cwCall, cwTasks, cwOpen>>

\* Nothing is done below the threshold, or while four messages are all there are.
\* Without a gateway the extracts are next.
BeginCompress ==
    /\ cwOpen /\ cwCall.pc = "idle"
    /\ Tokens(cwMsgs) > WindowThreshold
    /\ Middle(cwMsgs) # <<>>
    /\ \E step \in {"first", "extract"} :
           cwCall' = [pc |-> step, lost |-> FALSE, last |-> cwMsgs, middle |-> Middle(cwMsgs)]
    /\ UNCHANGED <<cwMsgs, cwNext, cwTasks, cwOpen>>

\* A call of the gateway raises: once more, then the extracts.
SummariseFails ==
    /\ cwCall.pc \in {"first", "second"}
    /\ cwCall' = [cwCall EXCEPT !.pc = IF @ = "first" THEN "second" ELSE "extract"]
    /\ UNCHANGED <<cwMsgs, cwNext, cwTasks, cwOpen>>

\* By extracts, or with its summary at the mercy of the trimming.
Degraded(byExtract, made) == byExtract \/ Tokens(made) > WindowTokens

\* The summary becomes a system message before the tail; the middle of a
\* degraded compression goes to a background task if there is a memory service.
EndCompress(hasMemory) ==
    /\ cwCall.pc \in {"first", "second", "extract"}
    /\ \E size \in SummaryTokens :
       LET summary == [role |-> "system", tokens |-> size, id |-> 0]
           made == System(cwCall.last) \o <<summary>> \o Newest(Others(cwCall.last), KeepTail(cwCall.last))
           degraded == Degraded(cwCall.pc = "extract", made)
       IN /\ cwMsgs' = TrimToFit(made)
          /\ cwTasks' = IF degraded /\ hasMemory THEN cwTasks \union {Numbers(cwCall.middle)} ELSE cwTasks
          /\ cwCall' = [cwCall EXCEPT !.pc = "done", !.lost = degraded /\ ~hasMemory]
    /\ UNCHANGED <<cwNext, cwOpen>>

\* The caller goes on with the list it was given.
Resume ==
    /\ cwCall.pc = "done"
    /\ cwCall' = NoWindow
    /\ UNCHANGED <<cwMsgs, cwNext, cwTasks, cwOpen>>

\* Saved as one summary of an unknown user's, or failed with a warning.
TaskEnds ==
    /\ cwCall.pc # "done"
    /\ \E ids \in cwTasks : cwTasks' = cwTasks \ {ids}
    /\ UNCHANGED <<cwMsgs, cwNext, cwCall, cwOpen>>

\* Tasks that last longer than the time-out of wait_background_tasks are cancelled.
ShutDown ==
    /\ cwOpen /\ cwOpen' = FALSE
    /\ cwCall.pc = "idle"
    /\ cwTasks' = {}
    /\ UNCHANGED <<cwMsgs, cwNext, cwCall>>

WindowNext ==
    \/ \E k \in MessageKinds : AddMessage(k)
    \/ BeginCompress \/ SummariseFails \/ Resume \/ TaskEnds \/ ShutDown
    \/ \E hasMemory \in BOOLEAN : EndCompress(hasMemory)

----------------------------------------------------------------------------
(* Properties.                                                             *)

\* What was said last is never compressed or trimmed away, and nothing in the
\* middle of what is kept is missing: behind the system message stand the newest
\* messages, in their order, and before them at most one summary of the older ones.
NewestAreKept ==
    LET others == Others(cwMsgs) IN
    /\ (\A i \in DOMAIN others : others[i].id = 0) => cwNext <= 2
    /\ \A i \in DOMAIN others : \/ i = 1 /\ others[i].id = 0
                                \/ others[i].id = cwNext - 1 - (Len(others) - i)

\* A compressed conversation fits, unless one message and the system message
\* alone are too long.
FitsOrIsOneMessage ==
    cwCall.pc = "done" => Tokens(cwMsgs) <= WindowTokens \/ Len(Others(cwMsgs)) = 1

\* What a compression takes out is in the summary the gateway gave it, or on its
\* way to the memory service: a summary that is itself trimmed away counts for
\* nothing.
MiddleIsSomewhere ==
    cwCall.pc = "done" =>
        LET first == Len(System(cwCall.last)) + 1 IN
        \/ first \in DOMAIN cwMsgs /\ cwMsgs[first].id = 0
        \/ cwCall.lost
        \/ Numbers(cwCall.middle) \in cwTasks
=============================================================================
