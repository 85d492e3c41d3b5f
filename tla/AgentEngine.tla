---------------------------- MODULE AgentEngine -----------------------------
(***************************************************************************)
(* The stand-alone agent engine (app/agent/engine.py): runs load a whole   *)
(* session, append to their copy and write it back; tools are executed     *)
(* concurrently or after an approval.                                      *)
(*                                                                         *)
(* With it the inference loop without tools of its own (run_agent and      *)
(* run_agent_with_llm_provider in app/agent/loop.py), whose caller         *)
(* executes the tools: what a stream of chunks becomes as a stream of      *)
(* events.                                                                 *)
(*                                                                         *)
(* A message is [run, kind, n]: a user's, an assistant's, one with n calls *)
(* or the result of call n.                                                *)
(***************************************************************************)
EXTENDS Integers, Sequences, SequencesExt, FiniteSets

CONSTANTS
    EngineRuns,
    EngineTurns,        \* max_turns
    TurnCalls,          \* bound: calls of a turn
    MaxChunks           \* bound: chunks of a stream

ASSUME EngineAssumption == EngineTurns \in Nat \ {0} /\ TurnCalls \in Nat \ {0} /\ MaxChunks \in Nat

VARIABLES
    erun,         \* the runs of the session: place, turns, calls of the turn with their results, events
    copy,         \* a run's copy of the messages
    sessRow,      \* messages_json of the session's row
    awaiting,     \* _pending_approvals: calls that wait for a decision, as <<run, call>>
    chunks        \* the chunks of the stream that the loop reads

enVars == <<erun, copy, sessRow, awaiting>>
alVars == <<chunks>>

Msg(r, kind, n) == [run |-> r, kind |-> kind, n |-> n]
\* What became of a call: "answer" is what the tool returned, or an error for a refusal, a
\* time-out, a cancellation or a failure; "raises" is a result that json.dumps cannot write.
Outcome == {"open", "answer", "raises"}
EnTypeOK == \A r \in EngineRuns :
    /\ erun[r].pc \in {"new", "model", "tools", "results", "saving", "over", "refused"}
    /\ erun[r].turns \in 0..EngineTurns /\ Len(erun[r].calls) <= TurnCalls
    /\ \A i \in 1..Len(erun[r].calls) : erun[r].calls[i].out \in Outcome
    /\ \A w \in awaiting : w[1] \in EngineRuns /\ w[2] \in 1..TurnCalls

EnInit ==
    /\ erun = [r \in EngineRuns |-> [pc |-> "new", turns |-> 0, calls |-> <<>>, given |-> 0, cut |-> FALSE, base |-> <<>>]]
    /\ copy = [r \in EngineRuns |-> <<>>] /\ sessRow = <<>> /\ awaiting = {}

----------------------------------------------------------------------------
Adds(r, ms) == copy' = [copy EXCEPT ![r] = @ \o ms]
\* The session is loaded, the user's message added; the input guard may refuse, and
\* then nothing is saved.
EngineStart(r) ==
    /\ erun[r].pc = "new"
    /\ copy' = [copy EXCEPT ![r] = Append(sessRow, Msg(r, "user", 0))]
    /\ \E pc \in {"model", "refused"} : erun' = [erun EXCEPT ![r].pc = pc, ![r].base = sessRow]
    /\ UNCHANGED <<sessRow, awaiting>>

\* The model's answer: text and the end, an error, or calls, each with the guard's verdict.
ModelAnswers(r) ==
    /\ erun[r].pc = "model" /\ UNCHANGED <<sessRow, awaiting>>
    /\ \/ erun[r].turns = EngineTurns /\ erun' = [erun EXCEPT ![r].pc = "saving"] /\ UNCHANGED copy
       \/ erun[r].turns < EngineTurns /\ erun' = [erun EXCEPT ![r].pc = "saving"]
          /\ (Adds(r, <<Msg(r, "assistant", 0)>>) \/ UNCHANGED copy)
       \/ /\ erun[r].turns < EngineTurns /\ UNCHANGED copy
          /\ \E n \in 1..TurnCalls : \E v \in [1..n -> {"auto", "approve", "block"}] :
              erun' = [erun EXCEPT ![r].pc = "tools", ![r].turns = @ + 1, ![r].given = 0,
                          ![r].calls = [i \in 1..n |-> [verdict |-> v[i], out |-> IF v[i] = "block" THEN "answer" ELSE "open"]]]

Open(r, verdict) == {i \in 1..Len(erun[r].calls) : erun[r].calls[i].out = "open" /\ erun[r].calls[i].verdict = verdict}
Settles(r, i, out) == erun' = [erun EXCEPT ![r].calls[i].out = out]
\* The run leaves its turn, whose results are gone.
Leaves(r, pc, cut) == erun' = [erun EXCEPT ![r].pc = pc, ![r].cut = cut, ![r].calls = <<>>, ![r].given = 0]

\* _execute_single_tool cancels its own task before it starts the tool.  A tool that
\* suspends is cancelled and answers with an error; one that does not, or that is not
\* found, is done, and may fail, but its task ends cancelled when gather collects it:
\* what gather returns then is a CancelledError and no Exception, taken for a result.
RunAuto(r, i) ==
    /\ erun[r].pc = "tools" /\ i \in Open(r, "auto")
    /\ \E out \in {"answer", "raises"} : Settles(r, i, out)
    /\ UNCHANGED <<copy, sessRow, awaiting>>

\* Tools that need approval come one after the other, after the others.
NextApproval(r) == CHOOSE i \in Open(r, "approve") : \A j \in Open(r, "approve") : i <= j
AskApproval(r) ==
    /\ erun[r].pc = "tools" /\ Open(r, "auto") = {} /\ Open(r, "approve") # {}
    /\ <<r, NextApproval(r)>> \notin awaiting /\ awaiting' = awaiting \union {<<r, NextApproval(r)>>}
    /\ UNCHANGED <<erun, copy, sessRow>>
Forgets(w) == awaiting \ {w}
\* A decision, or none in five minutes.  An approved tool runs in the engine's own
\* task, which cancels itself: the tool is cancelled if it suspends, and otherwise it
\* is done and the run is cancelled at its next await, with the results of the turn or
\* without.
ApprovalDecided(r) ==
    /\ erun[r].pc = "tools" /\ Open(r, "approve") # {} /\ <<r, NextApproval(r)>> \in awaiting
    /\ awaiting' = Forgets(<<r, NextApproval(r)>>)
    /\ \/ \E out \in {"answer", "raises"} : Settles(r, NextApproval(r), out)
       \/ Leaves(r, "saving", TRUE)
    /\ UNCHANGED <<copy, sessRow>>

CallsSettled(r) == erun[r].pc = "tools" /\ \A i \in 1..Len(erun[r].calls) : erun[r].calls[i].out # "open"
RecordCalls(r) ==
    /\ CallsSettled(r)
    /\ Adds(r, <<Msg(r, "calls", Len(erun[r].calls))>>) /\ erun' = [erun EXCEPT ![r].pc = "results"]
    /\ UNCHANGED <<sessRow, awaiting>>
\* Each result is appended and shown; the consumer may leave at any of them.  One that
\* json.dumps cannot write ends the run with an error, behind the calls that are there.
GiveResult(r) ==
    LET n == erun[r].given + 1
        last == n = Len(erun[r].calls) IN
    /\ erun[r].pc = "results" /\ UNCHANGED <<sessRow, awaiting>>
    /\ \/ erun[r].calls[n].out = "raises" /\ Leaves(r, "saving", TRUE) /\ UNCHANGED copy
       \/ /\ erun[r].calls[n].out # "raises" /\ Adds(r, <<Msg(r, "result", n)>>)
          /\ \/ ~last /\ erun' = [erun EXCEPT ![r].given = n]
             \/ last /\ Leaves(r, "model", FALSE)
             \/ Leaves(r, "saving", ~last)

\* Mutant: the row keeps what it has and gets the run's messages.
Written_Merged(r) == sessRow \o SelectSeq(copy[r], LAMBDA m : m.run = r)
\* The finally of run: the whole copy replaces the row, if the statement succeeds.
Written(r) == copy[r]
SaveSession(r) ==
    /\ erun[r].pc = "saving" /\ erun' = [erun EXCEPT ![r].pc = "over"]
    /\ sessRow' \in {Written(r), sessRow}
    /\ UNCHANGED <<copy, awaiting>>

EnNext == \E r \in EngineRuns :
    \/ EngineStart(r) \/ ModelAnswers(r) \/ AskApproval(r) \/ ApprovalDecided(r)
    \/ RecordCalls(r) \/ GiveResult(r) \/ SaveSession(r) \/ \E i \in 1..TurnCalls : RunAuto(r, i)

----------------------------------------------------------------------------
\* The loop: a chunk is whether it has text, how many calls and tokens, how it ends.
Chunk == [text: BOOLEAN, calls: 0..TurnCalls, tokens: 0..1, fin: {"none", "stop", "error"}]
\* The chunk ends the loop.
Stops(c) == c.calls > 0 \/ c.fin # "none"
FinEvent(c) == CASE c.fin = "stop" -> <<"done">> [] c.fin = "error" -> <<"error">> [] OTHER -> <<>>
OfChunk(c) == (IF c.text THEN <<"text">> ELSE <<>>)
              \o (IF c.calls > 0 THEN [i \in 1..c.calls |-> "tool_call"] ELSE FinEvent(c))

\* The chunks the loop reads: up to the first that stops it.
Read(cs) == LET stops == {i \in 1..Len(cs) : Stops(cs[i])} IN
            IF stops = {} THEN cs ELSE SubSeq(cs, 1, CHOOSE i \in stops : \A j \in stops : i <= j)
Stopped(cs) == Read(cs) # <<>> /\ Stops(Last(Read(cs)))
\* The tokens of a chunk with calls are not counted.
Tokens(cs) == Cardinality({i \in 1..Len(Read(cs)) : Read(cs)[i].tokens = 1 /\ Read(cs)[i].calls = 0})
\* The stream may end or raise; with or without tools for the model.
Events(cs, how, tools) ==
    FlattenSeq([i \in 1..Len(Read(cs)) |-> OfChunk(Read(cs)[i])])
    \o (IF Stopped(cs) THEN <<>> ELSE IF how = "raised" THEN <<"error">> ELSE IF tools THEN <<>> ELSE <<"done">>)
    \o <<"usage">>

\* run_agent_with_llm_provider: the same loop over the chunks of the other interface.
ProviderEvents(cs, how, tools) == Events(cs, how, tools)

AlInit == chunks = <<>>
AlNext == Len(chunks) < MaxChunks /\ \E c \in Chunk : chunks' = Append(chunks, c)

----------------------------------------------------------------------------
Results(s, i) == {j \in (i + 1)..Len(s) : s[j].kind = "result" /\ s[j].run = s[i].run /\ j <= i + s[i].n}
\* In the row the calls of a turn are followed by all their results, but for at most
\* one turn of a run, its last, when the consumer left or json.dumps raised between two
\* results: no run goes on behind calls that have no answer.  (The comment at
\* engine.py:466, that the pairs stay whole, does not hold for that turn.)
RowIsPaired == \A i \in 1..Len(sessRow) :
    (sessRow[i].kind = "calls" /\ Cardinality(Results(sessRow, i)) # sessRow[i].n) =>
        /\ erun[sessRow[i].run].cut
        /\ \A j \in (i + 1)..Len(sessRow) : sessRow[j].run = sessRow[i].run => sessRow[j].kind # "calls"

\* The row is always one run's view as a whole: what the run found when it began and
\* then its own messages, never a mixture.  That a run that saved later has replaced
\* what others saved since, the lost update of two runs at once, it allows.
RowIsOneView ==
    sessRow # <<>> => \E r \in EngineRuns :
        /\ IsPrefix(erun[r].base, sessRow) /\ sessRow = copy[r]
        /\ \A i \in (Len(erun[r].base) + 1)..Len(sessRow) : sessRow[i].run = r

\* An entry for a decision belongs to a call that still waits for it.
DecisionsAreAwaited == \A w \in awaiting : erun[w[1]].pc = "tools" /\ w[2] \in Open(w[1], "approve")

Ends == {"done", "error", "tool_call"}
\* The caller is told the end exactly once, as done, an error or all the calls to
\* execute of one chunk, before the usage, which comes last, and hears no text after it.
\* The one exception: with tools, a stream that just ends leaves the caller with the
\* usage alone.  No failure passes as done.
EndsOnce == chunks # <<>> => \A tools \in BOOLEAN, ended \in {"over", "raised"} :
    LET ev == ProviderEvents(chunks, ended, tools)
        at == {i \in 1..Len(ev) : ev[i] \in Ends}
        calls == IF Stopped(chunks) THEN Last(Read(chunks)).calls ELSE 0
        told == IF calls > 0 THEN calls ELSE 1 IN
    /\ Last(ev) = "usage" /\ Cardinality({i \in 1..Len(ev) : ev[i] = "usage"}) = 1
    /\ (~Stopped(chunks) /\ ended = "raised") => "error" \in Range(ev)
    /\ "done" \in Range(ev) => \A i \in 1..Len(Read(chunks)) : chunks[i].fin # "error" \/ chunks[i].calls > 0
    /\ IF tools /\ ended = "over" /\ ~Stopped(chunks) THEN at = {} ELSE at = (Len(ev) - told)..(Len(ev) - 1)
    /\ calls > 0 => \A i \in at : ev[i] = "tool_call"
=============================================================================
