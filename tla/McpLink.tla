------------------------------ MODULE McpLink -------------------------------
(***************************************************************************)
(* One MCP server process and the calls made on its connection             *)
(* (app/mcp/client.py, ServerConnection and MCPClient.call_tool): a lock   *)
(* around write and read, a line of output per request, a time-out of      *)
(* thirty seconds.  Answers carry the id of their request and the code     *)
(* never compares it.                                                      *)
(***************************************************************************)
EXTENDS Naturals, Sequences

CONSTANTS
    McpCalls,           \* calls of send_jsonrpc
    MaxMcpTimeouts,     \* bound: time-outs and cancelled callers
    NoCall

ASSUME McpAssumption == MaxMcpTimeouts \in Nat /\ NoCall \notin McpCalls

VARIABLES
    mcall,      \* the calls: where they are, and whose answer they got
    holder,     \* the call that holds _lock
    requests,   \* lines written to the server and not yet answered
    answers,    \* lines in the server's stdout
    server,     \* the process runs
    timeouts

mcVars == <<mcall, holder, requests, answers, server, timeouts>>

----------------------------------------------------------------------------
McpLinkTypeOK ==
    /\ mcall \in [McpCalls -> [pc: {"new", "reading", "answered", "failed"}, got: McpCalls \union {NoCall}]]
    /\ holder \in {q \in McpCalls : mcall[q].pc = "reading"} \union {NoCall}
    /\ requests \in Seq(McpCalls) /\ answers \in Seq(McpCalls)
    /\ server \in BOOLEAN /\ timeouts \in 0..MaxMcpTimeouts

McInit ==
    /\ mcall = [q \in McpCalls |-> [pc |-> "new", got |-> NoCall]]
    /\ holder = NoCall /\ requests = <<>> /\ answers = <<>>
    /\ server = TRUE /\ timeouts = 0

TakeLock(q) == holder = NoCall /\ holder' = q

Leaves(q, pc, got) ==
    /\ mcall' = [mcall EXCEPT ![q] = [pc |-> pc, got |-> got]]
    /\ holder' = IF holder = q THEN NoCall ELSE holder

\* The lock is taken and the request written; the pipe of an exited server is broken.
SendRequest(q) ==
    /\ mcall[q].pc = "new"
    /\ \/ /\ server /\ TakeLock(q)
          /\ mcall' = [mcall EXCEPT ![q].pc = "reading"]
          /\ requests' = Append(requests, q)
       \/ ~server /\ holder = NoCall /\ Leaves(q, "failed", NoCall) /\ UNCHANGED requests
    /\ UNCHANGED <<answers, server, timeouts>>

\* external: the server answers its requests in order, or exits.
ServerAnswers ==
    /\ server /\ requests # <<>>
    /\ answers' = Append(answers, Head(requests)) /\ requests' = Tail(requests)
    /\ UNCHANGED <<mcall, holder, server, timeouts>>

ServerExits ==
    /\ server /\ server' = FALSE /\ requests' = <<>>
    /\ UNCHANGED <<mcall, holder, answers, timeouts>>

\* readline returns the next line, whoever asked for it.
ReadAnswer(q) ==
    /\ mcall[q].pc = "reading" /\ answers # <<>>
    /\ Leaves(q, "answered", Head(answers)) /\ answers' = Tail(answers)
    /\ UNCHANGED <<requests, server, timeouts>>

\* The end of the stream, or thirty seconds without a line.
ReadFails(q) ==
    /\ mcall[q].pc = "reading" /\ answers = <<>>
    /\ \/ ~server /\ UNCHANGED timeouts
       \/ server /\ timeouts < MaxMcpTimeouts /\ timeouts' = timeouts + 1
    /\ Leaves(q, "failed", NoCall)
    /\ UNCHANGED <<requests, answers, server>>

McNext ==
    \/ \E q \in McpCalls : SendRequest(q) \/ ReadAnswer(q) \/ ReadFails(q)
    \/ ServerAnswers \/ ServerExits

----------------------------------------------------------------------------
\* A caller gets the answer to its own request as long as no earlier call on the
\* connection has timed out; after a time-out every answer is one call late.
AnswersMatchUntilTimeout == \A q \in McpCalls :
    (mcall[q].pc = "answered" /\ timeouts = 0) => mcall[q].got = q
=============================================================================
