------------------------------ MODULE McpSession ------------------------------
(***************************************************************************)
(* One MCP server and the session with it: src/mcp/mcp_client.c, driven as  *)
(* mcp_bridges_start, mcp_tool_handler and mcp_bridges_stop of              *)
(* src/mcp/mcp_runtime.c drive it.  Requests and responses are lines on two *)
(* pipes.  A request is written with blocking writes into a pipe of limited *)
(* size.  The server may read when it likes, answer late, twice, with an    *)
(* error, or not at all, may send requests of its own, and may die at any   *)
(* time.  The session is used by one thread: its tools are not thread safe  *)
(* (see ToolExec).                                                          *)
(* Nothing in cgent ignores SIGPIPE.                                        *)
(***************************************************************************)
EXTENDS Naturals, Sequences, SequencesExt

CONSTANTS
  Calls,     \* bound: tools/call requests the model makes
  Chatter,   \* bound: lines the server sends unasked
  PipeSize,  \* what the pipe to the server holds, in chunks
  Sizes      \* lengths of a tools/call request, in chunks

ASSUME ConstantsAssumption == Calls \in Nat /\ Chatter \in Nat
ASSUME PipeAssumption == PipeSize \in Nat \ {0} /\ Sizes \subseteq Nat \ {0}

VARIABLES
  phase,    \* "start", "write" a request, "wait" for its answer, "notify" the
            \* server, "idle", "stopped", "dead"
  method,   \* what the current or last request asks for
  next_id,  \* s->next_id
  alive,    \* s->alive
  left,     \* chunks of the request that are not written yet
  stdin,    \* the chunks in the server's stdin
  down,     \* the requests the server has read to the end
  up,       \* the server's stdout
  server,   \* is the server process running?
  chatter,  \* unasked lines sent so far
  outcome,  \* history: what request k came to
  served,   \* history: requests the server answered with a result
  silent    \* history: did a request end without an answer?

session == <<phase, method, next_id, alive, left, outcome, silent>>
process == <<server, chatter, served>>
vars == <<session, stdin, down, up, process>>

MaxId == Calls + 2
Ids == 1..MaxId

Answer(id, body) == [from |-> "response", id |-> id, body |-> body]
Asks(id) == [from |-> "request", id |-> id, body |-> "none"]
Noise == [from |-> "noise", id |-> 0, body |-> "none"]

\* The request the client writes or waits for.
Current == next_id - 1

Phases == {"start", "write", "wait", "notify", "idle", "stopped", "dead"}

\* Every variable keeps its type: ids are used in order, each request has ended
\* before the next one is sent, and a session that is not alive never waits.
TypeOK ==
  /\ phase \in Phases
  /\ method \in {"none", "initialize", "tools/list", "tools/call"}
  /\ next_id \in 1..(MaxId + 1)
  /\ alive \in BOOLEAN /\ silent \in BOOLEAN /\ server \in BOOLEAN
  /\ phase \in {"write", "wait"} => alive
  /\ left \in Nat
  /\ chatter \in 0..Chatter
  /\ served \subseteq 1..Current
  /\ outcome \in [Ids -> {"none", "result", "error", "no result", "no answer"}]
  /\ \A k \in Ids : k > Current => outcome[k] = "none"
  /\ \A k \in 1..(Current - 1) : outcome[k] # "none"

Init ==
  /\ phase = "start" /\ method = "none"
  /\ next_id = 1 /\ alive = TRUE
  /\ left = 0 /\ stdin = << >> /\ down = << >> /\ up = << >>
  /\ server = TRUE /\ chatter = 0
  /\ outcome = [k \in Ids |-> "none"] /\ served = {} /\ silent = FALSE
-----------------------------------------------------------------------------
(***************************************************************************)
(* The client                                                               *)
(***************************************************************************)
\* session_request begins to write a line of n chunks.
Send(m, n) ==
  /\ phase' = "write" /\ method' = m
  /\ next_id' = next_id + 1
  /\ left' = n
  /\ UNCHANGED <<alive, outcome, silent, stdin, down, up, process>>

SendInitialize == phase = "start" /\ method = "none" /\ Send("initialize", 1)

SendList == phase = "start" /\ method = "initialize" /\ Send("tools/list", 1)

\* mcp_session_call_tool
SendCall ==
  /\ phase = "idle" /\ alive
  /\ next_id <= MaxId
  /\ \E n \in Sizes : Send("tools/call", n)

\* A chunk goes into the pipe when there is room.  It is fatal if the server is
\* gone.
Put(chunk) ==
  IF server THEN Len(stdin) < PipeSize /\ stdin' = Append(stdin, chunk)
            ELSE UNCHANGED stdin

\* proc_write: it has no time limit and goes on after an interrupt.
Write ==
  /\ phase = "write"
  /\ Put([id |-> Current, rest |-> left - 1])
  /\ left' = left - 1
  /\ phase' = IF ~server THEN "dead" ELSE IF left = 1 THEN "wait" ELSE "write"
  /\ UNCHANGED <<method, next_id, alive, outcome, silent, down, up, process>>

\* session_notify: a line without an id.
Notify ==
  /\ phase = "notify"
  /\ Put([id |-> 0, rest |-> 0])
  /\ phase' = (IF server THEN "start" ELSE "dead")
  /\ UNCHANGED <<method, next_id, alive, left, outcome, silent, down, up, process>>

\* mcp_session_stop: the server's process group is killed and reaped.
Stop ==
  /\ phase' = "stopped" /\ alive' = FALSE
  /\ server' = FALSE
  /\ UNCHANGED <<chatter, served>>

\* Slip: a session that failed to start is dropped with its server running.
Finish_Leaks(o) ==
  /\ outcome' = [outcome EXCEPT ![Current] = o]
  /\ phase' = (IF method = "tools/call" \/ (method = "tools/list" /\ o = "result")
               THEN "idle" ELSE IF o = "result" THEN "notify" ELSE "stopped")
  /\ alive' = (alive /\ o # "no answer")
  /\ UNCHANGED <<method, next_id, left, stdin, down, process>>

\* The request is over with outcome o.  After initialize comes the notification
\* that it was received; a session without tools is stopped.
Finish(o) ==
  /\ outcome' = [outcome EXCEPT ![Current] = o]
  /\ CASE method = "initialize" /\ o = "result" ->
            phase' = "notify" /\ UNCHANGED <<alive, process>>
       [] method = "tools/list" /\ o = "result" ->
            phase' = "idle" /\ UNCHANGED <<alive, process>>
       [] method = "tools/call" ->
            /\ phase' = "idle" /\ alive' = (o # "no answer")
            /\ UNCHANGED process
       [] OTHER -> Stop
  /\ UNCHANGED <<method, next_id, left, stdin, down>>

\* What a line with the right id amounts to; nothing asks whether it is a
\* response.
Verdict(line) ==
  IF line.from = "response" THEN line.body ELSE "no result"

\* Slip: the id is not compared.
ReadLine_AnyId ==
  /\ phase = "wait" /\ up # << >>
  /\ up' = Tail(up)
  /\ IF Head(up) # Noise
     THEN Finish(Verdict(Head(up))) /\ UNCHANGED silent
     ELSE UNCHANGED <<session, stdin, down, process>>

\* One line is read; lines without the id of the request are dropped.
ReadLine ==
  /\ phase = "wait" /\ up # << >>
  /\ up' = Tail(up)
  /\ IF Head(up).id = Current
     THEN Finish(Verdict(Head(up))) /\ UNCHANGED silent
     ELSE UNCHANGED <<session, stdin, down, process>>

\* Slip: a session that timed out goes on being used.
NoAnswer_StaysAlive ==
  /\ phase = "wait" /\ method = "tools/call"
  /\ outcome' = [outcome EXCEPT ![Current] = "no answer"]
  /\ phase' = "idle" /\ silent' = TRUE
  /\ UNCHANGED <<method, next_id, alive, left, stdin, down, up, process>>

\* Slip: only the end of the output ends the wait.
NoAnswer_NoTimeout ==
  /\ phase = "wait" /\ up = << >> /\ ~server
  /\ Finish("no answer") /\ silent' = TRUE
  /\ UNCHANGED up

\* The timeout passes, or the server's output ends.
NoAnswer ==
  /\ phase = "wait"
  /\ Finish("no answer") /\ silent' = TRUE
  /\ UNCHANGED up

\* cgent ends, or the bridge is taken down.
StopBridge ==
  /\ phase = "idle"
  /\ Stop
  /\ UNCHANGED <<method, next_id, left, outcome, silent, stdin, down, up>>
-----------------------------------------------------------------------------
(***************************************************************************)
(* The server                                                               *)
(***************************************************************************)
Say(line) == up' = Append(up, line) /\ UNCHANGED <<session, server>>

\* A chunk is read; with the last one a request is complete.
Take ==
  /\ server /\ stdin # << >>
  /\ stdin' = Tail(stdin)
  /\ down' = IF Head(stdin).rest = 0 /\ Head(stdin).id # 0 THEN Append(down, Head(stdin).id) ELSE down
  /\ UNCHANGED <<session, up, process>>

Serve(body) ==
  /\ server /\ down # << >>
  /\ down' = Tail(down)
  /\ LET id == Head(down) IN
       /\ Say(Answer(id, body))
       /\ served' = IF body = "result" THEN served \cup {id} ELSE served
  /\ UNCHANGED <<stdin, chatter>>

\* Logs and notifications, a second answer, or a request of the server's own.
Chat ==
  /\ server /\ chatter < Chatter
  /\ chatter' = chatter + 1
  /\ \/ Say(Noise)
     \/ \E id \in Ids : Say(Asks(id))
     \/ \E id \in served : Say(Answer(id, "result"))
  /\ UNCHANGED <<stdin, down, served>>

Die ==
  /\ server /\ server' = FALSE
  /\ UNCHANGED <<session, stdin, down, up, chatter, served>>

Client == SendInitialize \/ SendList \/ Write \/ Notify \/ ReadLine \/ NoAnswer

Next == Client \/ SendCall \/ StopBridge \/ Take \/ Chat \/ Die
          \/ \E b \in {"result", "error", "no result"} : Serve(b)

\* The client runs and its timeouts pass; the server owes nothing, not even to read.
Spec == Init /\ [][Next]_vars /\ WF_vars(Client) /\ SF_vars(NoAnswer)
-----------------------------------------------------------------------------
(***************************************************************************)
(* Properties                                                               *)
(***************************************************************************)
\* A request that yields a result has been answered by the server: no line left
\* over from an earlier request, and none of the server's own, passes for it.
ResultIsGenuine == \A k \in Ids : outcome[k] = "result" => k \in served

\* Once a request ended without an answer the server is asked nothing any more,
\* so that the late answer meets no later request.
NoCallAfterSilence == [][silent => next_id' = next_id]_vars

\* A stopped session leaves no server behind, whichever step of the start failed.
NoServerLeftBehind == phase = "stopped" => ~server

\* The pipe is full and the server does not read.
Stuck == phase \in {"write", "notify"} /\ server /\ Len(stdin) = PipeSize

\* Every request comes to an end, whatever the server does, unless the client is
\* stuck for good in proc_write, which knows no timeout.
RequestsEnd ==
  \/ []<>(phase \notin {"write", "wait", "notify"})
  \/ <>[]Stuck
=============================================================================
