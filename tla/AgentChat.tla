------------------------------ MODULE AgentChat ------------------------------
(***************************************************************************)
(* The conversation loop of src/core/agent.c: agent_chat, agent_chat_stream *)
(* and agent_compact, driven by the REPL of src/main.c.  A turn adds the    *)
(* user's input to the history, sends the history to the provider, runs the *)
(* tool calls that come back and repeats until a final answer; transient    *)
(* failures are retried; when the history has grown past the context limit  *)
(* it is first replaced by a summary that agent_chat is asked for.          *)
(*                                                                          *)
(* A batch of tool calls is one step, as ToolExec shows it may be.  The     *)
(* estimate of a message's tokens is 1, except for a long summary, which by *)
(* itself exceeds the limit.                                                *)
(***************************************************************************)
EXTENDS Integers, Sequences, SequencesExt

CONSTANTS
  MaxRounds,   \* max_rounds: requests of one agent_chat call (10 in the code)
  MaxRetries,  \* provider.max_retries
  MaxCalls,    \* bound: tool calls in one response
  Limit,       \* context_length * compact_ratio, in messages
  Turns        \* bound: inputs the user types

ASSUME ConstantsAssumption ==
  /\ MaxRounds \in Nat \ {0} /\ MaxRetries \in Nat /\ MaxCalls \in Nat
  /\ Limit \in Nat \ {0} /\ Turns \in Nat

VARIABLES
  stream,    \* cfg->stream
  pc,        \* where the chat loop is; "idle" at the REPL prompt
  task,      \* why agent_chat runs: a turn, or a compaction before one or alone
  turn,      \* the user's latest input
  msgs,      \* agent->messages
  rounds,    \* max_rounds left
  attempt,   \* retries made for this request
  final,     \* final_response
  intr,      \* g_interrupted
  session,   \* the session's messages
  emitted,   \* history: attempts at this request that printed text
  saved      \* history: msgs as it was before the compaction in progress

vars == <<stream, pc, task, turn, msgs, rounds, attempt, final, intr, session,
          emitted, saved>>
loop == <<rounds, attempt, emitted>>
-----------------------------------------------------------------------------
(***************************************************************************)
(* Messages                                                                 *)
(***************************************************************************)
User(t) == [kind |-> "user", turn |-> t]
Prompt == [kind |-> "prompt"]                 \* the compaction request
Summary(from, long) == [kind |-> "summary", from |-> from, long |-> long]
Assistant(calls) == [kind |-> "assistant", calls |-> calls]
ToolResult(call) == [kind |-> "tool", call |-> call]

\* What agent_chat returns besides NULL: the model's answer, one without any
\* text, or the "Error: Failed to get a response" message made up for it.
Finals == {"answer", "empty"}

\* agent_context_stats: does the estimate exceed the limit?
OverLimit(s) ==
  \/ Len(s) > Limit
  \/ \E k \in DOMAIN s : s[k].kind = "summary" /\ s[k].long

\* agent_trim_old_messages
Trim(s) ==
  IF Len(s) < 4 THEN s
  ELSE LET keep == IF Len(s) \div 2 < 4 THEN 4 ELSE Len(s) \div 2
       IN  SubSeq(s, Len(s) - keep + 1, Len(s))

\* Every variable keeps its type: retries stay within max_retries, rounds within
\* max_rounds, and the loop runs exactly while there is a task for it.
TypeOK ==
  /\ stream \in BOOLEAN /\ intr \in BOOLEAN
  /\ pc \in {"idle", "round", "attempt", "flight", "got", "finish"}
  /\ task \in {"none", "chat", "autocompact", "compact"}
  /\ pc = "idle" <=> task = "none"
  /\ turn \in 0..Turns
  /\ rounds \in 0..MaxRounds
  /\ attempt \in 0..MaxRetries
  /\ final \in Finals \cup {"none"}
  /\ emitted \in Nat

Init ==
  /\ stream \in BOOLEAN
  /\ pc = "idle" /\ task = "none"
  /\ turn = 0
  /\ msgs = << >> /\ saved = << >>
  /\ rounds = 0 /\ attempt = 0 /\ emitted = 0
  /\ final = "none"
  /\ intr = FALSE
  /\ session = << >>
-----------------------------------------------------------------------------
(***************************************************************************)
(* The REPL                                                                 *)
(***************************************************************************)
\* agent_chat starts with these messages in the history.
Begin(t, history) ==
  /\ task' = t
  /\ msgs' = history
  /\ pc' = "round"
  /\ rounds' = MaxRounds
  /\ final' = "none"
  /\ UNCHANGED <<stream, attempt, emitted>>

\* The user types an input: agent_maybe_manage_context starts a compaction
\* (which clears the history and asks for a summary) when the history is too
\* long, and only afterwards is the input added.
ReplInput ==
  /\ pc = "idle" /\ turn < Turns
  /\ turn' = turn + 1
  /\ intr' = FALSE
  /\ session' = Append(session, <<"user", turn'>>)
  /\ IF OverLimit(msgs)
     THEN Begin("autocompact", <<Prompt>>) /\ saved' = msgs
     ELSE Begin("chat", Append(msgs, User(turn'))) /\ UNCHANGED saved

\* /compact
ReplCompact ==
  /\ pc = "idle" /\ msgs # << >>
  /\ intr' = FALSE
  /\ Begin("compact", <<Prompt>>) /\ saved' = msgs
  /\ UNCHANGED <<turn, session>>

\* /clear
ReplClear ==
  /\ pc = "idle" /\ msgs # << >>
  /\ msgs' = << >>
  /\ intr' = FALSE
  /\ UNCHANGED <<stream, pc, task, turn, loop, final, session, saved>>

Interrupt ==
  /\ pc # "idle" /\ ~intr
  /\ intr' = TRUE
  /\ UNCHANGED <<stream, pc, task, turn, msgs, loop, final, session, saved>>
-----------------------------------------------------------------------------
(***************************************************************************)
(* agent_chat and agent_chat_stream                                         *)
(***************************************************************************)
Jump(l) ==
  /\ pc' = l
  /\ UNCHANGED <<stream, task, turn, intr, session, saved>>

\* Only the turn itself streams; a compaction uses agent_chat.
Streaming == stream /\ task = "chat"

RoundHead ==
  /\ pc = "round"
  /\ IF rounds = 0
     THEN Jump("finish") /\ UNCHANGED loop
     ELSE /\ Jump("attempt")
          /\ rounds' = rounds - 1
          /\ attempt' = 0 /\ emitted' = 0
  /\ UNCHANGED <<msgs, final>>

\* Head of the retry loop.
Poll ==
  /\ pc = "attempt"
  /\ Jump(IF intr THEN "finish" ELSE "flight")
  /\ UNCHANGED <<msgs, loop, final>>

\* What an attempt brings before it ends: nothing, only what is not printed
\* (reasoning, parts of tool calls), or text, which is printed as it comes.  Only
\* a stream brings anything by the piece.
Outputs == {"none", "hidden", "text"}

Show(output) ==
  /\ output # "none" => Streaming
  /\ emitted' = emitted + (IF output = "text" THEN 1 ELSE 0)

\* Slip: the retries are not counted.
Fails_Uncounted(transient, output) ==
  /\ pc = "flight"
  /\ Show(output)
  /\ IF /\ transient /\ output = "none" /\ attempt < MaxRetries
        /\ ~(Streaming /\ intr)
     THEN Jump("attempt") ELSE Jump("finish")
  /\ UNCHANGED <<msgs, rounds, attempt, final>>

\* Slip: a request is sent again although part of its answer was shown.
Fails_RetriesShown(transient, output) ==
  /\ pc = "flight"
  /\ Show(output)
  /\ IF transient /\ attempt < MaxRetries /\ ~(Streaming /\ intr)
     THEN Jump("attempt") /\ attempt' = attempt + 1
     ELSE Jump("finish") /\ UNCHANGED attempt
  /\ UNCHANGED <<msgs, rounds, final>>

\* The request fails.  It is sent again only if the failure is transient, it
\* has brought nothing, retries are left and (streaming) no interrupt came.
Fails(transient, output) ==
  /\ pc = "flight"
  /\ Show(output)
  /\ IF /\ transient /\ output = "none" /\ attempt < MaxRetries
        /\ ~(Streaming /\ intr)
     THEN Jump("attempt") /\ attempt' = attempt + 1
     ELSE Jump("finish") /\ UNCHANGED attempt
  /\ UNCHANGED <<msgs, rounds, final>>

\* A 2xx response; streamed text has been printed by now.
Succeeds(output) ==
  /\ pc = "flight"
  /\ Show(output)
  /\ Jump("got")
  /\ UNCHANGED <<msgs, rounds, attempt, final>>

\* An interrupted response is dropped, and so is one that cannot be parsed.
Discard ==
  /\ pc = "got"
  /\ intr \/ ~Streaming
  /\ Jump("finish")
  /\ UNCHANGED <<msgs, loop, final>>

\* The response asks for tools: its message and one result per call are added.
UseTools(calls) ==
  /\ pc = "got" /\ ~intr
  /\ msgs' = msgs \o <<Assistant(calls)>> \o [c \in 1..calls |-> ToolResult(c)]
  /\ Jump("round")
  /\ UNCHANGED <<loop, final>>

\* The answer is what was streamed: the one that was shown, or one without text.
Answer(f) ==
  /\ pc = "got" /\ ~intr
  /\ Streaming => (f = "answer" <=> emitted > 0)
  /\ msgs' = Append(msgs, Assistant(0))
  /\ final' = f
  /\ Jump("finish")
  /\ UNCHANGED loop

\* Slip: the streaming variant forgets a late-interrupted answer, too.
Returned_Forgets ==
  IF intr THEN "NULL" ELSE IF final = "none" THEN "error" ELSE final

\* agent_chat forgets its answer when the interrupt came late; the streaming
\* variant returns it.
Returned ==
  IF intr /\ (final = "none" \/ ~Streaming) THEN "NULL"
  ELSE IF final = "none" THEN "error"
  ELSE final

\* The turn is over: the REPL records what agent_chat returned.
FinishTurn ==
  /\ pc = "finish" /\ task = "chat"
  /\ pc' = "idle" /\ task' = "none"
  /\ session' = IF Returned = "NULL" THEN session
                ELSE Append(session, <<Returned, turn>>)
  /\ intr' = FALSE
  /\ UNCHANGED <<stream, turn, msgs, loop, final, saved>>

\* The end of agent_compact: everything is cleared again and the text that
\* agent_chat returned, if any, becomes the history.
Compacted(long) ==
  IF Returned \in {"answer", "error"}
  THEN <<Summary(Returned, long /\ Returned = "answer")>>
  ELSE << >>

\* Slip: the compaction request stays in the history.
FinishCompact_KeepsRequest(long) ==
  /\ pc = "finish" /\ task = "compact"
  /\ msgs' = Compacted(long) \o msgs /\ saved' = << >>
  /\ pc' = "idle" /\ task' = "none"
  /\ intr' = FALSE
  /\ UNCHANGED <<stream, turn, loop, final, session>>

\* /compact is done.
FinishCompact(long) ==
  /\ pc = "finish" /\ task = "compact"
  /\ msgs' = Compacted(long) /\ saved' = << >>
  /\ pc' = "idle" /\ task' = "none"
  /\ intr' = FALSE
  /\ UNCHANGED <<stream, turn, loop, final, session>>

\* Slip: when the compaction fails the old history comes back and is trimmed by
\* count alone, whichever messages that separates.
FinishAutoCompact_TrimsOld(long) ==
  /\ pc = "finish" /\ task = "autocompact"
  /\ LET kept == IF Compacted(long) = << >> \/ OverLimit(Compacted(long))
                 THEN Trim(saved) ELSE Compacted(long)
     IN  Begin("chat", Append(kept, User(turn))) /\ saved' = << >>
  /\ UNCHANGED <<turn, intr, session>>

\* The rest of agent_maybe_manage_context (trimming what is left when the
\* compaction failed or its summary is too long) and the start of the turn.
FinishAutoCompact(long) ==
  /\ pc = "finish" /\ task = "autocompact"
  /\ LET kept == IF Compacted(long) = << >> \/ OverLimit(Compacted(long))
                 THEN Trim(Compacted(long)) ELSE Compacted(long)
     IN  Begin("chat", Append(kept, User(turn))) /\ saved' = << >>
  /\ UNCHANGED <<turn, intr, session>>

Step ==
  \/ RoundHead \/ Poll \/ Discard \/ FinishTurn
  \/ \E o \in Outputs : Succeeds(o) \/ \E t \in BOOLEAN : Fails(t, o)
  \/ \E c \in 1..MaxCalls : UseTools(c)
  \/ \E f \in Finals : Answer(f)
  \/ \E l \in BOOLEAN : FinishCompact(l) \/ FinishAutoCompact(l)

Next == ReplInput \/ ReplCompact \/ ReplClear \/ Interrupt \/ Step

Spec == Init /\ [][Next]_vars

\* Every request ends, as long as the service goes on or closes (Stream), and the
\* loop runs on.
FairSpec == Spec /\ WF_vars(Step)
-----------------------------------------------------------------------------
(***************************************************************************)
(* Properties                                                               *)
(***************************************************************************)
\* Every request the provider gets pairs each assistant message that asks for
\* n tools with the n results that follow it, in call order, and holds no
\* result that nobody asked for.
ToolPairing ==
  \A k \in DOMAIN msgs :
    /\ msgs[k].kind = "assistant" =>
         \A c \in 1..msgs[k].calls :
           k + c <= Len(msgs) /\ msgs[k + c] = ToolResult(c)
    /\ msgs[k].kind = "tool" =>
         \E j \in 1..(k - 1) :
           /\ msgs[j].kind = "assistant"
           /\ k - j = msgs[k].call /\ msgs[k].call <= msgs[j].calls

\* A turn's request ends with the user's latest input and what the agent added
\* since, and never with the machinery of a compaction; a summary stands
\* nowhere but at the head.
RequestIsForThisTurn ==
  /\ task = "chat" => \E k \in DOMAIN msgs :
       /\ msgs[k] = User(turn)
       /\ \A j \in (k + 1)..Len(msgs) : msgs[j].kind \in {"assistant", "tool"}
  /\ \A k \in DOMAIN msgs :
       /\ msgs[k].kind = "prompt" => task \in {"autocompact", "compact"}
       /\ msgs[k].kind = "summary" => k = 1

\* The user never sees the output of two attempts at the same request.
OutputOnce == emitted <= 1

\* What a streamed turn showed and what is kept of it agree, however late Ctrl-C
\* comes (agent_chat_stream, and session_add_message in main.c).  Either the
\* history and the session both end with the answer of this turn, one with text
\* exactly if text was printed for the last request; or neither does, and the
\* session ends with the error message, or with the user's input if the turn was
\* interrupted: then what was shown of the last answer is gone.
ShownAnswerIsKept ==
  [][stream /\ task = "chat" /\ task' = "none" =>
       IF Last(msgs') = Assistant(0)
       THEN Last(session') = <<IF emitted > 0 THEN "answer" ELSE "empty", turn>>
       ELSE Last(session') = <<IF intr THEN "user" ELSE "error", turn>>]_vars

\* Every turn and every compaction comes to an end, interrupted or not.
TurnEnds == pc # "idle" ~> pc = "idle"
=============================================================================
