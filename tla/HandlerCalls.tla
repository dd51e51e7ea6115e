----------------------------- MODULE HandlerCalls -----------------------------
(* The tool calls of one batch, each in a thread of its own (ToolExec decides   *)
(* which calls those are).  A handler is a sequence of steps between which the *)
(* other threads run; what it keeps in local variables is loc.                 *)
EXTENDS Integers, Sequences, FiniteSets, SequencesExt

VARIABLES call,   \* the calls of the batch, a sequence of records
          pc,     \* how far each call is: "start", a label of its handler, or "done"
          loc,    \* the local variables of its handler
          reply   \* its reply, once it is done

hvars == <<call, pc, loc, reply>>

NoReply == [ok |-> FALSE, out |-> <<>>]
Refused == NoReply
Said(value) == [ok |-> TRUE, out |-> value]

InitCalls(batches) ==
  /\ call \in batches
  /\ pc = [c \in DOMAIN call |-> "start"]
  /\ loc = [c \in DOMAIN call |-> <<>>]
  /\ reply = [c \in DOMAIN call |-> NoReply]

At(c, label, tool) == pc[c] = label /\ call[c].tool = tool

\* The handler goes on at the label with these locals.
Goto(c, label, locals) ==
  /\ pc' = [pc EXCEPT ![c] = label]
  /\ loc' = [loc EXCEPT ![c] = locals]
  /\ UNCHANGED <<call, reply>>

\* The handler returns.
Answer(c, r) ==
  /\ pc' = [pc EXCEPT ![c] = "done"]
  /\ reply' = [reply EXCEPT ![c] = r]
  /\ UNCHANGED <<call, loc>>

Done(c) == pc[c] = "done"
AllDone == \A c \in DOMAIN call : Done(c)
=============================================================================
