------------------------------ MODULE ToolBatch ------------------------------
(***************************************************************************)
(* What agent_execute_tools (src/core/agent.c) promises its caller, without *)
(* threads, loops or interrupts: every tool call of an assistant message is *)
(* settled exactly once, two exclusive calls are never in progress together, *)
(* and the results are published once, when every call is settled.          *)
(***************************************************************************)
CONSTANT Calls   \* the tool calls of the message

VARIABLES
  exclusive,  \* the calls that must not overlap one another
  status,     \* status[c]: how far call c is
  published   \* have the results been added to the conversation?

batchVars == <<exclusive, status, published>>

Init ==
  /\ exclusive \in SUBSET Calls
  /\ status = [c \in Calls |-> "waiting"]
  /\ published = FALSE

\* A call begins to run; an exclusive one only while no other one runs.
Start(c) ==
  /\ status[c] = "waiting"
  /\ c \in exclusive => \A d \in exclusive : status[d] # "running"
  /\ status' = [status EXCEPT ![c] = "running"]
  /\ UNCHANGED <<exclusive, published>>

\* A call ends, or is given up without having run.
Settle(c) ==
  /\ status[c] # "settled"
  /\ status' = [status EXCEPT ![c] = "settled"]
  /\ UNCHANGED <<exclusive, published>>

Publish ==
  /\ \A c \in Calls : status[c] = "settled"
  /\ ~published
  /\ published' = TRUE
  /\ UNCHANGED <<exclusive, status>>

Next == Publish \/ \E c \in Calls : Start(c) \/ Settle(c)

Spec == Init /\ [][Next]_batchVars
=============================================================================
