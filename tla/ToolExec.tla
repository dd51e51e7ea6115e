------------------------------- MODULE ToolExec -------------------------------
(***************************************************************************)
(* One batch of tool calls: agent_execute_tools of src/core/agent.c with    *)
(* tool_execute of src/tools/tool_executor.c.  The calling thread launches  *)
(* a thread for each call whose tool is thread safe (at most MaxThreads),   *)
(* runs the other calls itself one after the other, joins the threads and   *)
(* appends one TOOL message per call.  SIGINT sets a sticky flag that both  *)
(* loops poll.  The user's answer to an approval prompt is a free choice    *)
(* here; module Approval models the terminal the prompts share.             *)
(***************************************************************************)
EXTENDS Naturals, FiniteSets

CONSTANTS
  N,          \* number of tool calls in the assistant message
  MaxThreads  \* threads of one batch (32 in the code)

ASSUME ConstantsAssumption == N \in Nat \ {0} /\ MaxThreads \in Nat \ {0}

Calls == 1..N

VARIABLES
  parallel,  \* provider.parallel_tools
  tool,      \* tool[c]: what the registry knows of the tool that call c names
  pc,        \* where the calling thread is in agent_execute_tools
  i,         \* its loop index
  launched,  \* threads created
  started,   \* jobs[c].thread_started
  exec,      \* exec[c]: how far tool_execute is with call c
  result,    \* jobs[c].result # NULL
  error,     \* jobs[c].error, by its origin
  intr,      \* g_interrupted
  replies,   \* the TOOL messages appended, one function from calls
  runs,      \* history: how often the handler of call c was entered
  late       \* history: calls dispatched after SIGINT arrived

config == <<parallel, tool>>
vars == <<parallel, tool, pc, i, launched, started, exec, result, error,
          intr, replies, runs, late>>

ToolKinds == {"unknown", "safe", "unsafe"}

\* Every field keeps its type; the calling thread's index stays in the array and
\* it never counts more launched threads than MaxThreads.
TypeOK ==
  /\ parallel \in BOOLEAN
  /\ tool \in [Calls -> ToolKinds]
  /\ pc \in {"launch", "spawn", "seq", "dispatch", "join", "done"}
  /\ i \in 1..(N + 1)
  /\ launched \in 0..MaxThreads
  /\ started \in [Calls -> BOOLEAN]
  /\ exec \in [Calls -> {"idle", "called", "handler", "returned"}]
  /\ result \in [Calls -> BOOLEAN]
  /\ error \in [Calls -> {"none", "tool", "interrupted"}]
  /\ intr \in BOOLEAN
  /\ runs \in [Calls -> Nat]
  /\ late \in Nat

Init ==
  /\ parallel \in BOOLEAN
  /\ tool \in [Calls -> ToolKinds]
  /\ pc = IF parallel THEN "launch" ELSE "seq"
  /\ i = 1
  /\ launched = 0
  /\ started = [c \in Calls |-> FALSE]
  /\ exec = [c \in Calls |-> "idle"]
  /\ result = [c \in Calls |-> FALSE]
  /\ error = [c \in Calls |-> "none"]
  /\ intr = FALSE
  /\ replies = << >>
  /\ runs = [c \in Calls |-> 0]
  /\ late = 0
-----------------------------------------------------------------------------
(***************************************************************************)
(* The calling thread                                                       *)
(***************************************************************************)
Active(c) == exec[c] \in {"called", "handler"}

\* The calling thread is not inside a tool_execute of its own.
MainFree == \A c \in Calls : Active(c) => started[c]

\* The calling thread moves to step l of the loop, leaving the jobs alone.
Goto(l, k) ==
  /\ pc' = l
  /\ i' = k
  /\ UNCHANGED <<config, launched, started, exec, result, error, intr,
                 replies, runs, late>>

\* Slip: thread_safe is not looked at.
LaunchHead_AnyTool ==
  /\ pc = "launch"
  /\ MainFree
  /\ IF i > N \/ launched >= MaxThreads \/ intr
     THEN Goto("seq", 1)
     ELSE Goto("spawn", i)

\* Head of the launch loop and, in its body, the interrupt poll and the
\* registry lookup: only a tool known not to be thread safe is skipped.
LaunchHead ==
  /\ pc = "launch"
  /\ MainFree
  /\ IF i > N \/ launched >= MaxThreads \/ intr
     THEN Goto("seq", 1)
     ELSE IF tool[i] = "unsafe" THEN Goto("launch", i + 1)
                                ELSE Goto("spawn", i)

\* Call i is handed to tool_execute, on a thread of its own or inline.
Enter(l) ==
  /\ exec' = [exec EXCEPT ![i] = "called"]
  /\ late' = late + (IF intr THEN 1 ELSE 0)
  /\ pc' = l
  /\ i' = i + 1
  /\ UNCHANGED <<config, result, error, intr, replies, runs>>

SpawnThread ==
  /\ pc = "spawn"
  /\ Enter("launch")
  /\ started' = [started EXCEPT ![i] = TRUE]
  /\ launched' = launched + 1

\* pthread_create failed: the call runs inline, inside the launch loop.
SpawnFails ==
  /\ pc = "spawn"
  /\ Enter("launch")
  /\ UNCHANGED <<started, launched>>

\* Slip: the skipped job gets no error.
Skip_Silent ==
  /\ intr
  /\ i' = i + 1
  /\ UNCHANGED <<config, pc, launched, started, exec, result, error, intr,
                 replies, runs, late>>

\* Slip: the error of a call that ran inline in the launch loop is overwritten.
Skip_Overwrites ==
  /\ intr
  /\ error' = [error EXCEPT ![i] = "interrupted"]
  /\ i' = i + 1
  /\ UNCHANGED <<config, pc, launched, started, exec, result, intr, replies,
                 runs, late>>

\* The sequential loop gives call i up because of an interrupt; an error the
\* job already has is kept.
Skip ==
  /\ intr
  /\ error' = [error EXCEPT ![i] = IF @ = "none" THEN "interrupted" ELSE @]
  /\ i' = i + 1
  /\ UNCHANGED <<config, pc, launched, started, exec, result, intr, replies,
                 runs, late>>

\* Slip: a thread-safe call that ran inline in the launch loop is run again.
SeqHead_RunsAgain ==
  /\ pc = "seq"
  /\ MainFree
  /\ \/ i > N /\ Goto("join", i)
     \/ i <= N /\ started[i] /\ Goto("seq", i + 1)
     \/ i <= N /\ ~started[i] /\ Skip
     \/ i <= N /\ ~started[i] /\ ~intr /\ Goto("dispatch", i)

\* Slip: the sequential loop does not poll the interrupt flag.
SeqHead_NoPoll ==
  /\ pc = "seq"
  /\ MainFree
  /\ \/ i > N /\ Goto("join", i)
     \/ i <= N /\ started[i] /\ Goto("seq", i + 1)
     \/ /\ i <= N /\ ~started[i]
        /\ IF parallel /\ tool[i] = "safe" THEN Goto("seq", i + 1)
                                           ELSE Goto("dispatch", i)

\* The body of the sequential loop.
SeqHead ==
  /\ pc = "seq"
  /\ MainFree
  /\ \/ i > N /\ Goto("join", i)
     \/ i <= N /\ started[i] /\ Goto("seq", i + 1)
     \/ i <= N /\ ~started[i] /\ Skip
     \/ /\ i <= N /\ ~started[i] /\ ~intr
        /\ IF parallel /\ tool[i] = "safe" THEN Goto("seq", i + 1)
                                           ELSE Goto("dispatch", i)

Dispatch ==
  /\ pc = "dispatch"
  /\ Enter("seq")
  /\ UNCHANGED <<started, launched>>

Reply(c) ==
  [is_error |-> ~result[c], content |-> IF result[c] THEN "result" ELSE error[c]]

\* Slip: the join waits for calls that were never started, too.
CollectAndReply_JoinsAll ==
  /\ pc = "join"
  /\ \A c \in Calls : exec[c] = "returned"
  /\ replies' = [c \in Calls |-> Reply(c)]
  /\ pc' = "done"
  /\ UNCHANGED <<config, i, launched, started, exec, result, error, intr,
                 runs, late>>

\* pthread_join of every thread, then one TOOL message per call.  Nothing else
\* touches the conversation, so the loop that appends them is one step.
CollectAndReply ==
  /\ pc = "join"
  /\ \A c \in Calls : started[c] => exec[c] = "returned"
  /\ replies' = [c \in Calls |-> Reply(c)]
  /\ pc' = "done"
  /\ UNCHANGED <<config, i, launched, started, exec, result, error, intr,
                 runs, late>>
-----------------------------------------------------------------------------
(***************************************************************************)
(* tool_execute, on whichever thread runs it                                *)
(***************************************************************************)
\* The tool is not registered, has no handler, or the user denies it.
Refuse(c) ==
  /\ exec[c] = "called"
  /\ exec' = [exec EXCEPT ![c] = "returned"]
  /\ error' = [error EXCEPT ![c] = "tool"]
  /\ UNCHANGED <<config, pc, i, launched, started, result, intr, replies,
                 runs, late>>

EnterHandler(c) ==
  /\ exec[c] = "called"
  /\ tool[c] # "unknown"
  /\ exec' = [exec EXCEPT ![c] = "handler"]
  /\ runs' = [runs EXCEPT ![c] = @ + 1]
  /\ UNCHANGED <<config, pc, i, launched, started, result, error, intr,
                 replies, late>>

\* The handler returns a result, or NULL and an error string.
HandlerReturns(c) ==
  /\ exec[c] = "handler"
  /\ exec' = [exec EXCEPT ![c] = "returned"]
  /\ \/ result' = [result EXCEPT ![c] = TRUE] /\ UNCHANGED error
     \/ error' = [error EXCEPT ![c] = "tool"] /\ UNCHANGED result
  /\ UNCHANGED <<config, pc, i, launched, started, intr, replies, runs, late>>

\* SIGINT: the handler only sets the flag, which nothing clears in a batch.
Interrupt ==
  /\ ~intr
  /\ intr' = TRUE
  /\ UNCHANGED <<config, pc, i, launched, started, exec, result, error,
                 replies, runs, late>>

Main == LaunchHead \/ SpawnThread \/ SpawnFails \/ SeqHead \/ Dispatch
          \/ CollectAndReply
Tool(c) == Refuse(c) \/ EnterHandler(c) \/ HandlerReturns(c)

Next == Main \/ Interrupt \/ \E c \in Calls : Tool(c)

Spec == Init /\ [][Next]_vars

\* The threads are scheduled and every handler returns; SIGINT need not come.
Fairness == WF_vars(Main) /\ \A c \in Calls : WF_vars(Tool(c))
FairSpec == Spec /\ Fairness
-----------------------------------------------------------------------------
(***************************************************************************)
(* Properties                                                               *)
(***************************************************************************)
\* The calls that may not overlap one another: those of tools that are not
\* thread safe, and every call when the provider disables parallel tools.
Exclusive == {c \in Calls : parallel => tool[c] = "unsafe"}

\* Two exclusive calls are never inside their handlers together, whatever
\* mix of threads, failed pthread_create and inline runs happens.
ExclusiveAlone ==
  \A c, d \in Exclusive :
    exec[c] = "handler" /\ exec[d] = "handler" => c = d

\* A handler is entered at most once for a call: the sequential loop does not
\* run again what the launch loop ran inline after pthread_create failed.
RunsAtMostOnce == \A c \in Calls : runs[c] <= 1

\* When the results are appended (and the jobs array is freed) no thread still
\* runs a call that would write into its job.
NoJobOutlivesBatch == pc = "done" => \A c \in Calls : ~Active(c)

\* At most MaxThreads threads are ever created for a batch, whichever calls
\* failed to get one and ran inline.
ThreadsBounded == Cardinality({c \in Calls : started[c]}) <= MaxThreads

\* A reply that says neither what the tool returned nor why it did not run
\* belongs to a thread-safe call that the launch loop did not reach because
\* MaxThreads threads were already launched.
SilentOnlyPastCap ==
  pc = "done" => \A c \in Calls :
    replies[c].is_error /\ replies[c].content = "none"
      => parallel /\ tool[c] = "safe" /\ launched = MaxThreads

\* A reply says that its call was not made, as interrupted or without a word,
\* exactly when tool_execute was never called for it; it is a result only if the
\* handler ran, once; and nothing is interrupted without a SIGINT.
RepliesAreTrue ==
  pc = "done" => \A c \in Calls :
    /\ replies[c].content \in {"interrupted", "none"} <=> exec[c] = "idle"
    /\ exec[c] = "idle" => replies[c].is_error /\ runs[c] = 0
    /\ ~replies[c].is_error => runs[c] = 1
    /\ replies[c].content = "interrupted" => intr

\* After SIGINT arrives at most one further call is dispatched: the one the
\* calling thread had already decided on when it last polled the flag.
AtMostOneLateDispatch == late <= 1

\* Every batch ends, provided handlers return.
BatchEnds == <>(pc = "done")
-----------------------------------------------------------------------------
(***************************************************************************)
(* The inductive invariant behind these properties                          *)
(***************************************************************************)
\* The calling thread will not come back to call c.
Passed(c) == pc \in {"join", "done"} \/ (pc \in {"seq", "dispatch"} /\ c < i)

\* What the two loops have established when the calling thread is at pc.
LoopInv ==
  /\ pc \in {"launch", "spawn"} => parallel
  /\ pc \in {"spawn", "dispatch"} => i <= N /\ late = 0
  /\ pc \in {"spawn", "dispatch", "join", "done"} => MainFree
  /\ pc = "done" => \A c \in Calls : ~Active(c)
  /\ pc = "spawn" => launched < MaxThreads /\ tool[i] # "unsafe"
  /\ pc = "dispatch" => ~started[i] /\ (parallel => tool[i] # "safe")

\* A job's fields agree with how far its call is.
JobInv ==
  \A c \in Calls :
    /\ started[c] => parallel /\ tool[c] # "unsafe" /\ exec[c] # "idle"
    /\ exec[c] = "idle" => ~result[c] /\ runs[c] = 0 /\ error[c] # "tool"
    /\ exec[c] = "called" =>
         ~result[c] /\ runs[c] = 0 /\ (error[c] = "none" \/ tool[c] = "unknown")
    /\ exec[c] = "handler" => ~result[c] /\ runs[c] = 1 /\ error[c] = "none"
    /\ exec[c] = "returned" => (result[c] \/ error[c] = "tool") /\ runs[c] <= 1
    /\ tool[c] = "unknown" => runs[c] = 0
    /\ result[c] => runs[c] = 1
    /\ error[c] = "interrupted" => intr /\ (result[c] \/ exec[c] = "idle")
    /\ error[c] = "interrupted" /\ exec[c] = "idle" => Passed(c)

\* Calls the loops have not come to are untouched, save those of thread-safe
\* or unknown tools the launch loop has been through.
FreshInv ==
  /\ pc \in {"launch", "spawn"} => \A c \in Calls :
       /\ c >= i => exec[c] = "idle"
       /\ exec[c] # "idle" => tool[c] # "unsafe"
  /\ pc \in {"seq", "dispatch"} => \A c \in Calls :
       c >= i /\ exec[c] # "idle" => parallel /\ tool[c] # "unsafe"

\* The calling thread is inside at most one tool_execute.
OneInline ==
  \A c, d \in Calls : Active(c) /\ Active(d) /\ ~started[c] /\ ~started[d] => c = d

\* Which calls can still be, or have been, left without a word.
SilenceInv ==
  /\ pc \in {"launch", "spawn"} => \A c \in Calls :
       c < i /\ tool[c] # "unsafe" => exec[c] # "idle"
  /\ pc \notin {"launch", "spawn"} => \A c \in Calls :
       parallel /\ tool[c] # "unsafe" /\ exec[c] = "idle" /\ error[c] = "none"
         => launched = MaxThreads \/ (intr /\ ~Passed(c))
  /\ \A c \in Calls : Passed(c) /\ exec[c] = "idle" /\ error[c] = "none"
       => parallel /\ tool[c] = "safe"

LateInv == late <= 1 /\ (late = 1 => intr)

DoneInv == pc = "done" => replies = [c \in Calls |-> Reply(c)]

IInv == LoopInv /\ JobInv /\ FreshInv /\ OneInline /\ SilenceInv /\ LateInv
          /\ DoneInv
-----------------------------------------------------------------------------
(***************************************************************************)
(* Refinement of the abstract batch                                         *)
(***************************************************************************)
Settled(c) ==
  \/ result[c]
  \/ error[c] # "none"
  \/ exec[c] = "idle" /\ Passed(c)

\* A call whose handler runs again would be running after it was settled.
StatusBar == [c \in Calls |-> IF exec[c] = "handler" THEN "running"
                              ELSE IF Settled(c) THEN "settled"
                              ELSE "waiting"]

Batch == INSTANCE ToolBatch WITH exclusive <- Exclusive, status <- StatusBar,
                                 published <- (pc = "done")

\* The threads, loops and interrupts implement the abstract batch.
ImplementsBatch == Batch!Spec
=============================================================================
