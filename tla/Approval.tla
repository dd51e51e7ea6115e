------------------------------- MODULE Approval -------------------------------
(***************************************************************************)
(* Approval prompts of the REPL on the terminal they share: the hook part   *)
(* of tool_execute (src/tools/tool_executor.c) with prompt_approval and     *)
(* prompt_confirm (src/main.c).  Tools that need approval are registered as *)
(* thread safe, so agent_execute_tools runs them on threads of their own    *)
(* when parallel tools are on; calls of the confirm tool run one at a time  *)
(* in the calling thread, after the threads were launched.                  *)
(*                                                                          *)
(* The user is as attentive as one can be: answers each prompt, in the      *)
(* order the prompts appear on the screen, exactly as intended.  But a line  *)
(* typed may be longer than the 63 bytes that one fgets takes, and what it   *)
(* leaves answers the prompts to come.                                       *)
(***************************************************************************)
EXTENDS Naturals, Sequences, SequencesExt, FiniteSetsExt

CONSTANTS
  Risky,    \* calls of tools with requires_approval
  Confirms, \* calls of the confirm tool
  Rests     \* what may follow the first piece of a line: for each further piece
            \* of up to 63 bytes, whether it begins with a "y"

ASSUME CallsAssumption == Risky \cap Confirms = {}
ASSUME RestsAssumption == Rests \subseteq Seq(BOOLEAN) /\ << >> \in Rests

Calls == Risky \cup Confirms

VARIABLES
  parallel,  \* do Risky calls run on threads of their own?
  intent,    \* intent[c]: does the user want call c to go ahead?
  state,     \* state[c]: where the prompting of call c is
  screen,    \* the prompts printed on stderr, in order
  answered,  \* the calls whose prompt the user has answered
  input,     \* the pieces typed and not yet read from stdin
  rest,      \* every piece that came behind the first of its line
  eof        \* has the user ended the input?

prompt_vars == <<parallel, intent, state, screen, answered, input, rest, eof>>

\* Every field keeps its type; each call has prompted once if it has started
\* (tool_execute asks once and takes the answer), and only prompts on the screen
\* have been answered.
TypeOK ==
  /\ parallel \in BOOLEAN
  /\ intent \in [Calls -> BOOLEAN]
  /\ state \in [Calls -> {"start", "shown", "reading", "allowed", "denied"}]
  /\ screen \in Seq(Calls) /\ IsInjective(screen)
  /\ ToSet(screen) = {c \in Calls : state[c] # "start"}
  /\ answered \subseteq ToSet(screen)
  /\ input \in Seq(BOOLEAN) /\ rest \in Seq(BOOLEAN)
  /\ eof \in BOOLEAN

\* Stdin may still hold what an earlier prompt left of its line.
PromptInit ==
  /\ parallel \in BOOLEAN
  /\ intent \in [Calls -> BOOLEAN]
  /\ state = [c \in Calls |-> "start"]
  /\ screen = << >>
  /\ answered = {}
  /\ input \in Rests /\ rest = input
  /\ eof = FALSE
-----------------------------------------------------------------------------
\* Calls the calling thread runs itself, one after the other.
Inline == IF parallel THEN Confirms ELSE Calls

Busy(c) == state[c] \in {"shown", "reading"}

\* The hook prints the prompt; an inline call starts when no other one runs.
ShowPrompt(c) ==
  /\ state[c] = "start"
  /\ c \in Inline => \A d \in Inline : ~Busy(d)
  /\ state' = [state EXCEPT ![c] = "shown"]
  /\ screen' = Append(screen, c)
  /\ UNCHANGED <<parallel, intent, answered, input, rest, eof>>

\* fgets takes the lock of the stdin stream and keeps it while it blocks.
EnterRead(c) ==
  /\ state[c] = "shown"
  /\ \A d \in Calls : state[d] # "reading"
  /\ state' = [state EXCEPT ![c] = "reading"]
  /\ UNCHANGED <<parallel, intent, screen, answered, input, rest, eof>>

\* Slip: the piece stays in the buffer after it was read.
ReadPiece_KeepsPiece(c) ==
  /\ state[c] = "reading"
  /\ input # << >>
  /\ state' = [state EXCEPT ![c] = IF Head(input) THEN "allowed" ELSE "denied"]
  /\ UNCHANGED <<parallel, intent, screen, answered, input, rest, eof>>

\* fgets takes 63 bytes or up to the end of the line.  They go to whoever is
\* reading, without regard to which prompt they were meant for; what is behind
\* them in the line waits for the next prompt.
ReadPiece(c) ==
  /\ state[c] = "reading"
  /\ input # << >>
  /\ state' = [state EXCEPT ![c] = IF Head(input) THEN "allowed" ELSE "denied"]
  /\ input' = Tail(input)
  /\ UNCHANGED <<parallel, intent, screen, answered, rest, eof>>

\* Slip: at the end of the input the read is tried again.
FgetsFails_ReadsAgain(c) ==
  /\ state[c] = "reading"
  /\ input = << >> /\ eof
  /\ UNCHANGED prompt_vars

\* fgets returns NULL at the end of the input: the answer is no.
FgetsFails(c) ==
  /\ state[c] = "reading"
  /\ input = << >> /\ eof
  /\ state' = [state EXCEPT ![c] = "denied"]
  /\ UNCHANGED <<parallel, intent, screen, answered, input, rest, eof>>

\* The user answers the oldest prompt on the screen that has no answer yet.
UserAnswers ==
  /\ ~eof
  /\ \E k \in DOMAIN screen :
       /\ \A j \in DOMAIN screen : j < k <=> screen[j] \in answered
       /\ answered' = answered \cup {screen[k]}
       /\ \E r \in Rests : /\ input' = Append(input, intent[screen[k]]) \o r
                          /\ rest' = rest \o r
  /\ UNCHANGED <<parallel, intent, state, screen, eof>>

UserHangsUp ==
  /\ ~eof
  /\ eof' = TRUE
  /\ UNCHANGED <<parallel, intent, state, screen, answered, input, rest>>

Hook(c) == ShowPrompt(c) \/ EnterRead(c) \/ ReadPiece(c) \/ FgetsFails(c)

PromptNext == UserAnswers \/ UserHangsUp \/ \E c \in Calls : Hook(c)

\* Threads are scheduled (the lock of stdin is handed on in some order), and
\* the user answers what waits unless the input ends.
Fairness == WF_prompt_vars(UserAnswers) /\ \A c \in Calls : SF_prompt_vars(Hook(c))

PromptSpec == PromptInit /\ [][PromptNext]_prompt_vars /\ Fairness
-----------------------------------------------------------------------------
Allowed == {c \in Calls : state[c] = "allowed"}

\* README.md "Tool Approval": a risky tool runs only after the user confirmed
\* that very tool; "Parallel Tool Execution": tools that share state stay
\* sequential.
RunsOnlyIfApproved == \A c \in Allowed : intent[c]

\* How many of the pieces q begin with a "y".
Yeses(q) == Cardinality({k \in DOMAIN q : q[k]})

\* Even when prompts overlap and lines are long, a "y" lets one call through and
\* no more: the calls allowed, and the yeses still unread, are never more than
\* the prompts the user said yes to, and the pieces of over-long lines that fgets
\* takes for a yes (prompt_approval, main.c).
OneCallPerYes ==
  Cardinality(Allowed) + Yeses(input)
    <= Cardinality({c \in answered : intent[c]}) + Yeses(rest)

\* No call waits for ever at its prompt.
EveryPromptEnds == \A c \in Calls : <>(state[c] \in {"allowed", "denied"})
=============================================================================
