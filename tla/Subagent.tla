------------------------------- MODULE Subagent -------------------------------
(***************************************************************************)
(* A subagent: the parent's handle and the child process of                 *)
(* src/subagent/subagent.c, joined by two pipes.  The parent uses the       *)
(* handle either through subagent_run (one task, wait, free: what the       *)
(* spawn_subagent tool does) or call by call (poll, follow up, stop, wait,  *)
(* abort).  Nothing in cgent ignores SIGPIPE, so a write to a pipe whose    *)
(* reader is gone ends the parent.  Time is abstract: a deadline may pass   *)
(* at any moment at which the code compares the clock with it.              *)
(***************************************************************************)
EXTENDS Naturals, Sequences, SequencesExt

CONSTANTS
  Followups,  \* bound: follow-up instructions of one parent
  PipeCap     \* messages a pipe holds; a write to a full pipe blocks

ASSUME ConstantsAssumption == Followups \in Nat /\ PipeCap \in Nat \ {0}

VARIABLES
  mode,     \* "run": subagent_run; "handle": the asynchronous API
  phase,    \* where the parent is
  h,        \* the subagent_handle
  late,     \* did subagent_run give up waiting for the first result?
  sent,     \* follow-ups sent
  queued,   \* follow-ups sent before the stop
  down, up, \* the child's stdin and stdout pipes
  child,    \* where the child is
  turn,     \* what the child works on: 0 for the task, k for follow-up k
  code,     \* the child's exit code
  intr,     \* has SIGINT reached both processes?  (never cleared in the child)
  said,     \* history: did the child's result hold an answer?
  heard     \* history: the turns whose answers on_event was given

parent == <<phase, h, late, sent, queued, heard>>
kid == <<child, turn, code, said>>
vars == <<mode, parent, down, up, kid, intr>>

Task == [type |-> "task", turn |-> 0]
Followup(k) == [type |-> "followup", turn |-> k]
Stop == [type |-> "stop", turn |-> 0]

Result(text, error) ==
  [type |-> "result", turn |-> 0, text |-> text, error |-> error]
Update(k, text) == [type |-> "update", turn |-> k, text |-> text, error |-> FALSE]
\* "read failed", under a length header that is shorter than the message.
Garbled == [type |-> "garbled", turn |-> 0, text |-> FALSE, error |-> TRUE]

Gone == child \in {"exited", "killed"}
Over == {"returned", "aborted", "dead"}

\* Every variable keeps its type; no pipe overflows, at most one stop is ever on
\* its way, and stdin is closed only by a wait, which has sent the stop.
TypeOK ==
  /\ mode \in {"run", "handle"}
  /\ phase \in {"send", "use", "stop", "wait", "drain", "check", "reap"} \cup Over
  /\ h \in [got : BOOLEAN, stopped : BOOLEAN, output : BOOLEAN, error : BOOLEAN,
            timed_out : BOOLEAN, reaped : BOOLEAN, exit_code : {-1, 0, 1}]
  /\ late \in BOOLEAN /\ intr \in BOOLEAN /\ said \in BOOLEAN
  /\ sent \in 0..Followups /\ queued \in 0..sent
  /\ Len(down) <= PipeCap /\ Len(up) <= PipeCap
  /\ \A j, k \in DOMAIN down : down[j] = Stop /\ down[k] = Stop => j = k
  /\ child \in {"start", "turn", "listen", "leaving", "exited", "killed"}
  /\ turn \in 0..Followups /\ code \in {0, 1}
  /\ phase \in {"wait", "drain", "check", "reap"} => h.stopped

Init ==
  /\ mode \in {"run", "handle"}
  /\ phase = "send"
  /\ h = [got |-> FALSE, stopped |-> FALSE, output |-> FALSE, error |-> FALSE,
          timed_out |-> FALSE, reaped |-> FALSE, exit_code |-> -1]
  /\ late = FALSE /\ sent = 0 /\ queued = 0
  /\ down = << >> /\ up = << >>
  /\ child = "start" /\ turn = 0 /\ code = 0
  /\ intr = FALSE
  /\ said = FALSE /\ heard = << >>
-----------------------------------------------------------------------------
(***************************************************************************)
(* The parent                                                               *)
(***************************************************************************)
\* ipc_write_msg: m goes into the child's stdin and the parent moves on to
\* phase p, unless the child no longer holds the other end.
Write(m, p) ==
  IF Gone THEN phase' = "dead" /\ UNCHANGED down
  ELSE phase' = p /\ Len(down) < PipeCap /\ down' = Append(down, m)

\* subagent_spawn sends the task to the process it has just forked.
SendTask ==
  /\ phase = "send"
  /\ Write(Task, "use")
  /\ UNCHANGED <<mode, h, late, sent, queued, heard, up, kid, intr>>

\* handle_message
Take(p) ==
  /\ up # << >> /\ Head(up) # Garbled
  /\ up' = Tail(up)
  /\ phase' = p
  /\ LET m == Head(up) IN
       /\ h' = IF m.type = "result"
               THEN [h EXCEPT !.got = TRUE, !.output = @ \/ m.text,
                              !.error = @ \/ m.error]
               ELSE h
       /\ heard' = IF m.type = "update" \/ m.text THEN Append(heard, m.turn)
                   ELSE heard
  /\ UNCHANGED <<mode, late, sent, queued, down, kid, intr>>

\* subagent_poll returns -1: the child's stdout is closed or out of step.
PollFails == (up = << >> /\ Gone) \/ (up # << >> /\ Head(up) = Garbled)

MoveOn(p) ==
  /\ phase' = p
  /\ UNCHANGED <<mode, h, late, sent, queued, heard, down, up, kid, intr>>

\* Slip: the message is handled and left in the pipe.
Poll_KeepsMessage ==
  /\ phase = "use" /\ up # << >> /\ Head(up) # Garbled
  /\ heard' = Append(heard, Head(up).turn)
  /\ Len(heard) <= Followups
  /\ UNCHANGED <<mode, phase, h, late, sent, queued, down, up, kid, intr>>

\* The caller of the handle API polls, sends an instruction, stops the child,
\* kills it or waits for it, in whichever order; subagent_run only polls.
Poll == phase = "use" /\ (mode = "run" => ~h.got) /\ Take("use")

SendFollowup ==
  /\ phase = "use" /\ mode = "handle" /\ sent < Followups
  /\ sent' = sent + 1
  /\ Write(Followup(sent + 1), "use")
  /\ UNCHANGED <<mode, h, late, queued, heard, up, kid, intr>>

SendStop ==
  /\ phase = "use" /\ mode = "handle" /\ ~h.stopped
  /\ h' = [h EXCEPT !.stopped = TRUE] /\ queued' = sent
  /\ Write(Stop, "use")
  /\ UNCHANGED <<mode, late, sent, heard, up, kid, intr>>

Kill == child' = (IF child = "exited" THEN "exited" ELSE "killed")

\* subagent_abort
Abort ==
  /\ phase = "use" /\ mode = "handle"
  /\ Kill
  /\ phase' = "aborted"
  /\ h' = [h EXCEPT !.reaped = TRUE]
  /\ UNCHANGED <<mode, late, sent, queued, heard, down, up, turn, code,
                 said, intr>>

CallWait == phase = "use" /\ mode = "handle" /\ MoveOn("stop")

\* Slip: the loop ends when a poll finds nothing.
FirstResult_PollOnce ==
  /\ phase = "use" /\ mode = "run" /\ (h.got \/ up = << >>)
  /\ MoveOn("stop")

\* The loop of subagent_run ends with the result, with the child's stdout, or
\* at its deadline.
FirstResult ==
  /\ phase = "use" /\ mode = "run" /\ (h.got \/ PollFails)
  /\ MoveOn("stop")

FirstDeadline ==
  /\ phase = "use" /\ mode = "run" /\ ~h.got
  /\ phase' = "stop" /\ late' = TRUE
  /\ UNCHANGED <<mode, h, sent, queued, heard, down, up, kid, intr>>

\* subagent_wait sends the stop, once, and closes the child's stdin.
EnterWait ==
  /\ phase = "stop"
  /\ IF h.stopped
     THEN phase' = "wait" /\ UNCHANGED <<h, queued, down>>
     ELSE /\ h' = [h EXCEPT !.stopped = TRUE] /\ queued' = sent
          /\ Write(Stop, "wait")
  /\ UNCHANGED <<mode, late, sent, heard, up, kid, intr>>

\* Slips: the loop has no deadline; the child is left behind at the deadline.
WaitDeadline_None == FALSE
WaitDeadline_NoReap ==
  /\ phase = "wait"
  /\ phase' = "returned" /\ h' = [h EXCEPT !.timed_out = TRUE]
  /\ UNCHANGED <<mode, late, sent, queued, heard, down, up, kid, intr>>

WaitDeadline ==
  /\ phase = "wait"
  /\ phase' = "reap" /\ h' = [h EXCEPT !.timed_out = TRUE]
  /\ UNCHANGED <<mode, late, sent, queued, heard, down, up, kid, intr>>

\* One subagent_poll: it drains what is there, then fails or goes back.
WaitPoll ==
  /\ phase \in {"wait", "drain"}
  /\ \/ Take("drain")
     \/ PollFails /\ MoveOn("reap")
     \/ up = << >> /\ ~Gone /\ MoveOn("check")

ExitCode == IF child = "exited" THEN code ELSE -1

\* waitpid succeeds: the handle is marked and subagent_wait returns.
Collect ==
  /\ h' = [h EXCEPT !.reaped = TRUE, !.exit_code = ExitCode]
  /\ phase' = "returned"
  /\ UNCHANGED <<mode, late, sent, queued, heard, down, up, kid, intr>>

\* waitpid(WNOHANG): a child that is gone ends the loop there and then.
CheckChild ==
  /\ phase = "check"
  /\ IF Gone THEN Collect ELSE MoveOn("wait")

KillLate ==
  /\ phase = "reap" /\ h.timed_out /\ ~Gone
  /\ Kill
  /\ UNCHANGED <<mode, parent, down, up, turn, code, said, intr>>

Reap == phase = "reap" /\ Gone /\ Collect
-----------------------------------------------------------------------------
(***************************************************************************)
(* The child                                                                *)
(***************************************************************************)
Leave(c) == child' = "leaving" /\ code' = c /\ UNCHANGED <<turn, said>>

Reply(m) == Len(up) < PipeCap /\ up' = Append(up, m)

\* exec fails, or the task cannot be used: the child exits without a word.
CannotStart ==
  /\ child = "start"
  /\ Leave(1)
  /\ UNCHANGED <<mode, parent, down, up, intr>>

ReadTask ==
  /\ child = "start" /\ down # << >>
  /\ down' = Tail(down)
  /\ child' = "turn"
  /\ UNCHANGED <<mode, parent, up, turn, code, said, intr>>

UnknownProvider ==
  /\ child = "start" /\ down # << >>
  /\ down' = Tail(down)
  /\ Reply(Result(FALSE, TRUE))
  /\ Leave(1)
  /\ UNCHANGED <<mode, parent, intr>>

\* agent_chat returns: a text, an empty text, or NULL once SIGINT arrived.
EndTurn(text) ==
  /\ child = "turn"
  /\ intr => ~text
  /\ child' = "listen"
  /\ IF turn = 0
     THEN Reply(Result(text, intr)) /\ said' = text
     ELSE Reply(Update(turn, text)) /\ UNCHANGED said
  /\ UNCHANGED <<mode, parent, down, turn, code, intr>>

StdinClosed == phase \in {"wait", "drain", "check", "reap"} \cup Over

\* Slip: a closed stdin is noticed before what is still in the pipe is read.
Listen_EofFirst ==
  /\ child = "listen"
  /\ IF StdinClosed THEN Leave(0) /\ UNCHANGED down
     ELSE /\ down # << >> /\ down' = Tail(down)
          /\ IF Head(down) = Stop THEN Leave(0)
             ELSE child' = "turn" /\ turn' = Head(down).turn /\ UNCHANGED <<code, said>>
  /\ UNCHANGED <<mode, parent, up, intr>>

\* The child's loop: it reads the next instruction, and ends at a stop or when
\* stdin is closed and empty (which the stop before every close prevents).
Listen ==
  /\ child = "listen"
  /\ IF down = << >> THEN StdinClosed /\ Leave(0) /\ UNCHANGED down
     ELSE /\ down' = Tail(down)
          /\ IF Head(down) = Stop THEN Leave(0)
             ELSE child' = "turn" /\ turn' = Head(down).turn /\ UNCHANGED <<code, said>>
  /\ UNCHANGED <<mode, parent, up, intr>>

Exit ==
  /\ child = "leaving"
  /\ child' = "exited"
  /\ UNCHANGED <<mode, parent, down, up, turn, code, said, intr>>

\* Ctrl-C goes to the whole process group.  The child's blocking read of stdin
\* fails (no SA_RESTART), which it takes for the end of the input; the parent's
\* polls start again, but its blocking waitpid is cut short the same way.
Sigint ==
  /\ ~intr /\ phase \notin Over
  /\ intr' = TRUE
  /\ CASE child = "listen" -> Leave(0) /\ UNCHANGED up
       [] child = "start" -> Leave(1) /\ Reply(Garbled)
       [] OTHER -> UNCHANGED <<kid, up>>
  /\ \/ UNCHANGED parent
     \/ /\ phase = "reap" /\ phase' = "returned"
        /\ \E c \in {-1, 0, 1} : h' = [h EXCEPT !.reaped = TRUE, !.exit_code = c]
        /\ UNCHANGED <<late, sent, queued, heard>>
  /\ UNCHANGED <<mode, down>>
-----------------------------------------------------------------------------
Caller == Poll \/ SendFollowup \/ SendStop \/ Abort \/ CallWait
Parent == SendTask \/ FirstResult \/ EnterWait \/ WaitPoll \/ CheckChild
            \/ KillLate \/ Reap
Child == CannotStart \/ ReadTask \/ UnknownProvider \/ Listen \/ Exit

Next == Caller \/ Parent \/ FirstDeadline \/ WaitDeadline \/ Child \/ Sigint
          \/ \E t \in BOOLEAN : EndTurn(t)

Spec == Init /\ [][Next]_vars

\* Both processes run and time passes; a turn of the child need not end, and
\* the user of the handle API need not do anything.
Fairness == /\ WF_vars(Parent) /\ WF_vars(Child)
            /\ SF_vars(FirstDeadline) /\ SF_vars(WaitDeadline)
FairSpec == Spec /\ Fairness
-----------------------------------------------------------------------------
(***************************************************************************)
(* Properties                                                               *)
(***************************************************************************)
\* on_event hears each answer at most once, in the order of the instructions,
\* and never one to an instruction that was not sent.
AnswersInOrder ==
  \A k \in DOMAIN heard :
    heard[k] <= sent /\ \A j \in 1..(k - 1) : heard[j] < heard[k]

\* subagent_stop is graceful: a child that ends of its own accord has answered
\* every instruction sent before the stop, unless Ctrl-C cut it short.
StopIsGraceful ==
  child = "exited" /\ code = 0 /\ ~intr =>
    \A k \in 1..queued :
      k \in ToSet(heard) \/ \E j \in DOMAIN up : up[j].turn = k

\* When the handle is done with, the child has ended and its exit code is the
\* one reported, save when Ctrl-C cut the blocking waitpid short.
NoChildLeftBehind ==
  phase \in {"returned", "aborted"} =>
    intr \/ (Gone /\ (phase = "returned" => h.exit_code = ExitCode))

\* subagent_run loses an answer its child gave only if its first deadline passed
\* before the answer came.
LossOnlyWhenLate ==
  mode = "run" /\ phase = "returned" /\ said /\ ~h.output => late

\* subagent_run ends, whether or not the child ever answers.
RunEnds == mode = "run" ~> phase \in Over
=============================================================================
