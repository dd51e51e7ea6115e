-------------------------------- MODULE OsExec --------------------------------
(***************************************************************************)
(* os_exec_capture_timeout of src/platform/os.c, which every tool that runs *)
(* a command uses: the parent polls the pipe in slices of one second, and   *)
(* ends with the output, a timeout, a cut or an interrupt.  The command is  *)
(* a shell, which puts itself into a process group of its own after fork,   *)
(* and perhaps a background job of that group that inherits its stdout.     *)
(***************************************************************************)
EXTENDS Integers, FiniteSetsExt

CONSTANTS
  Timeout,   \* timeout_ms, in ticks; every caller passes a positive one
  Slice,     \* the longest single poll (1000 ms), in ticks
  Cap,       \* OS_EXEC_CAP, in chunks
  MaxOutput, \* bound: chunks the command writes
  Sigints,   \* bound: times the user presses Ctrl-C
  Horizon    \* bound: how far the clock is followed while waitpid blocks

ASSUME ExecAssumption ==
  /\ Timeout \in Nat \ {0} /\ Slice \in Nat \ {0} /\ Cap \in Nat \ {0}
  /\ MaxOutput \in Nat /\ Sigints \in Nat /\ Horizon \in Nat

VARIABLES
  pc,       \* where the parent is
  now,      \* time since the start
  wake,     \* when the current poll returns 0
  waited,   \* time spent in the reaping loop
  len,      \* chunks captured
  marker,   \* why the output was cut short
  code,     \* *exit_code; "status" is the command's own
  missed,   \* history: did a kill(-pid) come before the shell had made its group?
  sh, job,  \* the shell and the background job
  shOut,    \* does the shell still hold its stdout?
  pipe,     \* chunks in the pipe
  written,  \* history: chunks written
  intr,     \* g_interrupted
  sigints,  \* times Ctrl-C was pressed
  eintr     \* did it come while the parent was inside poll?

time == <<now, wake, waited>>
command == <<sh, job, shOut, pipe, written>>
signal == <<intr, sigints, eintr>>
exec_vars == <<pc, time, len, marker, code, missed, command, signal>>

ShAlive == sh \in {"forked", "running"}
Held == (ShAlive /\ shOut) \/ job = "running"
Eof == pipe = 0 /\ ~Held
Ready == pipe > 0 \/ Eof

\* Every variable keeps its type, and the buffer never holds more than Cap.
ExecTypeOK ==
  /\ pc \in {"loop", "poll", "kill", "waitpid", "reap", "done"}
  /\ now \in Nat /\ wake \in Nat /\ waited \in 0..Timeout
  /\ len \in 0..Cap
  /\ marker \in {"none", "interrupted", "timed_out", "truncated"}
  /\ code \in {"none", "status", "124", "130", "-1"}
  /\ sh \in {"forked", "running", "exited", "killed"}
  /\ job \in {"none", "running", "ended", "killed"}
  /\ missed \in BOOLEAN /\ shOut \in BOOLEAN /\ intr \in BOOLEAN /\ eintr \in BOOLEAN
  /\ pipe \in 0..written /\ written \in 0..MaxOutput
  /\ sigints \in 0..Sigints

\* The flag may be set from before: another tool of the batch was interrupted.
ExecInit ==
  /\ pc = "loop"
  /\ now = 0 /\ wake = 0 /\ waited = 0
  /\ len = 0 /\ marker = "none" /\ code = "none" /\ missed = FALSE
  /\ sh = "forked" /\ job = "none" /\ shOut = TRUE
  /\ pipe = 0 /\ written = 0
  /\ intr \in BOOLEAN /\ sigints = 0 /\ eintr = FALSE
-----------------------------------------------------------------------------
(***************************************************************************)
(* The parent                                                               *)
(***************************************************************************)
\* The loop is left for the reason m.
GiveUp(m) ==
  /\ pc' = "kill" /\ marker' = m
  /\ UNCHANGED <<time, len, code, missed, command, signal>>

\* Slip: the time already spent is not deducted.
LoopHead_NoBudget ==
  /\ pc = "loop"
  /\ IF intr THEN GiveUp("interrupted")
     ELSE /\ pc' = "poll" /\ wake' = now + Slice /\ eintr' = FALSE
          /\ UNCHANGED <<now, waited, len, marker, code, missed, command, intr, sigints>>

LoopHead ==
  /\ pc = "loop"
  /\ IF intr THEN GiveUp("interrupted")
     ELSE IF now >= Timeout THEN GiveUp("timed_out")
     ELSE /\ pc' = "poll" /\ eintr' = FALSE
          /\ wake' = now + Min({Timeout - now, Slice})
          /\ UNCHANGED <<now, waited, len, marker, code, missed, command, intr, sigints>>

\* Slip: the end of the output is looked for before what is in the pipe is read.
PollReady_DropsTail ==
  /\ pc = "poll"
  /\ IF ~Held THEN pc' = "reap" /\ UNCHANGED <<len, pipe>>
     ELSE /\ pipe > 0 /\ pc' = "loop"
          /\ LET n == Min({pipe, Cap - len}) IN len' = len + n /\ pipe' = pipe - n
  /\ UNCHANGED <<time, marker, code, missed, sh, job, shOut, written, signal>>

\* poll reports data or the end of the output.  A full buffer is noticed first.
PollReady ==
  /\ pc = "poll" /\ Ready
  /\ IF len >= Cap THEN GiveUp("truncated")
     ELSE /\ pc' = (IF pipe > 0 THEN "loop" ELSE "reap")
          /\ LET n == Min({pipe, Cap - len}) IN len' = len + n /\ pipe' = pipe - n
          /\ UNCHANGED <<time, marker, code, missed, sh, job, shOut, written, signal>>

\* poll returns 0: the slice passed in silence.
PollQuiet ==
  /\ pc = "poll" /\ ~Ready /\ now >= wake
  /\ GiveUp("timed_out")

PollEintr == pc = "poll" /\ eintr /\ GiveUp("interrupted")

\* Slip: only the shell is killed, not its group.
KillGroup_ShellOnly ==
  /\ sh' = IF sh = "running" THEN "killed" ELSE sh
  /\ UNCHANGED job
  /\ missed' = (missed \/ sh = "forked")

\* kill(-pid): a shell that has not made its group yet is not in it.
KillGroup ==
  /\ sh' = IF sh = "running" THEN "killed" ELSE sh
  /\ job' = IF job = "running" THEN "killed" ELSE job
  /\ missed' = (missed \/ sh = "forked")

\* The command is killed and the exit code set from the reason.
KillCommand ==
  /\ pc = "kill"
  /\ KillGroup
  /\ pc' = "waitpid"
  /\ code' = CASE marker = "timed_out" -> "124"
               [] marker = "interrupted" -> "130"
               [] OTHER -> "-1"
  /\ UNCHANGED <<time, len, marker, shOut, pipe, written, signal>>

\* The blocking waitpid returns.
Reaped ==
  /\ pc = "waitpid" /\ ~ShAlive
  /\ pc' = "done"
  /\ UNCHANGED <<time, len, marker, code, missed, command, signal>>

\* After the end of the output: waitpid(WNOHANG) until the shell has exited, or
\* for as long as the timeout once more.
ReapExited ==
  /\ pc = "reap" /\ ~ShAlive
  /\ pc' = "done" /\ code' = "status"
  /\ UNCHANGED <<time, len, marker, missed, command, signal>>

\* Slip: the reaping loop has no time limit.
ReapLate_Never == FALSE

ReapLate ==
  /\ pc = "reap" /\ ShAlive /\ waited >= Timeout
  /\ KillGroup
  /\ pc' = "waitpid" /\ code' = "124"
  /\ UNCHANGED <<time, len, marker, shOut, pipe, written, signal>>

Parent == LoopHead \/ PollReady \/ PollQuiet \/ PollEintr \/ KillCommand
            \/ Reaped \/ ReapExited \/ ReapLate
-----------------------------------------------------------------------------
(***************************************************************************)
(* The command, the clock and the user                                      *)
(***************************************************************************)
\* setpgid(0, 0), then exec of the shell.
MakeGroup ==
  /\ sh = "forked" /\ sh' = "running"
  /\ UNCHANGED <<pc, time, len, marker, code, missed, job, shOut, pipe, written, signal>>

WriteOutput ==
  /\ (sh = "running" /\ shOut) \/ job = "running"
  /\ written < MaxOutput /\ pc \in {"loop", "poll"}
  /\ written' = written + 1 /\ pipe' = pipe + 1
  /\ UNCHANGED <<pc, time, len, marker, code, missed, sh, job, shOut, signal>>

ShStep ==
  /\ sh = "running"
  /\ \/ sh' = "exited" /\ UNCHANGED <<job, shOut>>
     \/ job = "none" /\ job' = "running" /\ UNCHANGED <<sh, shOut>>
     \/ shOut /\ shOut' = FALSE /\ UNCHANGED <<sh, job>>
  /\ UNCHANGED <<pc, time, len, marker, code, missed, pipe, written, signal>>

JobEnds ==
  /\ job = "running" /\ job' = "ended"
  /\ UNCHANGED <<pc, time, len, marker, code, missed, sh, shOut, pipe, written, signal>>

\* Time passes while the parent sleeps: in poll, between two looks at the shell, or
\* in waitpid for as long as the command takes.  The shell makes its group at once,
\* that is, within the first tick.
Tick ==
  /\ sh # "forked"
  /\ \/ pc = "poll" /\ ~Ready /\ ~eintr /\ now < wake /\ UNCHANGED waited
     \/ pc = "reap" /\ ShAlive /\ waited < Timeout /\ waited' = waited + 1
     \/ pc = "waitpid" /\ ShAlive /\ now < Horizon /\ UNCHANGED waited
  /\ now' = now + 1
  /\ UNCHANGED <<pc, wake, len, marker, code, missed, command, signal>>

\* Ctrl-C sets the flag.  It cuts short a poll that has begun, not one that the
\* parent is about to begin; it also cuts short the blocking waitpid.
Sigint ==
  /\ sigints < Sigints /\ pc # "done"
  /\ sigints' = sigints + 1 /\ intr' = TRUE
  /\ eintr' \in (IF pc = "poll" THEN BOOLEAN ELSE {FALSE})
  /\ pc' = (IF pc = "waitpid" THEN "done" ELSE pc)
  /\ UNCHANGED <<time, len, marker, code, missed, command>>

ExecNext == Parent \/ MakeGroup \/ WriteOutput \/ ShStep \/ JobEnds \/ Tick \/ Sigint

\* The parent and the clock go on; the command owes nobody anything, except
\* that its process starts.
ExecSpec == ExecInit /\ [][ExecNext]_exec_vars /\ WF_exec_vars(Parent) /\ WF_exec_vars(Tick) /\ WF_exec_vars(MakeGroup)
-----------------------------------------------------------------------------
(***************************************************************************)
(* Properties                                                               *)
(***************************************************************************)
\* A call that ends with the command's own status has captured every byte the
\* command and its background job wrote.
AllOutputKept == pc = "done" /\ code = "status" => len = written

\* A command that timed out or wrote too much leaves nothing running behind,
\* neither the shell nor its jobs; an impatient Ctrl-C does not change that.
NothingLeftRunning ==
  pc = "done" /\ code \in {"124", "-1"} => ~ShAlive /\ job # "running"

\* However the command spaces its output, the call takes no longer than twice
\* its timeout: once to read, once to reap.  The exception is a call that was
\* interrupted before the shell had made its group: its kill(-pid) hits nothing,
\* and waitpid blocks for as long as the command runs.
TwiceTimeoutAtMost == now > 2 * Timeout => missed /\ code = "130"

\* A call nobody interrupts ends, even if the command never does.
EndsUninterrupted == <>(pc = "done" \/ intr)
=============================================================================
