----------------------------- MODULE ToolHandlers -----------------------------
(* A batch of tool calls that run at the same time on what the handlers share: *)
(* the files, the todo list and the mailbox.  builtin_tools_register declares  *)
(* every built-in but "confirm" safe to run concurrently, so any handlers may  *)
(* meet.  A call of a subagent or of another cgent on the same files and       *)
(* mailbox behaves like one more call of the batch.                            *)
EXTENDS FileTools, TodoStore, Mailbox

CONSTANTS
  Batches,    \* the batches to explore; an apply_patch call carries what its author wants as goal
  InitFile, InitTodos, InitBox

\* The arguments the handlers have checked: a list of items, an integer, texts, and
\* paths of files ("none": no path given).  A message gets a fresh uuid, here the
\* number of the call that sends it.
ASSUME BatchesAssumption ==
  \A batch \in Batches : \A c \in DOMAIN batch :
    /\ c \notin DOMAIN InitBox
    /\ batch[c].tool = "todo_write" => batch[c].items \in Seq([content : STRING, status : STRING])
    /\ batch[c].tool = "todo_update" =>
         batch[c].index \in Int /\ batch[c].status \in STRING /\ batch[c].content \in STRING
    /\ batch[c].tool \in {"read_file", "write_file", "edit"} =>
         batch[c].path \notin {DevNull, "none"}
    /\ batch[c].tool = "write_file" => batch[c].text \in Seq(STRING)
    /\ batch[c].tool = "edit" => batch[c].old \in Seq(STRING) /\ batch[c].new \in Seq(STRING)
    /\ batch[c].tool = "apply_patch" =>
         batch[c].patch \in Seq({batch[c].patch[i] : i \in DOMAIN batch[c].patch})

\* Files are sequences of lines; the messages that are there were written to the end.
ASSUME InitAssumption ==
  /\ \A p \in DOMAIN InitFile : InitFile[p] \in Seq(STRING)
  /\ InitTodos \in Seq(TodoItem) /\ MaxChecked \in Nat /\ ReadCap \in Nat
  /\ \A id \in DOMAIN InitBox :
       InitBox[id] \in [to : {InitBox[id].to}, body : {InitBox[id].body}, whole : {TRUE}]

vars == <<call, pc, loc, reply, file, todos, box>>

Init == InitCalls(Batches) /\ file = InitFile /\ todos = InitTodos /\ box = InitBox

OnFiles(c) == FileStep(c) /\ UNCHANGED <<todos, box>>
OnTodos(c) == TodoStep(c) /\ UNCHANGED <<file, box>>
OnMail(c)  == MailStep(c) /\ UNCHANGED <<file, todos>>

Next == \E c \in DOMAIN call : OnFiles(c) \/ OnTodos(c) \/ OnMail(c)

Spec == Init /\ [][Next]_vars

-----------------------------------------------------------------------------
(* Properties                                                                  *)

PathsOf(k) ==
  CASE k.tool \in {"read_file", "write_file", "edit"} -> {k.path}
    [] k.tool = "apply_patch" -> {PathOf(k.patch[i]) : i \in {j \in DOMAIN k.patch :
                                    Kind(k.patch[j]) \in {"---", "+++"}}} \cup {k.path}
    [] OTHER -> {}

Others(c) == DOMAIN call \ {c}
Apart(c) == \A d \in Others(c) : PathsOf(call[c]) \cap PathsOf(call[d]) \subseteq {DevNull, "none"}

At0(f, path) == IF path \in DOMAIN f THEN <<f[path]>> ELSE <<>>

\* What an edit is supposed to do to a text.
Exchanged(before, after, old, new) ==
  \E i \in Occurrences(before, old) : after = Replace(before, i, Len(old), new)

\* A call whose file no other call of the batch touches leaves it exactly as its
\* reply says, whatever else runs: a read shows the file, and says so when it shows
\* only the beginning; a written file is what was written, an edited one has one
\* occurrence exchanged, and the file of a refused call is as it was before.
\* (tool_write_file, tool_edit: the text is computed before the file is emptied, and
\* nothing of the old one is left.)
ApartIsExact ==
  \A c \in DOMAIN call :
    LET k == call[c]
        before == At0(InitFile, k.path)
        now == At0(file, k.path)
    IN  (Done(c) /\ k.tool \in {"read_file", "write_file", "edit"} /\ Apart(c)) =>
          IF ~reply[c].ok THEN now = before
          ELSE CASE k.tool = "read_file"  -> before # <<>> /\ reply[c] = Said(Shown(before[1]))
                 [] k.tool = "write_file" -> now = <<k.text>>
                 [] k.tool = "edit" -> Exchanged(before[1], now[1], k.old, k.new)

\* The files that the lines of a patch before line n are about.
PathsBefore(k, n) ==
  LET named == {PathOf(k.patch[i]) : i \in {j \in 1 .. n - 1 : Kind(k.patch[j]) \in {"---", "+++"}}}
  IN  IF named = {} THEN {} ELSE named \cup {k.path}

\* A patch made from a difference, in one hunk or more, produces the intended
\* files if no other call touches them.  One that is refused has produced those of
\* the sections before the one that failed and left the other files as they were,
\* the file of the failing section too, whichever of its hunks does not match: of
\* several files, less than the "Fails cleanly" of the tool's description.
\* (patch_apply_hunk with its running offset, and the order of computing first and
\* emptying the file afterwards.)
PatchReachesGoal ==
  \A c \in DOMAIN call :
    LET k == call[c]
        upTo(n) == \A p \in PathsOf(k) \ {DevNull, "none"} :
                     At0(file, p) = At0(IF p \in PathsBefore(k, n) THEN k.goal ELSE InitFile, p)
    IN  (Done(c) /\ k.tool = "apply_patch" /\ Apart(c)) =>
          IF reply[c].ok THEN upTo(Len(k.patch) + 1)
          ELSE \E n \in {j \in DOMAIN k.patch : Kind(k.patch[j]) = "---"} : upTo(n)

\* A message that was there, or whose sending was confirmed, is only missing when
\* a call cleared the mailbox for somebody it was addressed to.  A clear that
\* names its recipient can take any message, because it compares with memory that
\* it has freed (tool_clear_mailbox); the default recipient is spared that.
MailIsKept ==
  LET sent == {c \in DOMAIN call : call[c].tool = "send_message" /\ Done(c) /\ reply[c].ok}
      to(id) == IF id \in DOMAIN InitBox THEN InitBox[id].to ELSE call[id].to
  IN  \A id \in DOMAIN InitBox \cup sent :
        \/ id \in DOMAIN box /\ box[id].whole
        \/ \E c \in DOMAIN call : /\ call[c].tool = "clear_mailbox"
                                  /\ call[c].to # "none" \/ to(id) \in {"agent", "all"}

\* check_mailbox for the default recipient lists every message for it that was
\* there before and is still there, up to the room it has, although files come
\* and go while it reads the directory.  A message of more than 1 MB is the
\* exception: it was confirmed as sent, and no check ever lists it.
CheckMissesNothing ==
  \A c \in DOMAIN call :
    (call[c].tool = "check_mailbox" /\ call[c].to = "none" /\ Done(c)) =>
      \/ Cardinality(reply[c].out) = MaxChecked
      \/ \A id \in DOMAIN InitBox \cap DOMAIN box :
           InitBox[id].to \in {"agent", "all"} /\ InitBox[id].body # Huge => id \in reply[c].out

\* The reply to a todo_update shows the change it confirms, unless another call
\* changed that item or replaced the list; the mutex is free between the change
\* and the snapshot in the reply.
OwnChangeShown ==
  \A c \in DOMAIN call :
    LET k == call[c]
        undone(d) == \/ call[d].tool = "todo_write"
                     \/ call[d].tool = "todo_update" /\ call[d].index = k.index
        item == reply[c].out[k.index + 1]
    IN  (k.tool = "todo_update" /\ Done(c) /\ reply[c].ok /\ ~\E d \in Others(c) : undone(d)) =>
          /\ k.status # "none" => item.status = Spelled(k.status)
          /\ k.content # "none" => item.content = k.content

\* What a call that changes files does when nothing else runs.
Alone(f, k) ==
  CASE k.tool = "write_file" -> With(f, k.path, k.text)
    [] k.tool = "edit" ->
         IF k.path \in DOMAIN f /\ Unique(f[k.path], k.old)
           THEN With(f, k.path, Replace(f[k.path], Min2(Occurrences(f[k.path], k.old)),
                                        Len(k.old), k.new))
           ELSE f
    [] OTHER -> f

Orders == {o \in [DOMAIN call -> DOMAIN call] : {o[i] : i \in DOMAIN call} = DOMAIN call}

\* Calls that are safe to run concurrently, and all say that they succeeded, leave
\* what some order of them leaves.
SafeTogether ==
  AllDone /\ (\A c \in DOMAIN call : reply[c].ok) =>
    \E o \in Orders : file = FoldLeft(Alone, InitFile, [i \in DOMAIN call |-> call[o[i]]])
=============================================================================
