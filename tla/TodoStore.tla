------------------------------ MODULE TodoStore ------------------------------
(* The todo list of todo.c and the handlers of todo_write, todo_update and     *)
(* todo_list.  The mutex g_lock makes one change, and one snapshot, a step; it *)
(* is released between the change and the snapshot that goes into the reply.   *)
EXTENDS HandlerCalls

VARIABLE todos   \* g_items: a sequence of [content, status]

\* todo_item_t: only a known status is ever stored.
TodoItem == [content : STRING, status : {"pending", "in_progress", "completed", "cancelled"}]

valid_status(s) == s \in {"pending", "in_progress", "completed", "cancelled"}

\* An item whose status is missing or unknown is pending.
Item(j) == [content |-> j.content, status |-> IF valid_status(j.status) THEN j.status ELSE "pending"]

todo_replace(items) == todos' = [i \in DOMAIN items |-> Item(items[i])]

\* Slip: the status is only looked at when there is no content.
todo_update_Slip(i, status, content) ==
  todos' = [todos EXCEPT ![i + 1] =
              IF content # "none" THEN [@ EXCEPT !.content = content]
              ELSE IF valid_status(status) THEN [@ EXCEPT !.status = status] ELSE @]

\* "none" is a missing argument; the index is 0-based.
todo_update(i, status, content) ==
  todos' = [todos EXCEPT ![i + 1] =
              [content |-> IF content # "none" THEN content ELSE @.content,
               status  |-> IF valid_status(status) THEN status ELSE @.status]]

InRange(i) == i >= 0 /\ i < Len(todos)

\* The status the tool passes on: one spelling is forgiven, others are refused.
Spelled(status) == IF status = "in-progress" THEN "in_progress" ELSE status

TodoWrite(c) ==
  /\ At(c, "start", "todo_write")
  /\ todo_replace(call[c].items) /\ Goto(c, "snapshot", <<>>)

TodoUpdate(c) ==
  /\ At(c, "start", "todo_update")
  /\ LET status == Spelled(call[c].status)
         known == status = "none" \/ valid_status(status)
         given == status # "none" \/ call[c].content # "none"
     IN  IF given /\ known /\ InRange(call[c].index)
           THEN /\ todo_update(call[c].index, status, call[c].content)
                /\ Goto(c, "snapshot", <<>>)
           ELSE Answer(c, Refused) /\ UNCHANGED todos

TodoList(c) ==
  At(c, "start", "todo_list") /\ Goto(c, "snapshot", <<>>) /\ UNCHANGED todos

\* todo_result_ok puts the list into the reply, as it is by then.
TodoReply(c) ==
  /\ pc[c] = "snapshot"
  /\ Answer(c, Said(todos)) /\ UNCHANGED todos

TodoStep(c) == TodoWrite(c) \/ TodoUpdate(c) \/ TodoList(c) \/ TodoReply(c)
=============================================================================
