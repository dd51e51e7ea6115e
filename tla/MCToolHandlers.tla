---------------------------- MODULE MCToolHandlers ----------------------------
(* ToolHandlers for TLC: two files, two todo items, four messages, and the     *)
(* batches of one patch, of two file or todo calls, and of mail calls.         *)
EXTENDS ToolHandlers

abca == <<"a", "b", "c", "a">>
MCInitFile == [p \in {"f", "g"} |-> IF p = "f" THEN abca ELSE <<"b">>]
MCInitTodos == <<[content |-> "plan", status |-> "pending"], [content |-> "do", status |-> "pending"]>>
Mail(to) == [to |-> to, body |-> "text", whole |-> TRUE]
MCInitBox == [id \in 101 .. 104 |->
                IF id = 104 THEN [Mail("agent") EXCEPT !.body = Huge]
                            ELSE Mail(<<"agent", "all", "reviewer">>[id - 100])]

-----------------------------------------------------------------------------
(* Patches made from differences.  A difference keeps or deletes each line of   *)
(* f and may insert a line in front of each and at the end.                    *)

Line(tag, text) == [kind |-> "body", tag |-> tag, text |-> text]
Deletions == SUBSET (1 .. Len(abca))
Insertions == {S \in SUBSET (1 .. Len(abca) + 1) : Cardinality(S) <= 2}

\* The lines of the difference from old line i to old line j.
Body(del, ins, i, j) ==
  FlattenSeq([n \in 1 .. j - i + 1 |->
    LET k == i + n - 1
    IN  (IF k \in ins THEN <<Line("+", "x")>> ELSE <<>>)
        \o IF k > Len(abca) THEN <<>>
           ELSE <<Line(IF k \in del THEN "-" ELSE " ", abca[k])>>])

New(del, ins) == Texts(SelectSeq(Body(del, ins, 1, Len(abca) + 1), LAMBDA l : l.tag # "-"))

Header(old, new) == <<[kind |-> "---", path |-> old], [kind |-> "+++", path |-> new]>>
Hunk(i, body) == <<[kind |-> "@@", start |-> i]>> \o body

\* In one hunk, or cut in two in front of old line j, each with an old line.
OneHunk(del, ins) == Header("f", "f") \o Hunk(1, Body(del, ins, 1, Len(abca) + 1))
TwoHunks(del, ins, j) ==
  Header("f", "f") \o Hunk(1, Body(del, ins, 1, j - 1)) \o Hunk(j, Body(del, ins, j, Len(abca) + 1))

Apply(patch, goal) == [tool |-> "apply_patch", path |-> "none", patch |-> patch, goal |-> goal]
Goal(f) == [p \in {"f", "g"} |-> IF p = "f" THEN f ELSE MCInitFile[p]]

Differences ==
  {<<Apply(OneHunk(d, i), Goal(New(d, i)))>> : d \in Deletions, i \in Insertions}
  \cup {<<Apply(TwoHunks(d, i, j), Goal(New(d, i)))>> : d \in Deletions, i \in Insertions, j \in 2 .. 4}

\* Several files, a context that is not there, a malformed header, a wrong start,
\* an empty line and a marker in the body.
AddH == Header(DevNull, "h") \o Hunk(1, <<Line("+", "a"), Line("+", "b")>>)
DelG == Header("g", DevNull) \o Hunk(1, <<Line("-", "b")>>)
BadF == Header("f", "f") \o Hunk(1, <<Line(" ", "z"), Line("+", "x")>>)
Far  == Header("f", "f") \o Hunk(4, <<Line(" ", "b"), [kind |-> "", path |-> ""], Line("-", "c"),
                                    [kind |-> "\\", path |-> ""]>>)
Only(f) == [p \in {"f"} |-> f]
zx == <<"z", "x">>
Others3 ==
  { <<Apply(AddH \o DelG, [p \in {"f", "h"} |-> IF p = "f" THEN abca ELSE <<"a", "b">>])>>,
    <<Apply(DelG \o BadF, Only(zx))>>, <<Apply(BadF \o DelG, Only(zx))>>,
    <<Apply(BadF, Goal(zx))>>,
    <<Apply(Far, Goal(<<"a", "b", "a">>))>>,
    <<Apply(<<[kind |-> "---", path |-> "f"]>>, MCInitFile)>>,
    <<Apply(Header("f", "f") \o <<[kind |-> "@?", path |-> ""]>>, MCInitFile)>>,
    <<Apply(Header("f", "f") \o <<Line(" ", "a")>>, MCInitFile)>>,
    <<[Apply(Header("q", "q") \o Hunk(1, <<Line("-", "b"), Line("+", "c")>>),
            [MCInitFile EXCEPT !["g"] = <<"c">>]) EXCEPT !.path = "g"]>> }

-----------------------------------------------------------------------------
(* Calls that meet                                                             *)

EditOf(p, old, new) == [tool |-> "edit", path |-> p, old |-> old, new |-> new]
FileCalls ==
  { [tool |-> "read_file", path |-> "f"], [tool |-> "read_file", path |-> "g"], [tool |-> "read_file", path |-> "h"],
    [tool |-> "write_file", path |-> "g", text |-> <<"x", "y">>],
    EditOf("f", <<"b">>, <<"x">>), EditOf("f", <<"c", "a">>, <<>>), EditOf("f", <<"a">>, <<"x">>),
    EditOf("f", <<>>, <<"x">>), EditOf("g", <<"b">>, <<"y", "y">>),
    Apply(DelG, Only(abca)), Apply(OneHunk({2}, {3}), Goal(<<"a", "x", "c", "a">>)) }

Update(i, s, t) == [tool |-> "todo_update", index |-> i, status |-> s, content |-> t]
TodoCalls ==
  { [tool |-> "todo_write", items |-> <<[content |-> "new", status |-> "later"]>>],
    [tool |-> "todo_list"], Update(0, "completed", "none"), Update(0, "in-progress", "again"),
    Update(1, "none", "other"), Update(1, "later", "other"), Update(2, "pending", "none") }

MailCalls ==
  { [tool |-> "send_message", to |-> "agent", body |-> "text"],
    [tool |-> "send_message", to |-> "agent", body |-> Huge],
    [tool |-> "send_message", to |-> "reviewer", body |-> "none"],
    [tool |-> "check_mailbox", to |-> "none"], [tool |-> "check_mailbox", to |-> "reviewer"],
    [tool |-> "clear_mailbox", to |-> "none"], [tool |-> "clear_mailbox", to |-> "reviewer"] }

Pairs(S) == {<<a, b>> : a, b \in S}
MailTogether == {<<m, [tool |-> "check_mailbox", to |-> "none"], [tool |-> "clear_mailbox", to |-> "none"]>> :
                   m \in {k \in MailCalls : k.tool = "send_message"}}

MCBatches ==
  Differences \cup Others3 \cup Pairs(FileCalls) \cup Pairs(TodoCalls) \cup Pairs(MailCalls) \cup MailTogether

\* Two edits of one file, of different lines of it.
MCEdits == {<<EditOf("f", <<"b">>, <<"x">>), EditOf("f", <<"c">>, <<"y">>)>>}
=============================================================================
