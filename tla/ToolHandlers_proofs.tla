-------------------------- MODULE ToolHandlers_proofs --------------------------
(***************************************************************************)
(* Proofs about ToolHandlers for any batch of calls and any mailbox: that   *)
(* no message is lost but to a clear of the mailbox, that check_mailbox     *)
(* misses none, that a todo_update sees its own change, and that a call     *)
(* alone with its file does to it exactly what its reply says.              *)
(***************************************************************************)
EXTENDS ToolHandlers, FiniteSetTheorems, SequenceTheorems, WellFoundedInduction, TLAPS

FileTool == {"read_file", "write_file", "edit", "apply_patch"}
TodoTool == {"todo_write", "todo_update", "todo_list"}
ScanTool == {"check_mailbox", "clear_mailbox"}
MailTool == ScanTool \cup {"send_message"}
FileLabel == {"open", "fill", "next section"}
MailLabel == {"write message", "scan", "unlink"}

\* A call is in the handler of its own tool.
Labelled(c) ==
  /\ pc[c] \in {"start", "done", "snapshot"} \cup FileLabel \cup MailLabel
  /\ pc[c] \in FileLabel => call[c].tool \in FileTool
  /\ pc[c] = "snapshot" => call[c].tool \in TodoTool
  /\ pc[c] = "write message" => call[c].tool = "send_message"
  /\ pc[c] = "scan" => call[c].tool \in ScanTool
  /\ pc[c] = "unlink" => call[c].tool = "clear_mailbox"
Tables == DOMAIN pc = DOMAIN call /\ DOMAIN loc = DOMAIN call /\ DOMAIN reply = DOMAIN call
LabelInv == call \in Batches /\ Tables /\ \A c \in DOMAIN call : Labelled(c)

\* What a message is addressed to, and whether a call may clear it away.
To(id) == IF id \in DOMAIN InitBox THEN InitBox[id].to ELSE call[id].to
Exposed(id) ==
  \E c \in DOMAIN call : /\ call[c].tool = "clear_mailbox"
                         /\ call[c].to # "none" \/ To(id) \in {"agent", "all"}
Sent(c) == call[c].tool = "send_message" /\ (pc[c] = "write message" \/ (Done(c) /\ reply[c].ok))

\* Every message was there or is being, or was, sent; none disappears unless it
\* is exposed; and a clear is about to remove only what exposes.
MailInv ==
  /\ \A id \in DOMAIN box :
       /\ box[id] \in [to : {To(id)}, body : {box[id].body}, whole : BOOLEAN]
       /\ id \in DOMAIN InitBox => box[id].whole /\ box[id].body = InitBox[id].body
       /\ id \notin DOMAIN InitBox =>
            /\ id \in DOMAIN call /\ call[id].tool = "send_message" /\ pc[id] # "start"
            /\ Done(id) => box[id].whole
  /\ \A id \in DOMAIN InitBox : id \in DOMAIN box \/ Exposed(id)
  /\ \A c \in DOMAIN call : Sent(c) => c \in DOMAIN box \/ Exposed(c)
  /\ \A c \in DOMAIN call :
       /\ pc[c] \in {"scan", "unlink"} =>
            loc[c] \in [must : {loc[c].must}, met : {loc[c].met}, hit : {loc[c].hit},
                        at : {loc[c].at}]
       /\ pc[c] = "unlink" => call[c].to # "none" \/ To(loc[c].at) \in {"agent", "all"}

\* What check_mailbox has read so far.
Checks(c) == call[c].tool = "check_mailbox" /\ call[c].to = "none"
ForMe(id) ==
  id \in DOMAIN InitBox /\ InitBox[id].to \in {"agent", "all"} /\ InitBox[id].body # Huge
CheckInv ==
  \A c \in DOMAIN call : Checks(c) =>
    /\ pc[c] = "scan" =>
         /\ IsFiniteSet(loc[c].hit) /\ Cardinality(loc[c].hit) \in 0..MaxChecked
         /\ \A id \in DOMAIN InitBox \cap DOMAIN box : id \in loc[c].must
         /\ \A id \in loc[c].met : ForMe(id) => id \in loc[c].hit
    /\ Done(c) =>
         \/ Cardinality(reply[c].out) = MaxChecked
         \/ \A id \in DOMAIN box : ForMe(id) => id \in reply[c].out

\* The list holds items with a known status, and the change of a todo_update stays
\* in it until it is in the reply.
Undone(c) ==
  \E d \in Others(c) : \/ call[d].tool = "todo_write"
                       \/ call[d].tool = "todo_update" /\ call[d].index = call[c].index
Shows(c, list) ==
  LET item == list[call[c].index + 1]
  IN  /\ call[c].status # "none" => item.status = Spelled(call[c].status)
      /\ call[c].content # "none" => item.content = call[c].content
TodoInv ==
  /\ todos \in Seq(TodoItem)
  /\ \A c \in DOMAIN call : call[c].tool = "todo_update" /\ ~Undone(c) =>
       /\ pc[c] = "snapshot" => call[c].index + 1 \in DOMAIN todos /\ Shows(c, todos)
       /\ Done(c) /\ reply[c].ok => Shows(c, reply[c].out)
-----------------------------------------------------------------------------
\* A step of call c leaves the other calls where they are.
OnlyCall(c) ==
  /\ call' = call /\ (Tables => Tables')
  /\ \A d \in DOMAIN call : d # c => /\ pc'[d] = pc[d] /\ loc'[d] = loc[d]
                                     /\ reply'[d] = reply[d]

LEMMA GotoStep ==
  ASSUME Tables, NEW c \in DOMAIN call, NEW l, NEW x, Goto(c, l, x)
  PROVE  OnlyCall(c) /\ pc'[c] = l /\ loc'[c] = x /\ reply' = reply
BY DEF Tables, Goto, OnlyCall

LEMMA AnswerStep ==
  ASSUME Tables, NEW c \in DOMAIN call, NEW r, Answer(c, r)
  PROVE  OnlyCall(c) /\ pc'[c] = "done" /\ reply'[c] = r /\ loc' = loc
BY DEF Tables, Answer, OnlyCall

LEMMA LabelStep ==
  ASSUME LabelInv, NEW c \in DOMAIN call, OnlyCall(c), Labelled(c)'
  PROVE  LabelInv'
BY DEF LabelInv, OnlyCall, Labelled

\* What the handlers of the files do to the calls.
LEMMA FileShape ==
  ASSUME LabelInv, NEW c \in DOMAIN call, FileStep(c)
  PROVE  /\ OnlyCall(c) /\ call[c].tool \in FileTool /\ LabelInv'
         /\ pc'[c] \in FileLabel \cup {"done"}
<1>1. Tables /\ Labelled(c)
  BY Zenon DEF LabelInv
<1>2. call[c].tool \in FileTool
  <2>1. pc[c] \in FileLabel => call[c].tool \in FileTool
    BY <1>1, Zenon DEF Labelled
  <2>2. \/ call[c].tool \in {"read_file", "write_file", "edit", "apply_patch"}
        \/ pc[c] \in {"open", "fill", "next section"}
    BY DEF FileStep, ReadFile, WriteFile, Edit, Patch, Open, Fill, CannotOpen, At
  <2> QED BY <2>1, <2>2, Zenon DEF FileTool, FileLabel
<1>3. \/ \E x : Goto(c, "open", x) \/ Goto(c, "fill", x) \/ Goto(c, "next section", x)
      \/ \E r : Answer(c, r)
  <2>1. CASE ReadFile(c)
    BY <2>1, Zenon DEF ReadFile
  <2>2. CASE WriteFile(c)
    BY <2>2, Zenon DEF WriteFile
  <2>3. CASE Edit(c)
    BY <2>3, Zenon DEF Edit
  <2>4. CASE Patch(c)
    BY <2>4, Zenon DEF Patch
  <2>5. CASE Open(c)
    BY <2>5, Zenon DEF Open
  <2>6. CASE Fill(c)
    BY <2>6, Zenon DEF Fill
  <2>7. CASE CannotOpen(c)
    BY <2>7, Zenon DEF CannotOpen
  <2> QED BY <2>1, <2>2, <2>3, <2>4, <2>5, <2>6, <2>7, Zenon DEF FileStep
<1>4. OnlyCall(c) /\ pc'[c] \in FileLabel \cup {"done"}
  <2>1. ASSUME NEW x, Goto(c, "open", x) \/ Goto(c, "fill", x) \/ Goto(c, "next section", x)
        PROVE  OnlyCall(c) /\ pc'[c] \in FileLabel \cup {"done"}
    BY <1>1, <2>1, GotoStep DEF FileLabel
  <2>2. ASSUME NEW r, Answer(c, r)
        PROVE  OnlyCall(c) /\ pc'[c] \in FileLabel \cup {"done"}
    BY <1>1, <2>2, AnswerStep
  <2> QED BY <1>3, <2>1, <2>2, Zenon
<1>5. Labelled(c)'
  BY <1>2, <1>4 DEF Labelled, OnlyCall, FileLabel, MailLabel
<1> QED BY <1>2, <1>4, <1>5, LabelStep

\* And those of the todo list.
LEMMA TodoShape ==
  ASSUME LabelInv, NEW c \in DOMAIN call, TodoStep(c)
  PROVE  /\ OnlyCall(c) /\ call[c].tool \in TodoTool /\ LabelInv'
         /\ pc'[c] \in {"snapshot", "done"}
<1>1. Tables /\ Labelled(c)
  BY Zenon DEF LabelInv
<1>2. call[c].tool \in TodoTool
  <2>1. pc[c] = "snapshot" => call[c].tool \in TodoTool
    BY <1>1, Zenon DEF Labelled
  <2>2. \/ call[c].tool \in {"todo_write", "todo_update", "todo_list"}
        \/ pc[c] = "snapshot"
    BY DEF TodoStep, TodoWrite, TodoUpdate, TodoList, TodoReply, At
  <2> QED BY <2>1, <2>2, Zenon DEF TodoTool
<1>3. (\E x : Goto(c, "snapshot", x)) \/ (\E r : Answer(c, r))
  BY Zenon DEF TodoStep, TodoWrite, TodoUpdate, TodoList, TodoReply
<1>4. OnlyCall(c) /\ pc'[c] \in {"snapshot", "done"}
  BY <1>1, <1>3, GotoStep, AnswerStep
<1>5. Labelled(c)'
  BY <1>2, <1>4 DEF Labelled, OnlyCall, FileLabel, MailLabel
<1> QED BY <1>2, <1>4, <1>5, LabelStep

\* And those of the mailbox.
LEMMA MailShape ==
  ASSUME LabelInv, NEW c \in DOMAIN call, MailStep(c)
  PROVE  OnlyCall(c) /\ call[c].tool \in MailTool /\ LabelInv'
<1>1. Tables /\ Labelled(c)
  BY Zenon DEF LabelInv
<1>2. call[c].tool \in MailTool
  BY <1>1 DEF MailStep, SendCreate, SendWrite, ScanOpen, ScanEntry, ScanUnlink, ScanEnd,
              At, Labelled, MailTool, ScanTool
<1>3. CASE SendCreate(c)
  <2>1. call[c].tool = "send_message"
    BY <1>3 DEF SendCreate, At
  <2>2. (\E x : Goto(c, "write message", x)) \/ (\E r : Answer(c, r))
    BY <1>3, Zenon DEF SendCreate
  <2>3. OnlyCall(c) /\ pc'[c] \in {"write message", "done"}
    BY <1>1, <2>2, GotoStep, AnswerStep
  <2>4. Labelled(c)'
    BY <2>1, <2>3 DEF Labelled, OnlyCall, FileLabel, MailLabel
  <2> QED BY <1>2, <2>3, <2>4, LabelStep
<1>4. CASE SendWrite(c) \/ ScanEnd(c)
  <2>1. \E r : Answer(c, r)
    BY <1>4, Zenon DEF SendWrite, ScanEnd
  <2>2. OnlyCall(c) /\ pc'[c] = "done"
    BY <1>1, <2>1, AnswerStep
  <2>3. Labelled(c)'
    BY <2>2 DEF Labelled, FileLabel, MailLabel
  <2> QED BY <1>2, <2>2, <2>3, LabelStep
<1>5. CASE ScanOpen(c) \/ ScanUnlink(c)
  <2>1. (\E x : Goto(c, "scan", x)) /\ call[c].tool \in ScanTool
    <3>1. CASE ScanOpen(c)
      BY <3>1 DEF ScanOpen, At, ScanTool
    <3>2. CASE ScanUnlink(c)
      BY <1>1, <3>2 DEF ScanUnlink, Labelled, ScanTool
    <3> QED BY <1>5, <3>1, <3>2
  <2>2. OnlyCall(c) /\ pc'[c] = "scan"
    BY <1>1, <2>1, GotoStep
  <2>3. Labelled(c)'
    BY <2>1, <2>2 DEF Labelled, OnlyCall, FileLabel, MailLabel
  <2> QED BY <1>2, <2>2, <2>3, LabelStep
<1>6. CASE ScanEntry(c)
  <2>1. call[c].tool \in ScanTool
    BY <1>1, <1>6 DEF ScanEntry, Labelled
  <2>2. (\E x : Goto(c, "scan", x))
          \/ (call[c].tool = "clear_mailbox" /\ \E x : Goto(c, "unlink", x))
    BY <1>6 DEF ScanEntry
  <2>3. OnlyCall(c) /\ (pc'[c] = "scan" \/ (call[c].tool = "clear_mailbox" /\ pc'[c] = "unlink"))
    BY <1>1, <2>2, GotoStep
  <2>4. Labelled(c)'
    BY <2>1, <2>3 DEF Labelled, OnlyCall, FileLabel, MailLabel
  <2> QED BY <1>2, <2>3, <2>4, LabelStep
<1> QED BY <1>3, <1>4, <1>5, <1>6, Zenon DEF MailStep
-----------------------------------------------------------------------------
\* What is said of a message does not change with the calls.
LEMMA SameMessages ==
  ASSUME call' = call
  PROVE  \A id : To(id)' = To(id) /\ Exposed(id)' = Exposed(id)
BY Zenon DEF To, Exposed

\* MailInv, part by part, as it concerns a message and a call.
Addressed(id) ==
  /\ box[id] \in [to : {To(id)}, body : {box[id].body}, whole : BOOLEAN]
  /\ id \in DOMAIN InitBox => box[id].whole /\ box[id].body = InitBox[id].body
  /\ id \notin DOMAIN InitBox =>
       /\ id \in DOMAIN call /\ call[id].tool = "send_message" /\ pc[id] # "start"
       /\ Done(id) => box[id].whole
Removing(c) ==
  /\ pc[c] \in {"scan", "unlink"} =>
       loc[c] \in [must : {loc[c].must}, met : {loc[c].met}, hit : {loc[c].hit},
                   at : {loc[c].at}]
  /\ pc[c] = "unlink" => call[c].to # "none" \/ To(loc[c].at) \in {"agent", "all"}

LEMMA MailParts ==
  MailInv <=> /\ \A id \in DOMAIN box : Addressed(id)
              /\ \A id \in DOMAIN InitBox : id \in DOMAIN box \/ Exposed(id)
              /\ \A c \in DOMAIN call : Sent(c) => c \in DOMAIN box \/ Exposed(c)
              /\ \A c \in DOMAIN call : Removing(c)
BY Zenon DEF MailInv, Addressed, Removing

\* A step of a call that leaves the mailbox alone and sends nothing.
LEMMA BoxUntouched ==
  ASSUME LabelInv, MailInv, NEW c \in DOMAIN call, OnlyCall(c), box' = box,
         c \notin DOMAIN box \/ c \in DOMAIN InitBox,
         ~Sent(c)', Removing(c)'
  PROVE  MailInv'
<1>1. call' = call /\ \A d \in DOMAIN call : d # c => pc'[d] = pc[d] /\ loc'[d] = loc[d]
                                                       /\ reply'[d] = reply[d]
  BY Zenon DEF OnlyCall
<1>2. \A id : To(id)' = To(id) /\ Exposed(id)' = Exposed(id)
  BY <1>1, SameMessages
<1>3. ASSUME NEW id \in DOMAIN box PROVE Addressed(id)'
  <2>1. Addressed(id)
    BY MailParts
  <2>2. id \notin DOMAIN InitBox => id # c /\ pc'[id] = pc[id]
    BY <1>1, <2>1 DEF Addressed
  <2> QED BY <1>1, <1>2, <2>1, <2>2, Zenon DEF Addressed, Done
<1>4. ASSUME NEW d \in DOMAIN call, Sent(d)' PROVE d \in DOMAIN box \/ Exposed(d)
  <2>1. d # c
    BY <1>4
  <2>2. Sent(d)
    BY <1>1, <1>4, <2>1, Zenon DEF Sent, Done
  <2> QED BY <2>2, MailParts
<1>5. ASSUME NEW d \in DOMAIN call, d # c PROVE Removing(d)'
  <2>1. Removing(d)
    BY MailParts
  <2> QED BY <1>1, <1>2, <1>5, <2>1, Zenon DEF Removing
<1>6. \A id \in DOMAIN InitBox : id \in DOMAIN box \/ Exposed(id)
  BY MailParts
<1> QED BY <1>1, <1>2, <1>3, <1>4, <1>5, <1>6, MailParts, Zenon
        DEF MailInv, Addressed, Removing

\* The file of a message comes with the call that sends it.
LEMMA NotAMessage ==
  ASSUME LabelInv, MailInv, NEW c \in DOMAIN call,
         call[c].tool # "send_message" \/ pc[c] = "start"
  PROVE  c \notin DOMAIN box /\ c \notin DOMAIN InitBox
<1>1. c \notin DOMAIN InitBox
  BY BatchesAssumption DEF LabelInv
<1>2. c \in DOMAIN box => Addressed(c)
  BY MailParts
<1> QED BY <1>1, <1>2, Zenon DEF Addressed

\* A message that is written to its end keeps the rest.
LEMMA Written ==
  ASSUME NEW m, NEW t, NEW b, m \in [to : {t}, body : {b}, whole : BOOLEAN]
  PROVE  /\ [m EXCEPT !.whole = TRUE] \in [to : {t}, body : {b}, whole : BOOLEAN]
         /\ [m EXCEPT !.whole = TRUE].whole
OBVIOUS

LEMMA SendKeepsMail ==
  ASSUME LabelInv, MailInv, NEW c \in DOMAIN call, SendCreate(c) \/ SendWrite(c)
  PROVE  MailInv'
<1>1. Tables /\ Labelled(c)
  BY Zenon DEF LabelInv
<1>2. /\ \A id \in DOMAIN box : Addressed(id)
      /\ \A id \in DOMAIN InitBox : id \in DOMAIN box \/ Exposed(id)
      /\ \A d \in DOMAIN call : Sent(d) => d \in DOMAIN box \/ Exposed(d)
      /\ \A d \in DOMAIN call : Removing(d)
  BY MailParts
<1>3. c \notin DOMAIN InitBox
  BY BatchesAssumption DEF LabelInv
<1>4. ASSUME OnlyCall(c), DOMAIN box \subseteq DOMAIN box',
             \A id \in DOMAIN box' : id # c => id \in DOMAIN box /\ box'[id] = box[id],
             c \in DOMAIN box' => Addressed(c)',
             Sent(c)' => c \in DOMAIN box' \/ Exposed(c),
             pc'[c] \notin {"scan", "unlink"}
      PROVE  MailInv'
  <2>1. call' = call /\ \A d \in DOMAIN call : d # c => pc'[d] = pc[d] /\ loc'[d] = loc[d]
                                                         /\ reply'[d] = reply[d]
    BY <1>4, Zenon DEF OnlyCall
  <2>2. \A id : To(id)' = To(id) /\ Exposed(id)' = Exposed(id)
    BY <2>1, SameMessages
  <2>3. ASSUME NEW id \in DOMAIN box', id # c PROVE Addressed(id)'
    <3>1. Addressed(id) /\ box'[id] = box[id]
      BY <1>2, <1>4, <2>3
    <3> QED BY <2>1, <2>2, <2>3, <3>1, Zenon DEF Addressed, Done
  <2>4. ASSUME NEW d \in DOMAIN call, d # c PROVE Removing(d)' /\ (Sent(d)' => Sent(d))
    <3>1. Removing(d)
      BY <1>2
    <3>2. Removing(d)'
      BY <2>1, <2>2, <2>4, <3>1, Zenon DEF Removing
    <3>3. Sent(d)' => Sent(d)
      BY <2>1, <2>4, Zenon DEF Sent, Done
    <3> QED BY <3>2, <3>3
  <2>5. Removing(c)'
    BY <1>4 DEF Removing
  <2>6. \A id \in DOMAIN InitBox : id \in DOMAIN box' \/ Exposed(id)
    BY <1>2, <1>4
  <2>7. \A d \in DOMAIN call : Sent(d)' => d \in DOMAIN box' \/ Exposed(d)
    BY <1>2, <1>4, <2>4
  <2> QED BY <1>4, <2>1, <2>2, <2>3, <2>4, <2>5, <2>6, <2>7, Zenon
          DEF MailInv, Addressed, Removing
<1>5. CASE SendCreate(c) /\ Answer(c, Refused) /\ box' = box
  <2>1. call[c].tool = "send_message" /\ pc[c] = "start" /\ Answer(c, Refused) /\ box' = box
    BY <1>5, Zenon DEF SendCreate, At
  <2>2. OnlyCall(c) /\ pc'[c] = "done" /\ reply'[c] = Refused
    BY <1>1, <2>1, AnswerStep
  <2>3. ~Sent(c)'
    BY <2>2 DEF Sent, Refused, NoReply
  <2>4. Removing(c)'
    BY <2>2 DEF Removing
  <2>5. c \notin DOMAIN box
    BY <2>1, NotAMessage
  <2> QED BY <2>1, <2>2, <2>3, <2>4, <2>5, BoxUntouched
<1>6. CASE SendCreate(c) /\ ~(Answer(c, Refused) /\ box' = box)
  <2> DEFINE m == [to |-> call[c].to, body |-> call[c].body, whole |-> FALSE]
  <2>1. call[c].tool = "send_message" /\ Goto(c, "write message", <<>>) /\ box' = With(box, c, m)
    BY <1>6, Zenon DEF SendCreate, At
  <2>2. OnlyCall(c) /\ pc'[c] = "write message"
    BY <1>1, <2>1, GotoStep
  <2>3. /\ DOMAIN box' = DOMAIN box \cup {c} /\ box'[c] = m
        /\ \A id \in DOMAIN box' : id # c => id \in DOMAIN box /\ box'[id] = box[id]
    BY <2>1 DEF With
  <2>4. Addressed(c)'
    <3>1. To(c)' = m.to /\ m \in [to : {m.to}, body : {m.body}, whole : BOOLEAN]
      BY <1>3, <2>2 DEF To, OnlyCall
    <3>2. c \in DOMAIN call' /\ call'[c].tool = "send_message" /\ ~Done(c)' /\ pc'[c] # "start"
      BY <2>1, <2>2 DEF OnlyCall, Done
    <3> QED BY <1>3, <2>3, <3>1, <3>2, Zenon DEF Addressed
  <2>5. pc'[c] \notin {"scan", "unlink"}
    BY <2>2
  <2> QED BY <1>4, <2>2, <2>3, <2>4, <2>5
<1>7. CASE SendWrite(c)
  <2>1. /\ pc[c] = "write message" /\ Answer(c, Said(<<c>>))
        /\ box' = IF c \in DOMAIN box THEN [box EXCEPT ![c].whole = TRUE] ELSE box
    BY <1>7, Zenon DEF SendWrite
  <2>2. OnlyCall(c) /\ pc'[c] = "done"
    BY <1>1, <2>1, AnswerStep
  <2>3. call[c].tool = "send_message"
    BY <1>1, <2>1 DEF Labelled
  <2>4. DOMAIN box' = DOMAIN box /\ \A id \in DOMAIN box : id # c => box'[id] = box[id]
    BY <2>1
  <2>5. c \in DOMAIN box' => Addressed(c)'
    <3> SUFFICES ASSUME c \in DOMAIN box PROVE Addressed(c)'
      BY <2>4
    <3>1. box[c] \in [to : {To(c)}, body : {box[c].body}, whole : BOOLEAN]
      BY <1>2, Zenon DEF Addressed
    <3>2. box'[c] = [box[c] EXCEPT !.whole = TRUE]
      BY <2>1
    <3>3. box'[c] \in [to : {To(c)}, body : {box'[c].body}, whole : BOOLEAN] /\ box'[c].whole
      <4>1. box'[c] \in [to : {To(c)}, body : {box[c].body}, whole : BOOLEAN] /\ box'[c].whole
        BY <3>1, <3>2, Written
      <4> QED BY <4>1
    <3>4. To(c)' = To(c)
      BY <2>2, SameMessages DEF OnlyCall
    <3>5. c \in DOMAIN call' /\ call'[c].tool = "send_message" /\ pc'[c] # "start"
      BY <2>2, <2>3 DEF OnlyCall
    <3> QED BY <1>3, <3>3, <3>4, <3>5, Zenon DEF Addressed
  <2>6. Sent(c)' => c \in DOMAIN box' \/ Exposed(c)
    BY <1>2, <2>1, <2>3, <2>4, Zenon DEF Sent
  <2>7. pc'[c] \notin {"scan", "unlink"}
    BY <2>2
  <2> QED BY <1>4, <2>2, <2>4, <2>5, <2>6, <2>7
<1> QED BY <1>5, <1>6, <1>7

LEMMA ScanKeepsMail ==
  ASSUME LabelInv, MailInv, NEW c \in DOMAIN call,
         ScanOpen(c) \/ ScanEntry(c) \/ ScanUnlink(c) \/ ScanEnd(c)
  PROVE  MailInv'
<1>1. Tables /\ Labelled(c)
  BY Zenon DEF LabelInv
<1>2. /\ \A id \in DOMAIN box : Addressed(id)
      /\ \A id \in DOMAIN InitBox : id \in DOMAIN box \/ Exposed(id)
      /\ \A d \in DOMAIN call : Sent(d) => d \in DOMAIN box \/ Exposed(d)
      /\ \A d \in DOMAIN call : Removing(d)
  BY MailParts
<1>3. call[c].tool \in ScanTool /\ call[c].tool # "send_message"
  BY <1>1 DEF ScanOpen, ScanEntry, ScanUnlink, ScanEnd, At, Labelled, ScanTool
<1>4. c \notin DOMAIN box
  BY <1>3, NotAMessage
<1>5. ASSUME OnlyCall(c) PROVE ~Sent(c)'
  BY <1>3, <1>5 DEF Sent, OnlyCall
<1>6. CASE ScanOpen(c)
  <2> DEFINE l == [must |-> DOMAIN box, met |-> {}, hit |-> {}, at |-> c]
  <2>1. Goto(c, "scan", l) /\ box' = box
    BY <1>6, Zenon DEF ScanOpen
  <2>2. OnlyCall(c) /\ pc'[c] = "scan" /\ loc'[c] = l
    BY <1>1, <2>1, GotoStep
  <2>3. Removing(c)'
    BY <2>2 DEF Removing
  <2> QED BY <1>4, <1>5, <2>1, <2>2, <2>3, BoxUntouched
<1>7. CASE ScanEnd(c)
  <2>1. Answer(c, Said(loc[c].hit)) /\ box' = box
    BY <1>7, Zenon DEF ScanEnd
  <2>2. OnlyCall(c) /\ pc'[c] = "done"
    BY <1>1, <2>1, AnswerStep
  <2>3. Removing(c)'
    BY <2>2 DEF Removing
  <2> QED BY <1>4, <1>5, <2>1, <2>2, <2>3, BoxUntouched
<1>8. CASE ScanEntry(c)
  <2>1. pc[c] = "scan" /\ box' = box
    BY <1>8, Zenon DEF ScanEntry
  <2>2. PICK id \in DOMAIN box \ loc[c].met, r \in Recipients(c), hits \in BOOLEAN :
           /\ hits <=> Parses(box[id]) /\ Matches(box[id], r)
           /\ \E x : /\ x = [loc[c] EXCEPT !.met = @ \cup {id}, !.at = id,
                                          !.hit = IF hits THEN @ \cup {id} ELSE @]
                    /\ \/ hits /\ call[c].tool = "clear_mailbox" /\ Goto(c, "unlink", x)
                       \/ Goto(c, "scan", x)
    BY <1>8 DEF ScanEntry
  <2> DEFINE x == [loc[c] EXCEPT !.met = @ \cup {id}, !.at = id,
                                 !.hit = IF hits THEN @ \cup {id} ELSE @]
  <2>3. loc[c] \in [must : {loc[c].must}, met : {loc[c].met}, hit : {loc[c].hit},
                    at : {loc[c].at}]
    BY <1>2, <2>1 DEF Removing
  <2>4. x.at = id /\ x \in [must : {x.must}, met : {x.met}, hit : {x.hit}, at : {x.at}]
    <3>1. x.at = id
      BY <2>3
    <3>2. x \in [must : {loc[c].must}, met : {loc[c].met \cup {id}},
                 hit : {loc[c].hit, loc[c].hit \cup {id}}, at : {id}]
      BY <2>3
    <3> QED BY <3>1, <3>2
  <2>5. OnlyCall(c) /\ loc'[c] = x /\ (pc'[c] = "scan" \/ (hits /\ pc'[c] = "unlink"))
    BY <1>1, <2>2, GotoStep
  <2>6. hits => call[c].to # "none" \/ To(id) \in {"agent", "all"}
    <3>1. To(id) = box[id].to
      <4>1. box[id] \in [to : {To(id)}, body : {box[id].body}, whole : BOOLEAN]
        BY <1>2, Zenon DEF Addressed
      <4> QED BY <4>1
    <3> QED BY <2>2, <3>1 DEF Recipients, Matches
  <2>7. To(id)' = To(id) /\ call' = call
    BY <2>5, SameMessages DEF OnlyCall
  <2>8. Removing(c)'
    BY <2>4, <2>5, <2>6, <2>7, Zenon DEF Removing
  <2> QED BY <1>4, <1>5, <2>1, <2>5, <2>8, BoxUntouched
<1>9. CASE ScanUnlink(c)
  <2>1. pc[c] = "unlink" /\ box' = Without(box, loc[c].at) /\ Goto(c, "scan", loc[c])
    BY <1>9, Zenon DEF ScanUnlink
  <2>2. OnlyCall(c) /\ pc'[c] = "scan" /\ loc'[c] = loc[c]
    BY <1>1, <2>1, GotoStep
  <2>3. call' = call /\ \A d \in DOMAIN call : d # c => pc'[d] = pc[d] /\ loc'[d] = loc[d]
                                                         /\ reply'[d] = reply[d]
    BY <2>2, Zenon DEF OnlyCall
  <2>4. \A id : To(id)' = To(id) /\ Exposed(id)' = Exposed(id)
    BY <2>3, SameMessages
  <2>5. DOMAIN box' = DOMAIN box \ {loc[c].at} /\ \A id \in DOMAIN box' : box'[id] = box[id]
    BY <2>1 DEF Without
  <2>6. Exposed(loc[c].at)
    <3>1. call[c].tool = "clear_mailbox"
      BY <1>1, <2>1 DEF Labelled
    <3>2. call[c].to # "none" \/ To(loc[c].at) \in {"agent", "all"}
      BY <1>2, <2>1, Zenon DEF Removing
    <3> QED BY <3>1, <3>2, Zenon DEF Exposed
  <2>7. \A id \in DOMAIN box : id \in DOMAIN box' \/ Exposed(id)
    BY <2>5, <2>6
  <2>8. ASSUME NEW id \in DOMAIN box' PROVE Addressed(id)'
    <3>1. Addressed(id) /\ id # c /\ box'[id] = box[id]
      BY <1>2, <1>4, <2>5
    <3> QED BY <2>3, <2>4, <3>1, Zenon DEF Addressed, Done
  <2>9. ASSUME NEW d \in DOMAIN call PROVE Removing(d)' /\ (Sent(d)' => Sent(d))
    <3>1. CASE d = c
      <4>1. loc[c] \in [must : {loc[c].must}, met : {loc[c].met}, hit : {loc[c].hit},
                        at : {loc[c].at}]
        BY <1>2, <2>1 DEF Removing
      <4>2. Removing(c)'
        BY <2>2, <4>1 DEF Removing
      <4> QED BY <1>5, <2>2, <3>1, <4>2
    <3>2. CASE d # c
      <4>1. Removing(d)
        BY <1>2
      <4>2. Removing(d)'
        BY <2>3, <2>4, <3>2, <4>1, Zenon DEF Removing
      <4>3. Sent(d)' => Sent(d)
        BY <2>3, <3>2, Zenon DEF Sent, Done
      <4> QED BY <4>2, <4>3
    <3> QED BY <3>1, <3>2
  <2> QED BY <1>2, <2>3, <2>4, <2>7, <2>8, <2>9, Zenon DEF MailInv, Addressed, Removing
<1> QED BY <1>6, <1>7, <1>8, <1>9

\* The handlers of the files and of the todo list leave the mailbox alone.
LEMMA RestKeepsMail ==
  ASSUME LabelInv, MailInv, NEW c \in DOMAIN call, FileStep(c) \/ TodoStep(c), box' = box
  PROVE  MailInv'
<1>1. /\ OnlyCall(c) /\ call[c].tool \in FileTool \cup TodoTool
      /\ pc'[c] \in FileLabel \cup {"snapshot", "done"}
  BY FileShape, TodoShape
<1>2. call[c].tool # "send_message" /\ pc'[c] \notin {"scan", "unlink"}
  BY <1>1 DEF FileTool, TodoTool, FileLabel
<1>3. ~Sent(c)' /\ Removing(c)'
  BY <1>1, <1>2 DEF Sent, Removing, OnlyCall
<1> QED BY <1>1, <1>2, <1>3, BoxUntouched, NotAMessage

LEMMA MailIsSafe ==
  ASSUME LabelInv, MailInv, NEW c \in DOMAIN call, OnFiles(c) \/ OnTodos(c) \/ OnMail(c)
  PROVE  MailInv'
<1>1. CASE OnFiles(c) \/ OnTodos(c)
  BY <1>1, RestKeepsMail DEF OnFiles, OnTodos
<1>2. CASE OnMail(c)
  BY <1>2, SendKeepsMail, ScanKeepsMail DEF OnMail, MailStep
<1> QED BY <1>1, <1>2
-----------------------------------------------------------------------------
\* CheckInv for one call.
Checked(c) ==
  Checks(c) =>
    /\ pc[c] = "scan" =>
         /\ IsFiniteSet(loc[c].hit) /\ Cardinality(loc[c].hit) \in 0..MaxChecked
         /\ \A id \in DOMAIN InitBox \cap DOMAIN box : id \in loc[c].must
         /\ \A id \in loc[c].met : ForMe(id) => id \in loc[c].hit
    /\ Done(c) =>
         \/ Cardinality(reply[c].out) = MaxChecked
         \/ \A id \in DOMAIN box : ForMe(id) => id \in reply[c].out

\* What another call has read stays good, as no message of before comes back.
LEMMA OthersChecked ==
  ASSUME CheckInv, NEW c \in DOMAIN call, OnlyCall(c),
         DOMAIN InitBox \cap DOMAIN box' \subseteq DOMAIN box,
         Checks(c) => Checked(c)'
  PROVE  CheckInv'
<1>1. call' = call
  BY Zenon DEF OnlyCall
<1>2. ASSUME NEW d \in DOMAIN call PROVE Checked(d)'
  <2>1. Checks(d)' <=> Checks(d)
    BY <1>1, Zenon DEF Checks
  <2>2. CASE d = c
    BY <2>1, <2>2, Zenon DEF Checked
  <2>3. CASE d # c
    <3>1. pc'[d] = pc[d] /\ loc'[d] = loc[d] /\ reply'[d] = reply[d]
      BY <2>3, Zenon DEF OnlyCall
    <3>2. Checked(d)
      BY Zenon DEF CheckInv, Checked
    <3>3. \A id \in DOMAIN box' : ForMe(id) => id \in DOMAIN InitBox \cap DOMAIN box
      BY DEF ForMe
    <3> QED BY <2>1, <3>1, <3>2, <3>3 DEF Checked, Done
  <2> QED BY <2>2, <2>3
<1> QED BY <1>1, <1>2, Zenon DEF CheckInv, Checked

LEMMA CheckIsThorough ==
  ASSUME LabelInv, MailInv, CheckInv, NEW c \in DOMAIN call,
         OnFiles(c) \/ OnTodos(c) \/ OnMail(c)
  PROVE  CheckInv'
<1>1. Tables /\ Labelled(c) /\ Checked(c)
  BY Zenon DEF LabelInv, CheckInv, Checked
<1>2. CASE OnFiles(c) \/ OnTodos(c)
  <2>1. OnlyCall(c) /\ call[c].tool \in FileTool \cup TodoTool /\ box' = box
    BY <1>2, FileShape, TodoShape DEF OnFiles, OnTodos
  <2>2. ~Checks(c)
    BY <2>1 DEF Checks, FileTool, TodoTool
  <2> QED BY <2>1, <2>2, OthersChecked
<1>3. CASE SendCreate(c) \/ SendWrite(c) \/ ScanUnlink(c)
  <2>1. OnlyCall(c)
    BY <1>3, MailShape DEF MailStep
  <2>2. ~Checks(c)
    BY <1>1, <1>3 DEF SendCreate, SendWrite, ScanUnlink, At, Labelled, Checks
  <2>3. c \notin DOMAIN InitBox
    BY BatchesAssumption DEF LabelInv
  <2>4. DOMAIN box' \subseteq DOMAIN box \cup {c}
    BY <1>3 DEF SendCreate, SendWrite, ScanUnlink, With, Without
  <2> QED BY <2>1, <2>2, <2>3, <2>4, OthersChecked
<1>4. CASE ScanOpen(c)
  <2> DEFINE l == [must |-> DOMAIN box, met |-> {}, hit |-> {}, at |-> c]
  <2>1. Goto(c, "scan", l) /\ box' = box
    BY <1>4, Zenon DEF ScanOpen
  <2>2. OnlyCall(c) /\ pc'[c] = "scan" /\ loc'[c] = l
    BY <1>1, <2>1, GotoStep
  <2>3. IsFiniteSet({}) /\ Cardinality({}) \in 0..MaxChecked
    BY FS_EmptySet, InitAssumption
  <2>4. Checked(c)'
    BY <2>1, <2>2, <2>3 DEF Checked, Done
  <2> QED BY <2>1, <2>2, <2>4, OthersChecked
<1>5. CASE ScanEntry(c)
  <2>1. pc[c] = "scan" /\ ~Full(c) /\ box' = box
    BY <1>5, Zenon DEF ScanEntry
  <2>2. PICK id \in DOMAIN box \ loc[c].met, r \in Recipients(c), hits \in BOOLEAN :
           /\ hits <=> Parses(box[id]) /\ Matches(box[id], r)
           /\ \E x : /\ x = [loc[c] EXCEPT !.met = @ \cup {id}, !.at = id,
                                          !.hit = IF hits THEN @ \cup {id} ELSE @]
                    /\ \/ hits /\ call[c].tool = "clear_mailbox" /\ Goto(c, "unlink", x)
                       \/ Goto(c, "scan", x)
    BY <1>5 DEF ScanEntry
  <2> DEFINE x == [loc[c] EXCEPT !.met = @ \cup {id}, !.at = id,
                                 !.hit = IF hits THEN @ \cup {id} ELSE @]
  <2>3. loc[c] \in [must : {loc[c].must}, met : {loc[c].met}, hit : {loc[c].hit},
                    at : {loc[c].at}]
    BY <2>1, MailParts DEF Removing
  <2>4. /\ x.must = loc[c].must /\ x.met = loc[c].met \cup {id}
        /\ x.hit = IF hits THEN loc[c].hit \cup {id} ELSE loc[c].hit
    BY <2>3
  <2>5. OnlyCall(c) /\ loc'[c] = x
    BY <1>1, <2>2, GotoStep
  <2>6. ASSUME Checks(c) PROVE Checked(c)'
    <3>1. pc'[c] = "scan"
      <4>1. Goto(c, "scan", x)
        BY <2>2, <2>6 DEF Checks
      <4> QED BY <1>1, <4>1, GotoStep
    <3>2. /\ IsFiniteSet(loc[c].hit) /\ Cardinality(loc[c].hit) \in 0..MaxChecked
          /\ \A i \in DOMAIN InitBox \cap DOMAIN box : i \in loc[c].must
          /\ \A i \in loc[c].met : ForMe(i) => i \in loc[c].hit
      BY <1>1, <2>1, <2>6, Zenon DEF Checked
    <3>3. IsFiniteSet(x.hit) /\ Cardinality(x.hit) \in 0..MaxChecked
      <4>1. Cardinality(loc[c].hit) < MaxChecked
        BY <2>1, <2>6, <3>2, InitAssumption DEF Full, Checks
      <4>2. /\ IsFiniteSet(loc[c].hit \cup {id})
            /\ Cardinality(loc[c].hit \cup {id}) \in {Cardinality(loc[c].hit),
                                                    Cardinality(loc[c].hit) + 1}
        BY <3>2, FS_AddElement
      <4> QED BY <2>4, <3>2, <4>1, <4>2, InitAssumption
    <3>4. ForMe(id) => hits
      <4>1. r = "agent"
        BY <2>2, <2>6 DEF Recipients, Checks
      <4>2. Addressed(id)
        BY <2>2, MailParts
      <4>3. ForMe(id) => Parses(box[id]) /\ box[id].to \in {"agent", "all"}
        BY <4>2 DEF Addressed, ForMe, To, Parses
      <4> QED BY <2>2, <4>1, <4>3 DEF Matches
    <3>5. \A i \in x.met : ForMe(i) => i \in x.hit
      BY <2>4, <3>2, <3>4
    <3>6. \A i \in DOMAIN InitBox \cap DOMAIN box' : i \in x.must
      BY <2>1, <2>4, <3>2
    <3> HIDE DEF x
    <3> QED BY <2>5, <3>1, <3>3, <3>5, <3>6 DEF Checked, Done
  <2> QED BY <2>1, <2>5, <2>6, OthersChecked
<1>6. CASE ScanEnd(c)
  <2>1. /\ pc[c] = "scan" /\ Answer(c, Said(loc[c].hit)) /\ box' = box
        /\ Full(c) \/ loc[c].must \cap DOMAIN box \subseteq loc[c].met
    BY <1>6, Zenon DEF ScanEnd
  <2>2. OnlyCall(c) /\ pc'[c] = "done" /\ reply'[c] = Said(loc[c].hit)
    BY <1>1, <2>1, AnswerStep
  <2>3. ASSUME Checks(c) PROVE Checked(c)'
    <3>1. /\ Cardinality(loc[c].hit) \in 0..MaxChecked
          /\ \A id \in DOMAIN InitBox \cap DOMAIN box : id \in loc[c].must
          /\ \A id \in loc[c].met : ForMe(id) => id \in loc[c].hit
      BY <1>1, <2>1, <2>3, Zenon DEF Checked
    <3>2. reply'[c].out = loc[c].hit
      BY <2>2 DEF Said
    <3>3. CASE Full(c)
      <4>1. Cardinality(loc[c].hit) = MaxChecked
        BY <3>1, <3>3, InitAssumption DEF Full
      <4> QED BY <2>2, <3>2, <4>1 DEF Checked
    <3>4. CASE loc[c].must \cap DOMAIN box \subseteq loc[c].met
      <4>1. \A id \in DOMAIN box : ForMe(id) => id \in loc[c].hit
        BY <3>1, <3>4 DEF ForMe
      <4> QED BY <2>1, <2>2, <3>2, <4>1 DEF Checked
    <3> QED BY <2>1, <3>3, <3>4
  <2> QED BY <2>1, <2>2, <2>3, OthersChecked
<1> QED BY <1>2, <1>3, <1>4, <1>5, <1>6 DEF OnMail, MailStep
-----------------------------------------------------------------------------
\* TodoInv for one call.
Kept(c) ==
  call[c].tool = "todo_update" /\ ~Undone(c) =>
    /\ pc[c] = "snapshot" => call[c].index + 1 \in DOMAIN todos /\ Shows(c, todos)
    /\ Done(c) /\ reply[c].ok => Shows(c, reply[c].out)

\* A change of the list that concerns no item another call waits for.
LEMMA OthersKept ==
  ASSUME TodoInv, NEW c \in DOMAIN call, OnlyCall(c), todos' \in Seq(TodoItem),
         \A d \in DOMAIN call \ {c} : \A i :
            call[d].tool = "todo_update" /\ ~Undone(d) /\ i = call[d].index + 1 /\ i \in DOMAIN todos
              => i \in DOMAIN todos' /\ todos'[i] = todos[i],
         Kept(c)'
  PROVE  TodoInv'
<1>1. call' = call
  BY Zenon DEF OnlyCall
<1>2. ASSUME NEW d \in DOMAIN call, d # c PROVE Kept(d)'
  <2>1. pc'[d] = pc[d] /\ loc'[d] = loc[d] /\ reply'[d] = reply[d]
    BY <1>2, Zenon DEF OnlyCall
  <2>2. Kept(d)
    BY Zenon DEF TodoInv, Kept
  <2>3. Undone(d)' <=> Undone(d)
    BY <1>1, Zenon DEF Undone, Others
  <2>4. ASSUME call[d].tool = "todo_update", ~Undone(d), call[d].index + 1 \in DOMAIN todos,
               Shows(d, todos)
        PROVE  call[d].index + 1 \in DOMAIN todos' /\ Shows(d, todos')
    <3>1. call[d].index + 1 \in DOMAIN todos'
          /\ todos'[call[d].index + 1] = todos[call[d].index + 1]
      BY <1>2, <2>4, Zenon
    <3> QED BY <2>4, <3>1, Zenon DEF Shows
  <2>5. Shows(d, todos)' <=> Shows(d, todos')
    BY <1>1, Zenon DEF Shows
  <2>6. Shows(d, reply[d].out)' <=> Shows(d, reply[d].out)
    BY <1>1, <2>1, Zenon DEF Shows
  <2> QED BY <1>1, <2>1, <2>2, <2>3, <2>4, <2>5, <2>6, Zenon DEF Kept, Done
<1> QED BY <1>1, <1>2, Zenon DEF TodoInv, Kept

LEMMA TodosAreSafe ==
  ASSUME LabelInv, TodoInv, NEW c \in DOMAIN call, OnFiles(c) \/ OnTodos(c) \/ OnMail(c)
  PROVE  TodoInv'
<1>1. Tables /\ Labelled(c) /\ Kept(c) /\ todos \in Seq(TodoItem) /\ call \in Batches
  BY Zenon DEF LabelInv, TodoInv, Kept
<1>2. CASE OnFiles(c) \/ OnMail(c)
  <2>1. OnlyCall(c) /\ call[c].tool \in FileTool \cup MailTool /\ todos' = todos
    BY <1>2, FileShape, MailShape DEF OnFiles, OnMail
  <2>2. Kept(c)'
    BY <2>1 DEF Kept, OnlyCall, FileTool, MailTool, ScanTool
  <2> QED BY <1>1, <2>1, <2>2, OthersKept
<1>3. CASE TodoWrite(c)
  <2>1. /\ call[c].tool = "todo_write" /\ Goto(c, "snapshot", <<>>)
        /\ todos' = [i \in DOMAIN call[c].items |-> Item(call[c].items[i])]
    BY <1>3, Zenon DEF TodoWrite, At, todo_replace
  <2>2. OnlyCall(c)
    BY <1>1, <2>1, GotoStep
  <2>3. todos' \in Seq(TodoItem)
    <3>1. call[c].items \in Seq([content : STRING, status : STRING])
      BY <1>1, <2>1, BatchesAssumption
    <3>2. \A j \in [content : STRING, status : STRING] : Item(j) \in TodoItem
      BY DEF Item, TodoItem, valid_status
    <3> DEFINE js == call[c].items
               n == Len(js)
    <3>3. n \in Nat /\ DOMAIN js = 1 .. n
      BY <3>1, LenProperties
    <3>4. \A i \in 1 .. n : Item(js[i]) \in TodoItem
      BY <3>1, <3>2, <3>3, ElementOfSeq
    <3>5. todos' = [i \in 1 .. n |-> Item(js[i])]
      BY <2>1, <3>3
    <3> HIDE DEF n, js
    <3> QED BY <3>3, <3>4, <3>5
  <2>4. \A d \in DOMAIN call \ {c} : Undone(d)
    BY <2>1 DEF Undone, Others
  <2>5. Kept(c)'
    BY <2>1, <2>2 DEF Kept, OnlyCall
  <2> QED BY <2>2, <2>3, <2>4, <2>5, OthersKept
<1>4. CASE TodoUpdate(c)
  <2> DEFINE k == call[c]
             i == k.index + 1
             s == Spelled(k.status)
  <2>1. k.tool = "todo_update"
    BY <1>4, Zenon DEF TodoUpdate, At
  <2>2. k.index \in Int /\ k.status \in STRING /\ k.content \in STRING
    BY <1>1, <2>1, BatchesAssumption
  <2>3. CASE Answer(c, Refused) /\ todos' = todos
    <3>1. OnlyCall(c) /\ pc'[c] = "done" /\ reply'[c] = Refused
      BY <1>1, <2>3, AnswerStep
    <3>2. Kept(c)'
      BY <3>1 DEF Kept, Refused, NoReply
    <3> QED BY <1>1, <2>3, <3>1, <3>2, OthersKept
  <2>4. CASE /\ InRange(k.index) /\ (s = "none" \/ valid_status(s))
             /\ todo_update(k.index, s, k.content) /\ Goto(c, "snapshot", <<>>)
    <3> DEFINE m == [content |-> IF k.content # "none" THEN k.content ELSE todos[i].content,
                     status  |-> IF valid_status(s) THEN s ELSE todos[i].status]
    <3>1. i \in DOMAIN todos
      <4>1. Len(todos) \in Nat /\ DOMAIN todos = 1 .. Len(todos)
        BY <1>1, LenProperties
      <4> QED BY <2>2, <2>4, <4>1 DEF InRange
    <3>2. todos' = [todos EXCEPT ![i] = m]
      BY <2>4, Zenon DEF todo_update
    <3>3. m \in TodoItem
      <4>1. todos[i] \in TodoItem
        BY <1>1, <3>1
      <4>2. m.content \in STRING
        BY <2>2, <4>1 DEF TodoItem
      <4>3. m.status \in {"pending", "in_progress", "completed", "cancelled"}
        BY <4>1 DEF TodoItem, valid_status
      <4> QED BY <4>2, <4>3 DEF TodoItem
    <3>4. todos' \in Seq(TodoItem)
      <4> HIDE DEF m, i
      <4> QED BY <1>1, <3>1, <3>2, <3>3
    <3>5. DOMAIN todos' = DOMAIN todos /\ todos'[i] = m
          /\ \A j \in DOMAIN todos : j # i => todos'[j] = todos[j]
      <4> HIDE DEF m, i
      <4> QED BY <1>1, <3>1, <3>2
    <3>6. OnlyCall(c) /\ pc'[c] = "snapshot"
      BY <1>1, <2>4, GotoStep
    <3>7. Shows(c, todos')
      <4>1. k.status # "none" => s # "none"
        BY DEF Spelled
      <4>2. k.content # "none" => todos'[i].content = k.content
        BY <3>5
      <4>3. k.status # "none" => todos'[i].status = s
        <5>1. ASSUME k.status # "none" PROVE m.status = s
          <6>1. valid_status(s)
            BY <2>4, <4>1, <5>1, Zenon
          <6>2. (IF valid_status(s) THEN s ELSE todos[i].status) = s
            BY <6>1, Zenon
          <6> QED BY <6>2
        <5> QED BY <3>5, <5>1, Zenon
      <4> QED BY <4>2, <4>3, Zenon DEF Shows
    <3>8. Kept(c)'
      BY <3>1, <3>5, <3>6, <3>7 DEF Kept, Shows, OnlyCall, Done
    <3>9. ASSUME NEW d \in DOMAIN call \ {c}, call[d].tool = "todo_update", ~Undone(d)
          PROVE  call[d].index + 1 # i
      <4>1. call[d].index \in Int
        BY <1>1, <3>9, BatchesAssumption
      <4>2. call[d].index # k.index
        BY <2>1, <3>9 DEF Undone, Others
      <4> QED BY <2>2, <4>1, <4>2
    <3> QED BY <3>4, <3>5, <3>6, <3>8, <3>9, OthersKept
  <2> QED BY <1>4, <2>3, <2>4 DEF TodoUpdate
<1>5. CASE TodoList(c)
  <2>1. call[c].tool = "todo_list" /\ Goto(c, "snapshot", <<>>) /\ todos' = todos
    BY <1>5, Zenon DEF TodoList, At
  <2>2. OnlyCall(c)
    BY <1>1, <2>1, GotoStep
  <2>3. Kept(c)'
    BY <2>1, <2>2 DEF Kept, OnlyCall
  <2> QED BY <1>1, <2>1, <2>2, <2>3, OthersKept
<1>6. CASE TodoReply(c)
  <2>1. pc[c] = "snapshot" /\ Answer(c, Said(todos)) /\ todos' = todos
    BY <1>6, Zenon DEF TodoReply
  <2>2. OnlyCall(c) /\ pc'[c] = "done" /\ reply'[c] = Said(todos)
    BY <1>1, <2>1, AnswerStep
  <2>3. reply'[c].out = todos
    BY <2>2 DEF Said
  <2>4. Kept(c)'
    <3>1. call' = call /\ (Undone(c)' <=> Undone(c))
      BY <2>2, Zenon DEF OnlyCall, Undone, Others
    <3>2. call[c].tool = "todo_update" /\ ~Undone(c) => Shows(c, todos)
      BY <1>1, <2>1, Zenon DEF Kept
    <3>3. Shows(c, reply[c].out)' <=> Shows(c, todos)
      BY <2>3, <3>1, Zenon DEF Shows
    <3> QED BY <2>2, <3>1, <3>2, <3>3 DEF Kept
  <2> QED BY <1>1, <2>1, <2>2, <2>4, OthersKept
<1> QED BY <1>2, <1>3, <1>4, <1>5, <1>6 DEF OnTodos, TodoStep
-----------------------------------------------------------------------------
\* Files: where the calls that change them are aimed, and what a lone call does.
LEMMA LeastOf ==
  ASSUME NEW T, T \subseteq Nat, T # {}
  PROVE  Min2(T) \in T
<1>1. PICK n \in T : \A y \in T : <<y, n>> \notin OpToRel(<, Nat)
  <2> DEFINE R == OpToRel(<, Nat)
  <2>1. IsWellFoundedOn(R, Nat)
    BY NatLessThanWellFounded
  <2> HIDE DEF R
  <2>2. \E n \in T : \A y \in T : <<y, n>> \notin R
    BY <2>1, WFMin
  <2> QED BY <2>2 DEF R
<1>2. n \in Nat /\ \A m \in T : m \in Nat /\ ~ (m < n)
  BY <1>1 DEF OpToRel
<1>3. \A m \in T : n <= m
  BY <1>2
<1> QED BY <1>1, <1>3 DEF Min2

\* Where the section of a patch that a call goes on with can be, and the file it is about.
LEMMA SectionPath ==
  ASSUME NEW k, k.tool = "apply_patch", k.patch \in Seq({k.patch[i] : i \in DOMAIN k.patch}),
         NEW i \in Nat \ {0}, NEW s, s = Section(k.patch, i, k.path)
  PROVE  /\ s.kind \in {"none", "bad", "del", "add", "update"} /\ s.next \in Nat \ {0}
         /\ s.kind = "bad" => ~s.ok
         /\ s.kind \in {"del", "add", "update"} => s.path \in PathsOf(k)
<1> DEFINE patch == k.patch
           headers == {j \in i .. Len(patch) : Kind(patch[j]) = "---"}
           h == Min2(headers)
           e == Min2({j \in headers : j > h} \cup {Len(patch) + 1})
           read == Hunks(patch, h + 2, e - 1)
<1>1. Len(patch) \in Nat /\ DOMAIN patch = 1 .. Len(patch)
  BY LenProperties
<1>0. headers \subseteq Nat \ {0}
  BY <1>1
<1>2. headers # {} => h \in headers
  <2> HIDE DEF headers
  <2>1. headers \subseteq Nat
    BY <1>0
  <2> QED BY <2>1, LeastOf
<1>3. e \in Nat \ {0}
  <2> DEFINE T == {j \in headers : j > h} \cup {Len(patch) + 1}
  <2>1. T \subseteq Nat \ {0} /\ T # {}
    <3> HIDE DEF headers, h
    <3>1. \A x \in T : x \in headers \/ x = Len(patch) + 1
      OBVIOUS
    <3>2. Len(patch) + 1 \in T
      OBVIOUS
    <3> HIDE DEF T
    <3>3. Len(patch) + 1 \in Nat \ {0}
      BY <1>1
    <3> HIDE DEF patch
    <3> QED BY <1>0, <3>1, <3>2, <3>3, Zenon
  <2> HIDE DEF T
  <2>2. Min2(T) \in T
    BY <2>1, LeastOf
  <2> QED BY <2>1, <2>2 DEF T
<1>4. s = IF headers = {} THEN [kind |-> "none", ok |-> TRUE, next |-> i, hunks |-> <<>>, path |-> "none"]
          ELSE IF ~(h < Len(patch) /\ patch[h + 1].kind = "+++")
          THEN [kind |-> "bad", ok |-> FALSE, next |-> h, hunks |-> <<>>, path |-> "none"]
          ELSE [kind  |-> IF PathOf(patch[h + 1]) = DevNull THEN "del"
                          ELSE IF PathOf(patch[h]) = DevNull THEN "add" ELSE "update",
                ok    |-> read.ok /\ read.hunks # <<>>,
                next  |-> e,
                hunks |-> read.hunks,
                path  |-> IF k.path # "none" THEN k.path
                          ELSE IF PathOf(patch[h]) # DevNull /\ PathOf(patch[h + 1]) = DevNull
                          THEN PathOf(patch[h]) ELSE PathOf(patch[h + 1])]
  BY DEF Section
<1> HIDE DEF headers, e, read
<1>5. CASE headers = {}
  <2>1. s = [kind |-> "none", ok |-> TRUE, next |-> i, hunks |-> <<>>, path |-> "none"]
    BY <1>4, <1>5, Zenon
  <2>2. s.kind = "none" /\ s.next = i
    BY <2>1
  <2> QED BY <2>2
<1>6. CASE headers # {} /\ ~(h < Len(patch) /\ patch[h + 1].kind = "+++")
  <2>1. h \in Nat \ {0}
    BY <1>0, <1>2, <1>6
  <2> HIDE DEF h
  <2>2. s = [kind |-> "bad", ok |-> FALSE, next |-> h, hunks |-> <<>>, path |-> "none"]
    BY <1>4, <1>6, Zenon
  <2>3. s.kind = "bad" /\ s.next = h /\ s.ok = FALSE
    BY <2>2
  <2> QED BY <2>1, <2>3
<1>7. CASE headers # {} /\ h < Len(patch) /\ patch[h + 1].kind = "+++"
  <2>1. /\ h \in 1 .. Len(patch) /\ h + 1 \in 1 .. Len(patch)
        /\ Kind(patch[h]) = "---"
    BY <1>1, <1>2, <1>7 DEF headers
  <2>2. Kind(patch[h + 1]) = "+++"
    BY <1>7 DEF Kind
  <2>3. PathsOf(k) = {PathOf(patch[j]) : j \in {n \in DOMAIN patch :
                                            Kind(patch[n]) \in {"---", "+++"}}} \cup {k.path}
    BY DEF PathsOf
  <2> HIDE DEF h
  <2>4. {PathOf(patch[h]), PathOf(patch[h + 1]), k.path} \subseteq PathsOf(k)
    BY <1>1, <2>1, <2>2, <2>3, Zenon
  <2> DEFINE kind == IF PathOf(patch[h + 1]) = DevNull THEN "del"
                     ELSE IF PathOf(patch[h]) = DevNull THEN "add" ELSE "update"
             path == IF k.path # "none" THEN k.path
                     ELSE IF PathOf(patch[h]) # DevNull /\ PathOf(patch[h + 1]) = DevNull
                     THEN PathOf(patch[h]) ELSE PathOf(patch[h + 1])
  <2>5. s = [kind |-> kind, ok |-> read.ok /\ read.hunks # <<>>, next |-> e,
             hunks |-> read.hunks, path |-> path]
    BY <1>4, <1>7, Zenon
  <2>6. path \in {PathOf(patch[h]), PathOf(patch[h + 1]), k.path} /\ kind \in {"del", "add", "update"}
    OBVIOUS
  <2> HIDE DEF kind, path
  <2>7. s.kind = kind /\ s.path = path /\ s.next = e
    BY <2>5
  <2> QED BY <1>3, <2>4, <2>6, <2>7
<1> QED BY <1>5, <1>6, <1>7

\* What a patch does next, by the kind of the section it finds.
LEMMA PatchStep ==
  ASSUME NEW c, Patch(c), NEW from, from = IF pc[c] = "start" THEN 1 ELSE loc[c].next,
         NEW s, s = Section(call[c].patch, from, call[c].path),
         s.kind \in {"none", "bad", "del", "add", "update"}, s.kind = "bad" => ~s.ok
  PROVE  \/ s.kind = "none" /\ Answer(c, Said(<<>>)) /\ file' = file
         \/ s.kind # "none" /\ Answer(c, Refused) /\ file' = file
         \/ /\ s.kind = "del" /\ file' = [p \in DOMAIN file \ {s.path} |-> file[p]]
            /\ Goto(c, "next section", [next |-> s.next])
         \/ /\ s.kind \notin {"none", "bad"} /\ file' = file
            /\ \E d : Goto(c, "open", [path |-> s.path, data |-> d, next |-> s.next])
<1> DEFINE result == Patched(file[s.path], s.hunks)
           go(data) == Goto(c, "open", [path |-> s.path, data |-> data, next |-> s.next])
<1>1. (CASE s.kind = "none" -> Answer(c, Said(<<>>)) /\ UNCHANGED file
         [] s.kind # "none" /\ ~s.ok -> Answer(c, Refused) /\ UNCHANGED file
         [] s.kind = "del" /\ s.ok ->
              IF Exists(s.path)
              THEN /\ file' = [p \in DOMAIN file \ {s.path} |-> file[p]]
                   /\ Goto(c, "next section", [next |-> s.next])
              ELSE Answer(c, Refused) /\ UNCHANGED file
         [] s.kind = "add" /\ s.ok ->
              (IF Exists(s.path) THEN Answer(c, Refused) ELSE go(Added(s.hunks))) /\ UNCHANGED file
         [] OTHER ->
              (IF Exists(s.path) /\ result.ok THEN go(result.lines) ELSE Answer(c, Refused))
              /\ UNCHANGED file)
  BY Zenon DEF Patch
<1>2. CASE s.kind = "none"
  BY <1>1, <1>2, Zenon
<1>3. CASE s.kind # "none" /\ ~s.ok
  BY <1>1, <1>3, Zenon
<1>4. CASE s.kind = "del" /\ s.ok
  BY <1>1, <1>4
<1>5. CASE s.kind = "add" /\ s.ok
  BY <1>1, <1>5
<1>6. CASE s.kind = "update" /\ s.ok
  BY <1>1, <1>6
<1> QED BY <1>2, <1>3, <1>4, <1>5, <1>6

\* Where a call that changes files is, and which file it changes next.
Aimed(c) ==
  /\ pc[c] \in {"open", "fill"} =>
       /\ loc[c].path \in PathsOf(call[c]) /\ loc[c].next \in Nat
       /\ loc[c].next # 0 => call[c].tool = "apply_patch"
  /\ pc[c] = "next section" => loc[c].next \in Nat \ {0} /\ call[c].tool = "apply_patch"
AimInv == \A c \in DOMAIN call : Aimed(c)

\* No file changes but those the call names.
OnlyFilesOf(c) == \A p : p \notin PathsOf(call[c]) => At0(file', p) = At0(file, p)

LEMMA SameFiles == ASSUME NEW c, file' = file PROVE OnlyFilesOf(c)
BY DEF OnlyFilesOf, At0

LEMMA AimsAt ==
  ASSUME NEW c, call' = call, pc'[c] \in {"open", "fill"},
         loc'[c].path \in PathsOf(call[c]), loc'[c].next \in Nat,
         loc'[c].next # 0 => call[c].tool = "apply_patch"
  PROVE  Aimed(c)'
<1>1. call'[c] = call[c] /\ PathsOf(call'[c]) = PathsOf(call[c])
  OBVIOUS
<1> QED BY <1>1 DEF Aimed

LEMMA AimsOn ==
  ASSUME NEW c, NEW x, call' = call, pc'[c] = "next section", loc'[c] = x, x.next \in Nat \ {0},
         call[c].tool = "apply_patch"
  PROVE  Aimed(c)'
BY DEF Aimed

LEMMA FileAim ==
  ASSUME LabelInv, NEW c \in DOMAIN call, Aimed(c), FileStep(c)
  PROVE  Aimed(c)' /\ OnlyFilesOf(c)
<1>1. Tables /\ call \in Batches
  BY Zenon DEF LabelInv
<1>2. ASSUME call[c].tool \in {"read_file", "write_file", "edit"} PROVE call[c].path \in PathsOf(call[c])
  BY <1>2 DEF PathsOf
<1>3. CASE ReadFile(c)
  <2>1. (\E r : Answer(c, r)) /\ file' = file
    BY <1>3, Zenon DEF ReadFile
  <2>2. pc'[c] = "done"
    BY <1>1, <2>1, AnswerStep
  <2> QED BY <2>1, <2>2, SameFiles DEF Aimed
<1>4. CASE WriteFile(c)
  <2>1. /\ file' = file /\ call[c].tool = "write_file"
        /\ Goto(c, "open", [path |-> call[c].path, data |-> call[c].text, next |-> 0])
    BY <1>4, Zenon DEF WriteFile, At
  <2>2. /\ pc'[c] = "open" /\ call' = call
        /\ loc'[c] = [path |-> call[c].path, data |-> call[c].text, next |-> 0]
    BY <1>1, <2>1, GotoStep DEF OnlyCall
  <2>3. loc'[c].path = call[c].path /\ loc'[c].next = 0
    BY <2>2
  <2>4. Aimed(c)'
    BY <1>2, <2>1, <2>2, <2>3, AimsAt
  <2> QED BY <2>1, <2>4, SameFiles
<1>5. CASE Edit(c)
  <2>1. /\ file' = file /\ call[c].tool = "edit"
        /\ \/ \E d : Goto(c, "open", [path |-> call[c].path, next |-> 0, data |-> d])
           \/ Answer(c, Refused)
    BY <1>5, Zenon DEF Edit, At
  <2>2. CASE Answer(c, Refused)
    <3>1. pc'[c] = "done"
      BY <1>1, <2>2, AnswerStep
    <3> QED BY <2>1, <3>1, SameFiles DEF Aimed
  <2>3. ASSUME NEW d, Goto(c, "open", [path |-> call[c].path, next |-> 0, data |-> d])
        PROVE  Aimed(c)'
    <3>1. /\ pc'[c] = "open" /\ call' = call
          /\ loc'[c] = [path |-> call[c].path, next |-> 0, data |-> d]
      BY <1>1, <2>3, GotoStep DEF OnlyCall
    <3>2. loc'[c].path = call[c].path /\ loc'[c].next = 0
      BY <3>1
    <3> QED BY <1>2, <2>1, <3>1, <3>2, AimsAt
  <2>4. OnlyFilesOf(c)
    BY <2>1, SameFiles
  <2>5. CASE \E d : Goto(c, "open", [path |-> call[c].path, next |-> 0, data |-> d])
    BY <2>3, <2>4, <2>5
  <2>6. CASE Answer(c, Refused)
    BY <2>2, <2>6
  <2> QED BY <2>1, <2>5, <2>6
<1>6. CASE Patch(c)
  <2>1. PICK from, s : /\ from = IF pc[c] = "start" THEN 1 ELSE loc[c].next
                       /\ s = Section(call[c].patch, from, call[c].path)
    OBVIOUS
  <2>2. call[c].tool = "apply_patch" /\ (pc[c] = "start" \/ pc[c] = "next section")
    BY <1>6 DEF Patch, At, Aimed
  <2>3. from \in Nat \ {0}
    <3>1. from = IF pc[c] = "start" THEN 1 ELSE loc[c].next
      BY <2>1
    <3>2. pc[c] = "next section" => loc[c].next \in Nat \ {0}
      BY DEF Aimed
    <3>3. CASE pc[c] = "start"
      <4>1. from = 1
        BY <3>1, <3>3, Zenon
      <4> QED BY <4>1
    <3>4. CASE pc[c] = "next section"
      <4>1. from = loc[c].next
        BY <3>1, <3>4
      <4> QED BY <3>2, <3>4, <4>1, Zenon
    <3> QED BY <2>2, <3>3, <3>4, Zenon
  <2>4. call[c].patch \in Seq({call[c].patch[i] : i \in DOMAIN call[c].patch})
    BY <1>1, <2>2, BatchesAssumption
  <2>5. /\ s.kind \in {"none", "bad", "del", "add", "update"} /\ s.next \in Nat \ {0}
        /\ s.kind = "bad" => ~s.ok
        /\ s.kind \in {"del", "add", "update"} => s.path \in PathsOf(call[c])
    BY <2>1, <2>2, <2>3, <2>4, SectionPath
  <2>6. \/ (\E r : Answer(c, r)) /\ file' = file
        \/ /\ s.kind = "del" /\ file' = [p \in DOMAIN file \ {s.path} |-> file[p]]
           /\ Goto(c, "next section", [next |-> s.next])
        \/ /\ s.kind \notin {"none", "bad"} /\ file' = file
           /\ \E d : Goto(c, "open", [path |-> s.path, data |-> d, next |-> s.next])
    BY <1>6, <2>1, <2>5, PatchStep, Zenon
  <2>7. CASE (\E r : Answer(c, r)) /\ file' = file
    <3>1. pc'[c] = "done"
      BY <1>1, <2>7, AnswerStep
    <3> QED BY <2>7, <3>1, SameFiles DEF Aimed
  <2>8. CASE /\ s.kind = "del" /\ file' = [p \in DOMAIN file \ {s.path} |-> file[p]]
             /\ Goto(c, "next section", [next |-> s.next])
    <3>1. PICK x : x = [next |-> s.next]
      OBVIOUS
    <3>2. Aimed(c)'
      <4>1. Goto(c, "next section", x)
        BY <2>8, <3>1, Zenon
      <4>2. pc'[c] = "next section" /\ loc'[c] = x /\ call' = call
        BY <1>1, <4>1, GotoStep DEF OnlyCall
      <4>3. x.next \in Nat \ {0}
        BY <2>5, <3>1
      <4> QED BY <2>2, <4>2, <4>3, AimsOn
    <3>3. OnlyFilesOf(c)
      BY <2>5, <2>8 DEF OnlyFilesOf, At0
    <3> QED BY <3>2, <3>3
  <2>9. ASSUME NEW d, Goto(c, "open", [path |-> s.path, data |-> d, next |-> s.next]),
               s.kind \notin {"none", "bad"}
        PROVE  Aimed(c)'
    <3>1. /\ pc'[c] = "open" /\ call' = call
          /\ loc'[c] = [path |-> s.path, data |-> d, next |-> s.next]
      BY <1>1, <2>9, GotoStep DEF OnlyCall
    <3>2. loc'[c].path = s.path /\ loc'[c].next = s.next
      BY <3>1
    <3> QED BY <2>2, <2>5, <2>9, <3>1, <3>2, AimsAt
  <2> QED BY <2>6, <2>7, <2>8, <2>9, SameFiles
<1>7. CASE Open(c)
  <2>1. /\ pc[c] = "open" /\ Goto(c, "fill", loc[c])
        /\ file' = [p \in DOMAIN file \cup {loc[c].path} |->
                      IF p = loc[c].path THEN <<>> ELSE file[p]]
    BY <1>7, Zenon DEF Open
  <2>2. pc'[c] = "fill" /\ call' = call /\ loc'[c] = loc[c]
    BY <1>1, <2>1, GotoStep DEF OnlyCall
  <2>3. Aimed(c)'
    BY <2>1, <2>2 DEF Aimed
  <2>4. loc[c].path \in PathsOf(call[c])
    BY <2>1 DEF Aimed
  <2>5. OnlyFilesOf(c)
    BY <2>1, <2>4 DEF OnlyFilesOf, At0
  <2> QED BY <2>3, <2>5
<1>8. CASE Fill(c)
  <2>1. PICK text : /\ pc[c] = "fill"
                    /\ file' = IF Exists(loc[c].path) THEN [file EXCEPT ![loc[c].path] = text] ELSE file
                    /\ IF loc[c].next > 0 THEN Goto(c, "next section", [next |-> loc[c].next])
                       ELSE Answer(c, Said(<<>>))
    BY <1>8, Zenon DEF Fill
  <2>2. loc[c].path \in PathsOf(call[c]) /\ loc[c].next \in Nat
        /\ (loc[c].next # 0 => call[c].tool = "apply_patch")
    BY <2>1 DEF Aimed
  <2>3. Aimed(c)'
    <3>1. CASE loc[c].next > 0
      <4>1. PICK x : x = [next |-> loc[c].next]
        OBVIOUS
      <4>2. Goto(c, "next section", x)
        BY <2>1, <3>1, <4>1
      <4>3. pc'[c] = "next section" /\ loc'[c] = x /\ call' = call
        BY <1>1, <4>2, GotoStep DEF OnlyCall
      <4>4. x.next \in Nat \ {0} /\ call[c].tool = "apply_patch"
        BY <2>2, <3>1, <4>1
      <4> QED BY <4>3, <4>4, AimsOn
    <3>2. CASE ~(loc[c].next > 0)
      <4>1. pc'[c] = "done"
        BY <1>1, <2>1, <3>2, AnswerStep
      <4> QED BY <4>1 DEF Aimed
    <3> QED BY <3>1, <3>2
  <2>4. OnlyFilesOf(c)
    BY <2>1, <2>2 DEF OnlyFilesOf, At0, Exists
  <2> QED BY <2>3, <2>4
<1>9. CASE CannotOpen(c)
  <2>1. Answer(c, Refused) /\ file' = file
    BY <1>9, Zenon DEF CannotOpen
  <2>2. pc'[c] = "done"
    BY <1>1, <2>1, AnswerStep
  <2> QED BY <2>1, <2>2, SameFiles DEF Aimed
<1> QED BY <1>3, <1>4, <1>5, <1>6, <1>7, <1>8, <1>9, Zenon DEF FileStep

\* A call of the three simpler file tools whose file no other call touches.
Lone(c) == call[c].tool \in {"read_file", "write_file", "edit"} /\ Apart(c)

\* The text a call is about to write, and what it has done in the end.
Wanted(c, data) ==
  /\ data \in Seq(STRING) /\ call[c].tool # "read_file"
  /\ call[c].tool = "write_file" => data = call[c].text
  /\ call[c].tool = "edit" =>
       /\ call[c].path \in DOMAIN InitFile
       /\ Exchanged(InitFile[call[c].path], data, call[c].old, call[c].new)
Reached(k, r, before, now) ==
  IF ~r.ok THEN now = before
  ELSE /\ k.tool = "read_file" => before # <<>> /\ r = Said(Shown(before[1]))
       /\ k.tool = "write_file" => now = <<k.text>>
       /\ k.tool = "edit" => Exchanged(before[1], now[1], k.old, k.new)
Before(c) == At0(InitFile, call[c].path)
ExactAt(c) ==
  Lone(c) =>
    /\ pc[c] \in {"start", "open", "fill", "done"}
    /\ pc[c] \in {"start", "open"} => At0(file, call[c].path) = Before(c)
    /\ pc[c] = "fill" => At0(file, call[c].path) = <<<<>>>>
    /\ pc[c] \in {"open", "fill"} =>
         loc[c].path = call[c].path /\ loc[c].next = 0 /\ Wanted(c, loc[c].data)
    /\ pc[c] = "done" => Reached(call[c], reply[c], Before(c), At0(file, call[c].path))
ExactInv == \A c \in DOMAIN call : ExactAt(c)

LEMMA FileIs ==
  ASSUME NEW f, NEW p, NEW x, p \in DOMAIN f, f[p] = x
  PROVE  At0(f, p) = <<x>> /\ At0(f, p)[1] = x
BY DEF At0

LEMMA IsFile ==
  ASSUME NEW f, NEW p, NEW x, At0(f, p) = <<x>>
  PROVE  p \in DOMAIN f /\ f[p] = x
<1>1. p \in DOMAIN f
  BY DEF At0
<1>2. <<f[p]>> = <<x>>
  BY <1>1 DEF At0
<1> QED BY <1>1, <1>2

LEMMA NoFile ==
  ASSUME NEW f, NEW p, p \notin DOMAIN f
  PROVE  At0(f, p) = <<>>
BY DEF At0

LEMMA EditWants ==
  ASSUME NEW text \in Seq(STRING), NEW old \in Seq(STRING), NEW new \in Seq(STRING),
         Unique(text, old)
  PROVE  LET data == Replace(text, Min2(Occurrences(text, old)), Len(old), new)
         IN  data \in Seq(STRING) /\ Exchanged(text, data, old, new)
<1> DEFINE T == Occurrences(text, old)
           i == Min2(T)
           data == Replace(text, i, Len(old), new)
<1>1. Len(text) \in Nat /\ Len(old) \in Nat
  BY LenProperties
<1>2. T \subseteq 0 .. Len(text) - Len(old) /\ T # {}
  BY DEF Unique, Occurrences
<1>3. i \in T
  <2>1. T \subseteq Nat
    BY <1>1, <1>2
  <2> HIDE DEF T
  <2> QED BY <1>2, <2>1, LeastOf
<1>4. Exchanged(text, data, old, new)
  <2> HIDE DEF T, i
  <2> QED BY <1>3 DEF Exchanged, T
<1>5. data \in Seq(STRING)
  <2>1. i \in Nat /\ i + Len(old) <= Len(text)
    BY <1>1, <1>2, <1>3
  <2> HIDE DEF i
  <2>2. SubSeq(text, 1, i) \in Seq(STRING)
    BY <1>1, <2>1, SubSeqProperties
  <2>3. SubSeq(text, i + Len(old) + 1, Len(text)) \in Seq(STRING)
    BY <1>1, <2>1, SubSeqProperties
  <2> QED BY <2>2, <2>3, ConcatProperties DEF Replace
<1> QED BY <1>4, <1>5

\* A step of another call.
LEMMA OthersExact ==
  ASSUME LabelInv, NEW d \in DOMAIN call, OnlyCall(d), OnlyFilesOf(d),
         NEW c \in DOMAIN call, c # d, ExactAt(c)
  PROVE  ExactAt(c)'
<1> SUFFICES ASSUME Lone(c)' PROVE ExactAt(c)'
  BY DEF ExactAt
<1>1. call' = call /\ pc'[c] = pc[c] /\ loc'[c] = loc[c] /\ reply'[c] = reply[c]
  BY DEF OnlyCall
<1>2. Lone(c)
  BY <1>1 DEF Lone, Apart, Others
<1>3. call[c].path \notin {DevNull, "none"} /\ call[c].path \in PathsOf(call[c])
  <2>1. call \in Batches
    BY DEF LabelInv
  <2>2. call[c].tool \in {"read_file", "write_file", "edit"}
    BY <1>2 DEF Lone
  <2>3. call[c].path \notin {DevNull, "none"}
    BY <2>1, <2>2, BatchesAssumption
  <2>4. call[c].path \in PathsOf(call[c])
    BY <2>2 DEF PathsOf
  <2> QED BY <2>3, <2>4
<1>4. call[c].path \notin PathsOf(call[d])
  BY <1>2, <1>3, Zenon DEF Lone, Apart, Others
<1>5. At0(file', call[c].path) = At0(file, call[c].path)
  BY <1>4 DEF OnlyFilesOf
<1>6. Before(c)' = Before(c) /\ \A x : Wanted(c, x)' <=> Wanted(c, x)
  BY <1>1 DEF Before, Wanted
<1> QED BY <1>1, <1>2, <1>5, <1>6 DEF ExactAt

\* A step of the call itself.
LEMMA FileExact ==
  ASSUME LabelInv, NEW c \in DOMAIN call, FileStep(c), ExactAt(c)
  PROVE  ExactAt(c)'
<1>0. Tables /\ call \in Batches
  BY Zenon DEF LabelInv
<1>1. OnlyCall(c) /\ call' = call
  BY FileShape DEF OnlyCall
<1>2. (Lone(c)' <=> Lone(c)) /\ Before(c)' = Before(c) /\ \A x : Wanted(c, x)' <=> Wanted(c, x)
  BY <1>1 DEF Lone, Apart, Others, Before, Wanted
<1> SUFFICES ASSUME Lone(c) PROVE ExactAt(c)'
  BY <1>2 DEF ExactAt
<1> DEFINE k == call[c]
           p == call[c].path
<1>3. /\ k.tool \in {"read_file", "write_file", "edit"}
      /\ k.tool = "write_file" => k.text \in Seq(STRING)
      /\ k.tool = "edit" => k.old \in Seq(STRING) /\ k.new \in Seq(STRING)
  BY <1>0, BatchesAssumption DEF Lone
<1>4. /\ pc[c] \in {"start", "open", "fill", "done"}
      /\ pc[c] \in {"start", "open"} => At0(file, p) = Before(c)
      /\ pc[c] = "fill" => At0(file, p) = <<<<>>>>
      /\ pc[c] \in {"open", "fill"} =>
           loc[c].path = p /\ loc[c].next = 0 /\ Wanted(c, loc[c].data)
  BY DEF ExactAt
\* Two ways for a step to end: the handler goes on to write, or it answers.
<1>5. ASSUME NEW x, Goto(c, "open", x), file' = file, x.path = p, x.next = 0, Wanted(c, x.data),
             pc[c] = "start"
      PROVE  ExactAt(c)'
  <2>1. pc'[c] = "open" /\ loc'[c] = x
    BY <1>0, <1>5, GotoStep
  <2> QED BY <1>1, <1>2, <1>4, <1>5, <2>1 DEF ExactAt
<1>6. ASSUME NEW r, Answer(c, r), Reached(k, r, Before(c), At0(file', p)) PROVE ExactAt(c)'
  <2>1. pc'[c] = "done" /\ reply'[c] = r
    BY <1>0, <1>6, AnswerStep
  <2> QED BY <1>1, <1>2, <1>6, <2>1 DEF ExactAt
<1>7. CASE ReadFile(c)
  <2>1. /\ pc[c] = "start" /\ k.tool = "read_file" /\ file' = file
        /\ Answer(c, IF Exists(p) THEN Said(Shown(file[p])) ELSE Refused)
    BY <1>7 DEF ReadFile, At
  <2>2. At0(file, p) = Before(c)
    BY <1>4, <2>1
  <2>3. CASE Exists(p)
    <3>1. At0(file, p) = <<file[p]>> /\ At0(file, p)[1] = file[p]
      BY <2>3, FileIs DEF Exists
    <3>2. Before(c) # <<>> /\ Before(c)[1] = file[p]
      <4>1. At0(file, p) # <<>>
        BY <3>1
      <4> QED BY <2>2, <3>1, <4>1, Zenon
    <3>3. Reached(k, Said(Shown(file[p])), Before(c), At0(file', p))
      BY <2>1, <3>2 DEF Reached, Said
    <3>4. Answer(c, Said(Shown(file[p])))
      BY <2>1, <2>3, Zenon
    <3> QED BY <1>6, <3>3, <3>4
  <2>4. CASE ~Exists(p)
    <3>1. Reached(k, Refused, Before(c), At0(file', p))
      BY <2>1, <2>2 DEF Reached, Refused, NoReply
    <3>2. Answer(c, Refused)
      BY <2>1, <2>4, Zenon
    <3> QED BY <1>6, <3>1, <3>2
  <2> QED BY <2>3, <2>4
<1>8. CASE WriteFile(c)
  <2>1. /\ pc[c] = "start" /\ k.tool = "write_file" /\ file' = file
        /\ Goto(c, "open", [path |-> p, data |-> k.text, next |-> 0])
    BY <1>8 DEF WriteFile, At
  <2>2. PICK x : x = [path |-> p, data |-> k.text, next |-> 0]
    OBVIOUS
  <2>3. x.path = p /\ x.next = 0 /\ x.data = k.text
    BY <2>2
  <2>4. Wanted(c, x.data)
    BY <1>3, <2>1, <2>3 DEF Wanted
  <2> QED BY <1>5, <2>1, <2>2, <2>3, <2>4
<1>9. CASE Edit(c)
  <2>1. pc[c] = "start" /\ k.tool = "edit" /\ file' = file
    BY <1>9 DEF Edit, At
  <2>2. At0(file, p) = At0(InitFile, p) /\ At0(file, p) = Before(c)
    BY <1>4, <2>1 DEF Before
  <2>3. CASE Exists(p) /\ Unique(file[p], k.old)
    <3> DEFINE data == Replace(file[p], Min2(Occurrences(file[p], k.old)), Len(k.old), k.new)
    <3>1. Goto(c, "open", [path |-> p, next |-> 0, data |-> data])
      BY <1>9, <2>3 DEF Edit
    <3>2. p \in DOMAIN InitFile /\ InitFile[p] = file[p]
      <4>1. At0(file, p) = <<file[p]>>
        BY <2>3, FileIs DEF Exists
      <4>2. At0(InitFile, p) = <<file[p]>>
        BY <2>2, <4>1
      <4> HIDE DEF p
      <4> QED BY <4>2, IsFile
    <3>3. file[p] \in Seq(STRING)
      BY <3>2, InitAssumption
    <3>4. data \in Seq(STRING) /\ Exchanged(file[p], data, k.old, k.new)
      BY <1>3, <2>1, <2>3, <3>3, EditWants
    <3> HIDE DEF data
    <3>5. PICK x : x = [path |-> p, next |-> 0, data |-> data]
      OBVIOUS
    <3>6. x.path = p /\ x.next = 0 /\ x.data = data
      BY <3>5
    <3>7. Wanted(c, x.data)
      BY <2>1, <3>2, <3>4, <3>6 DEF Wanted
    <3> QED BY <1>5, <2>1, <3>1, <3>5, <3>6, <3>7
  <2>4. CASE ~(Exists(p) /\ Unique(file[p], k.old))
    <3>1. Answer(c, Refused)
      BY <1>9, <2>4 DEF Edit
    <3>2. Reached(k, Refused, Before(c), At0(file', p))
      BY <2>1, <2>2 DEF Reached, Refused, NoReply
    <3> QED BY <1>6, <3>1, <3>2
  <2> QED BY <2>3, <2>4
<1>10. CASE Patch(c)
  BY <1>3, <1>4, <1>10 DEF Patch, At
<1>11. CASE Open(c)
  <2>1. /\ pc[c] = "open" /\ Goto(c, "fill", loc[c])
        /\ file' = [q \in DOMAIN file \cup {loc[c].path} |->
                      IF q = loc[c].path THEN <<>> ELSE file[q]]
    BY <1>11 DEF Open
  <2>2. pc'[c] = "fill" /\ loc'[c] = loc[c]
    BY <1>0, <2>1, GotoStep
  <2>3. p \in DOMAIN file' /\ file'[p] = <<>>
    BY <1>4, <2>1
  <2>4. At0(file', p) = <<<<>>>>
    <3>1. PICK f : f = file'
      OBVIOUS
    <3>2. p \in DOMAIN f /\ f[p] = <<>>
      BY <2>3, <3>1
    <3> HIDE DEF p
    <3>3. At0(f, p) = <<<<>>>>
      BY <3>2, FileIs
    <3> QED BY <3>1, <3>3
  <2> QED BY <1>1, <1>2, <1>4, <2>1, <2>2, <2>4 DEF ExactAt
<1>12. CASE Fill(c)
  <2> DEFINE data == loc[c].data
  <2>1. /\ pc[c] = "fill" /\ loc[c].path = p /\ loc[c].next = 0 /\ Wanted(c, data)
        /\ p \in DOMAIN file /\ file[p] = <<>>
    <3>1. pc[c] = "fill"
      BY <1>12 DEF Fill
    <3>2. At0(file, p) = <<<<>>>>
      BY <1>4, <3>1
    <3>3. p \in DOMAIN file /\ file[p] = <<>>
      BY <3>2, IsFile
    <3> QED BY <1>4, <3>1, <3>3
  <2>2. /\ file' = [file EXCEPT ![p] = data \o SubSeq(@, Len(data) + 1, Len(@))]
        /\ Answer(c, Said(<<>>))
    BY <1>12, <2>1 DEF Fill, Exists
  <2>3. data \in Seq(STRING)
    BY <2>1 DEF Wanted
  <2> HIDE DEF data
  <2>4. data \o SubSeq(<<>>, Len(data) + 1, Len(<<>>)) = data
    <3>1. SubSeq(<<>>, Len(data) + 1, Len(<<>>)) = <<>>
      BY <2>3
    <3> QED BY <2>3, <3>1
  <2>5. p \in DOMAIN file' /\ file'[p] = data
    BY <2>1, <2>2, <2>4
  <2>6. At0(file', p) = <<data>> /\ At0(file', p)[1] = data
    <3>1. PICK f : f = file'
      OBVIOUS
    <3>2. p \in DOMAIN f /\ f[p] = data
      BY <2>5, <3>1
    <3> HIDE DEF p
    <3>3. At0(f, p) = <<data>> /\ At0(f, p)[1] = data
      BY <3>2, FileIs
    <3> QED BY <3>1, <3>3
  <2>7. Reached(k, Said(<<>>), Before(c), At0(file', p))
    <3>1. CASE k.tool = "write_file"
      BY <2>1, <2>6, <3>1 DEF Reached, Wanted, Said
    <3>2. CASE k.tool = "edit"
      <4>1. p \in DOMAIN InitFile /\ Exchanged(InitFile[p], data, k.old, k.new)
        BY <2>1, <3>2 DEF Wanted
      <4>2. Before(c)[1] = InitFile[p]
        BY <4>1, FileIs DEF Before
      <4> QED BY <2>6, <3>2, <4>1, <4>2 DEF Reached, Said
    <3> QED BY <1>3, <2>1, <3>1, <3>2 DEF Wanted
  <2> QED BY <1>6, <2>2, <2>7
<1>13. CASE CannotOpen(c)
  <2>1. Answer(c, Refused) /\ file' = file
    BY <1>13, Zenon DEF CannotOpen
  <2>2. pc[c] \in {"start", "open"}
    BY <1>3, <1>4, <1>13 DEF CannotOpen, At
  <2>3. At0(file', p) = Before(c)
    BY <1>4, <2>1, <2>2
  <2>4. Reached(k, Refused, Before(c), At0(file', p))
    BY <2>3 DEF Reached, Refused, NoReply
  <2> QED BY <1>6, <2>1, <2>4
<1> QED
  <2>1. \/ ReadFile(c) \/ WriteFile(c) \/ Edit(c) \/ Patch(c) \/ Open(c) \/ Fill(c)
        \/ CannotOpen(c)
    BY DEF FileStep
  <2> QED BY <1>7, <1>8, <1>9, <1>10, <1>11, <1>12, <1>13, <2>1

\* No call is aimed at, or leaves, anything else than it should.
FilesInv == AimInv /\ ExactInv

LEMMA FilesAreExact ==
  ASSUME LabelInv, FilesInv, NEW c \in DOMAIN call, OnFiles(c) \/ OnTodos(c) \/ OnMail(c)
  PROVE  FilesInv'
<1>1. Aimed(c) /\ ExactAt(c) /\ \A d \in DOMAIN call : Aimed(d) /\ ExactAt(d)
  BY DEF FilesInv, AimInv, ExactInv
<1>2. OnlyCall(c) /\ OnlyFilesOf(c) /\ Aimed(c)' /\ ExactAt(c)'
  <2>1. CASE OnFiles(c)
    <3>1. FileStep(c)
      BY <2>1 DEF OnFiles
    <3> QED BY <1>1, <3>1, FileShape, FileAim, FileExact
  <2>2. CASE OnTodos(c) \/ OnMail(c)
    <3>1. OnlyCall(c) /\ call[c].tool \in TodoTool \cup MailTool /\ LabelInv' /\ file' = file
      BY <2>2, TodoShape, MailShape DEF OnTodos, OnMail
    <3>2. call' = call
      BY <3>1 DEF OnlyCall
    <3>3. pc'[c] \notin FileLabel
      BY <3>1, <3>2 DEF LabelInv, Labelled, TodoTool, MailTool, ScanTool, FileTool
    <3>4. Aimed(c)'
      BY <3>3 DEF Aimed, FileLabel
    <3>5. ~Lone(c)'
      BY <3>1, <3>2 DEF Lone, TodoTool, MailTool, ScanTool
    <3> QED BY <3>1, <3>4, <3>5, SameFiles DEF ExactAt
  <2> QED BY <2>1, <2>2
<1>3. call' = call
  BY <1>2 DEF OnlyCall
<1>4. ASSUME NEW d \in DOMAIN call, d # c PROVE Aimed(d)' /\ ExactAt(d)'
  <2>1. ExactAt(d)'
    BY <1>1, <1>2, <1>4, OthersExact
  <2>2. call'[d] = call[d] /\ pc'[d] = pc[d] /\ loc'[d] = loc[d]
    BY <1>2, <1>3, <1>4 DEF OnlyCall
  <2>3. Aimed(d)'
    BY <1>1, <2>2, Zenon DEF Aimed, PathsOf
  <2> QED BY <2>1, <2>3
<1> QED BY <1>2, <1>3, <1>4, Zenon DEF FilesInv, AimInv, ExactInv

LEMMA FilesAtStart == Init => FilesInv
<1> SUFFICES ASSUME Init PROVE FilesInv
  OBVIOUS
<1>1. pc = [c \in DOMAIN call |-> "start"] /\ file = InitFile
  BY Zenon DEF Init, InitCalls
<1>2. ASSUME NEW c \in DOMAIN call PROVE Aimed(c) /\ ExactAt(c)
  <2>1. pc[c] = "start"
    BY <1>1
  <2> QED BY <1>1, <2>1 DEF Aimed, ExactAt, Before
<1> QED BY <1>2 DEF FilesInv, AimInv, ExactInv

LEMMA FilesUnchanged ==
  ASSUME FilesInv, call' = call, pc' = pc, loc' = loc, reply' = reply, file' = file
  PROVE  FilesInv'
<1>1. ASSUME NEW c \in DOMAIN call PROVE Aimed(c)' /\ ExactAt(c)'
  <2>1. Aimed(c) /\ ExactAt(c)
    BY DEF FilesInv, AimInv, ExactInv
  <2>2. Aimed(c)' <=> Aimed(c)
    BY Zenon DEF Aimed, PathsOf
  <2>3. ExactAt(c)' <=> ExactAt(c)
    <3>1. (Lone(c)' <=> Lone(c)) /\ Before(c)' = Before(c) /\ \A x : Wanted(c, x)' <=> Wanted(c, x)
      BY DEF Lone, Apart, Others, Before, Wanted
    <3> QED BY <3>1 DEF ExactAt
  <2> QED BY <2>1, <2>2, <2>3
<1> QED BY <1>1 DEF FilesInv, AimInv, ExactInv
-----------------------------------------------------------------------------
IInv == LabelInv /\ MailInv /\ CheckInv /\ TodoInv /\ FilesInv

LEMMA InitInv == Init => IInv
<1> SUFFICES ASSUME Init PROVE IInv
  OBVIOUS
<1>1. /\ call \in Batches /\ pc = [c \in DOMAIN call |-> "start"]
      /\ loc = [c \in DOMAIN call |-> <<>>] /\ reply = [c \in DOMAIN call |-> NoReply]
      /\ todos = InitTodos /\ box = InitBox
  BY Zenon DEF Init, InitCalls
<1>2. LabelInv
  BY <1>1 DEF LabelInv, Tables, Labelled, FileLabel, MailLabel
<1>3. \A c \in DOMAIN call : ~Done(c) /\ pc[c] = "start"
  BY <1>1 DEF Done
<1>4. MailInv
  <2>1. \A id \in DOMAIN box : Addressed(id)
    BY <1>1, InitAssumption DEF Addressed, To
  <2>2. \A c \in DOMAIN call : ~Sent(c) /\ Removing(c)
    BY <1>3 DEF Sent, Removing
  <2> QED BY <1>1, <2>1, <2>2, MailParts
<1>5. CheckInv
  BY <1>3 DEF CheckInv
<1>6. TodoInv
  BY <1>1, <1>3, InitAssumption DEF TodoInv
<1> QED BY <1>2, <1>4, <1>5, <1>6, FilesAtStart DEF IInv

LEMMA NextKeepsInv == IInv /\ [Next]_vars => IInv'
<1> SUFFICES ASSUME IInv, [Next]_vars PROVE IInv'
  OBVIOUS
<1>1. CASE Next
  <2>1. PICK c \in DOMAIN call : OnFiles(c) \/ OnTodos(c) \/ OnMail(c)
    BY <1>1 DEF Next
  <2>2. LabelInv'
    BY <2>1, FileShape, TodoShape, MailShape DEF IInv, OnFiles, OnTodos, OnMail
  <2>3. MailInv'
    BY <2>1, MailIsSafe DEF IInv
  <2>4. CheckInv'
    BY <2>1, CheckIsThorough DEF IInv
  <2>5. TodoInv'
    BY <2>1, TodosAreSafe DEF IInv
  <2>6. FilesInv'
    BY <2>1, FilesAreExact DEF IInv
  <2> QED BY <2>2, <2>3, <2>4, <2>5, <2>6 DEF IInv
<1>2. CASE UNCHANGED vars
  <2>1. /\ call' = call /\ pc' = pc /\ loc' = loc /\ reply' = reply
        /\ todos' = todos /\ box' = box /\ file' = file
    BY <1>2 DEF vars
  <2>2. LabelInv'
    BY <2>1, Zenon DEF IInv, LabelInv, Tables, Labelled
  <2>3. MailInv'
    <3>1. \A id : To(id)' = To(id) /\ Exposed(id)' = Exposed(id)
      BY <2>1, SameMessages
    <3> QED BY <2>1, <3>1, Zenon DEF IInv, MailInv, Sent, Done
  <2>4. CheckInv'
    BY <2>1, Zenon DEF IInv, CheckInv, Checks, Done
  <2>5. TodoInv'
    BY <2>1, Zenon DEF IInv, TodoInv, Undone, Others, Shows, Done
  <2>6. FilesInv'
    BY <2>1, FilesUnchanged DEF IInv
  <2> QED BY <2>2, <2>3, <2>4, <2>5, <2>6 DEF IInv
<1> QED BY <1>1, <1>2

\* Whatever the calls of a batch do to each other, the handlers keep what the
\* four theorems below follow from.
THEOREM Invariance == Spec => []IInv
<1> QED BY InitInv, NextKeepsInv, PTL DEF Spec

\* No message is lost, but to a call that clears the mailbox and could match it
\* (tool_send_message, tool_clear_mailbox).
THEOREM NoMessageIsLost == Spec => []MailIsKept
<1>1. IInv => MailIsKept
  <2> SUFFICES ASSUME IInv PROVE MailIsKept
    OBVIOUS
  <2>1. /\ \A id \in DOMAIN box : Addressed(id)
        /\ \A id \in DOMAIN InitBox : id \in DOMAIN box \/ Exposed(id)
        /\ \A c \in DOMAIN call : Sent(c) => c \in DOMAIN box \/ Exposed(c)
    BY MailParts DEF IInv
  <2>2. ASSUME NEW id \in DOMAIN InitBox PROVE (id \in DOMAIN box /\ box[id].whole) \/ Exposed(id)
    BY <2>1 DEF Addressed
  <2>3. ASSUME NEW c \in DOMAIN call, call[c].tool = "send_message", Done(c), reply[c].ok
        PROVE  (c \in DOMAIN box /\ box[c].whole) \/ Exposed(c)
    <3>1. c \notin DOMAIN InitBox
      BY BatchesAssumption DEF IInv, LabelInv
    <3>2. c \in DOMAIN box \/ Exposed(c)
      BY <2>1, <2>3, Zenon DEF Sent
    <3> QED BY <2>1, <2>3, <3>1, <3>2, Zenon DEF Addressed
  <2> QED BY <2>2, <2>3, Zenon DEF MailIsKept, Exposed, To
<1> QED BY <1>1, Invariance, PTL

\* check_mailbox for the default recipient misses no message that stays
\* (tool_check_mailbox).
THEOREM CheckIsComplete == Spec => []CheckMissesNothing
<1>1. IInv => CheckMissesNothing
  <2> SUFFICES ASSUME IInv, NEW c \in DOMAIN call, Checks(c), Done(c)
               PROVE  \/ Cardinality(reply[c].out) = MaxChecked
                      \/ \A id \in DOMAIN InitBox \cap DOMAIN box :
                           InitBox[id].to \in {"agent", "all"} /\ InitBox[id].body # Huge =>
                             id \in reply[c].out
    BY Zenon DEF CheckMissesNothing, Checks
  <2>1. \/ Cardinality(reply[c].out) = MaxChecked
        \/ \A id \in DOMAIN box : ForMe(id) => id \in reply[c].out
    BY Zenon DEF IInv, CheckInv
  <2> QED BY <2>1 DEF ForMe
<1> QED BY <1>1, Invariance, PTL

\* A todo_update that nobody else undoes finds its change in its own reply
\* (todo_update, todo_result_ok).
THEOREM UpdateIsShown == Spec => []OwnChangeShown
<1>1. IInv => OwnChangeShown
  BY Zenon DEF IInv, TodoInv, OwnChangeShown, Undone, Shows
<1> QED BY <1>1, Invariance, PTL

\* A call whose file no other call of the batch touches leaves it exactly as its
\* reply says (tool_read_file, tool_write_file, tool_edit).
THEOREM LoneCallIsExact == Spec => []ApartIsExact
<1>1. IInv => ApartIsExact
  <2> SUFFICES ASSUME IInv, NEW c \in DOMAIN call, Done(c),
                      call[c].tool \in {"read_file", "write_file", "edit"}, Apart(c)
               PROVE  IF ~reply[c].ok THEN At0(file, call[c].path) = At0(InitFile, call[c].path)
                      ELSE CASE call[c].tool = "read_file" ->
                                  /\ At0(InitFile, call[c].path) # <<>>
                                  /\ reply[c] = Said(Shown(At0(InitFile, call[c].path)[1]))
                             [] call[c].tool = "write_file" ->
                                  At0(file, call[c].path) = <<call[c].text>>
                             [] call[c].tool = "edit" ->
                                  Exchanged(At0(InitFile, call[c].path)[1],
                                            At0(file, call[c].path)[1], call[c].old, call[c].new)
    BY Zenon DEF ApartIsExact
  <2>1. Reached(call[c], reply[c], Before(c), At0(file, call[c].path))
    BY Zenon DEF IInv, FilesInv, ExactInv, ExactAt, Lone, Done
  <2> QED BY <2>1 DEF Reached, Before
<1> QED BY <1>1, Invariance, PTL
-----------------------------------------------------------------------------
\* A refused patch.
OneHeader(k) == \A i, j \in DOMAIN k.patch :
                  Kind(k.patch[i]) = "---" /\ Kind(k.patch[j]) = "---" => i = j
LonePatch(c) == call[c].tool = "apply_patch" /\ Apart(c) /\ OneHeader(call[c])
Untouched(c) == \A p \in PathsOf(call[c]) \ {DevNull, "none"} : At0(file, p) = At0(InitFile, p)

\* A patch of one file that no other call touches changes nothing when it is refused.
RefusedIsHarmless ==
  \A c \in DOMAIN call : LonePatch(c) /\ Done(c) /\ ~reply[c].ok => Untouched(c)

\* No section of the patch begins at or behind line n.
NoneFrom(k, n) == \A j \in DOMAIN k.patch : j >= n => Kind(k.patch[j]) # "---"

\* The one section is read before anything is written, and once it has been
\* written there is none left that could fail.
RefusalAt(c) ==
  LonePatch(c) =>
    /\ pc[c] \in {"start", "open"} => Untouched(c)
    /\ pc[c] \in {"open", "fill", "next section"} => NoneFrom(call[c], loc[c].next)
    /\ pc[c] = "done" => reply[c].ok \/ Untouched(c)
RefusalInv == \A c \in DOMAIN call : RefusalAt(c)

LEMMA OnlySection ==
  ASSUME NEW k, k.patch \in Seq({k.patch[i] : i \in DOMAIN k.patch}), OneHeader(k),
         NEW s, s = Section(k.patch, 1, k.path), s.kind \notin {"none", "bad"}
  PROVE  NoneFrom(k, s.next)
<1> DEFINE patch == k.patch
           headers == {j \in 1 .. Len(patch) : Kind(patch[j]) = "---"}
           h == Min2(headers)
           e == Min2({j \in headers : j > h} \cup {Len(patch) + 1})
           paired == h < Len(patch) /\ patch[h + 1].kind = "+++"
           read == Hunks(patch, h + 2, e - 1)
           kind == IF PathOf(patch[h + 1]) = DevNull THEN "del"
                   ELSE IF PathOf(patch[h]) = DevNull THEN "add" ELSE "update"
           path == IF k.path # "none" THEN k.path
                   ELSE IF PathOf(patch[h]) # DevNull /\ PathOf(patch[h + 1]) = DevNull
                   THEN PathOf(patch[h]) ELSE PathOf(patch[h + 1])
<1>1. Len(patch) \in Nat /\ DOMAIN patch = 1 .. Len(patch)
  BY LenProperties
<1>2. s = IF headers = {} THEN [kind |-> "none", ok |-> TRUE, next |-> 1, hunks |-> <<>>, path |-> "none"]
          ELSE IF ~paired THEN [kind |-> "bad", ok |-> FALSE, next |-> h, hunks |-> <<>>, path |-> "none"]
          ELSE [kind |-> kind, ok |-> read.ok /\ read.hunks # <<>>, next |-> e,
                hunks |-> read.hunks, path |-> path]
  BY DEF Section
<1>3. headers \subseteq Nat /\ \A x, y \in headers : x = y
  <2>1. \A x, y \in DOMAIN patch : Kind(patch[x]) = "---" /\ Kind(patch[y]) = "---" => x = y
    BY Zenon DEF OneHeader
  <2>2. headers = {j \in DOMAIN patch : Kind(patch[j]) = "---"}
    BY <1>1, Zenon
  <2>3. DOMAIN patch \subseteq Nat
    BY <1>1
  <2> QED BY <2>1, <2>2, <2>3, Zenon
<1> HIDE DEF headers, e, paired, read, kind, path
<1>4. headers # {} /\ s.next = e
  <2> DEFINE none == [kind |-> "none", ok |-> TRUE, next |-> 1, hunks |-> <<>>, path |-> "none"]
             bad == [kind |-> "bad", ok |-> FALSE, next |-> h, hunks |-> <<>>, path |-> "none"]
             good == [kind |-> kind, ok |-> read.ok /\ read.hunks # <<>>, next |-> e,
                      hunks |-> read.hunks, path |-> path]
  <2>1. none.kind = "none" /\ bad.kind = "bad" /\ good.next = e
    OBVIOUS
  <2>2. s = IF headers = {} THEN none ELSE IF ~paired THEN bad ELSE good
    BY <1>2, Zenon
  <2> HIDE DEF none, bad, good
  <2>3. s # none /\ s # bad
    BY <2>1
  <2>4. headers # {} /\ s = good
    BY <2>2, <2>3, Zenon
  <2> QED BY <2>1, <2>4
<1>5. h \in headers
  BY <1>3, <1>4, LeastOf
<1>6. e = Len(patch) + 1
  <2> HIDE DEF h
  <2>1. \A j \in headers : ~(j > h)
    BY <1>3, <1>5
  <2>2. {j \in headers : j > h} \cup {Len(patch) + 1} = {Len(patch) + 1}
    BY <2>1
  <2>3. e = Min2({Len(patch) + 1})
    BY <2>2, Zenon DEF e
  <2>4. Min2({Len(patch) + 1}) \in {Len(patch) + 1}
    <3>1. {Len(patch) + 1} \subseteq Nat /\ {Len(patch) + 1} # {}
      BY <1>1
    <3> QED BY <3>1, LeastOf, Zenon
  <2> QED BY <2>3, <2>4
<1> QED BY <1>1, <1>4, <1>6 DEF NoneFrom

LEMMA NoSection ==
  ASSUME NEW k, k.patch \in Seq({k.patch[i] : i \in DOMAIN k.patch}),
         NEW i \in Nat \ {0}, NoneFrom(k, i), NEW s, s = Section(k.patch, i, k.path)
  PROVE  s.kind = "none"
<1> DEFINE none == [kind |-> "none", ok |-> TRUE, next |-> i, hunks |-> <<>>, path |-> "none"]
<1>1. DOMAIN k.patch = 1 .. Len(k.patch) /\ Len(k.patch) \in Nat
  BY LenProperties
<1>2. {j \in i .. Len(k.patch) : Kind(k.patch[j]) = "---"} = {}
  BY <1>1 DEF NoneFrom
<1>3. s = none
  BY <1>2, Zenon DEF Section
<1>4. none.kind = "none"
  OBVIOUS
<1> QED BY <1>3, <1>4

\* A step of another call.
LEMMA OthersRefusal ==
  ASSUME NEW d \in DOMAIN call, OnlyCall(d), OnlyFilesOf(d),
         NEW c \in DOMAIN call, c # d, RefusalAt(c)
  PROVE  RefusalAt(c)'
<1>1. call' = call /\ pc'[c] = pc[c] /\ loc'[c] = loc[c] /\ reply'[c] = reply[c]
  BY DEF OnlyCall
<1>2. (LonePatch(c)' <=> LonePatch(c)) /\ PathsOf(call'[c]) = PathsOf(call[c])
  BY <1>1 DEF LonePatch, Apart, Others
<1>3. ASSUME LonePatch(c) PROVE Untouched(c) => Untouched(c)'
  <2>1. \A p \in PathsOf(call[c]) \ {DevNull, "none"} : p \notin PathsOf(call[d])
    BY <1>3, Zenon DEF LonePatch, Apart, Others
  <2>2. \A p \in PathsOf(call[c]) \ {DevNull, "none"} : At0(file', p) = At0(file, p)
    BY <2>1 DEF OnlyFilesOf
  <2> QED BY <1>2, <2>2 DEF Untouched
<1>4. \A n : NoneFrom(call[c], n)' <=> NoneFrom(call[c], n)
  BY <1>1 DEF NoneFrom
<1> QED BY <1>1, <1>2, <1>3, <1>4, Zenon DEF RefusalAt, NoneFrom

\* A step of the call itself.
LEMMA FileRefusal ==
  ASSUME LabelInv, NEW c \in DOMAIN call, Aimed(c), FileStep(c), RefusalAt(c)
  PROVE  RefusalAt(c)'
<1>1. Tables /\ call \in Batches /\ call' = call
  BY FileShape, Zenon DEF LabelInv, OnlyCall
<1>2. (LonePatch(c)' <=> LonePatch(c)) /\ PathsOf(call'[c]) = PathsOf(call[c])
  BY <1>1 DEF LonePatch, Apart, Others
<1> SUFFICES ASSUME LonePatch(c) PROVE RefusalAt(c)'
  BY <1>2 DEF RefusalAt
<1>3. /\ call[c].tool = "apply_patch"
      /\ pc[c] \in {"start", "open"} => Untouched(c)
      /\ pc[c] \in {"open", "fill", "next section"} => NoneFrom(call[c], loc[c].next)
  BY DEF RefusalAt, LonePatch
<1>4. call[c].patch \in Seq({call[c].patch[i] : i \in DOMAIN call[c].patch})
  BY <1>1, <1>3, BatchesAssumption
\* The ways for a step to end.
<1>5. ASSUME NEW r, Answer(c, r), r.ok \/ (pc[c] \in {"start", "open"} /\ file' = file)
      PROVE  RefusalAt(c)'
  <2>1. pc'[c] = "done" /\ reply'[c] = r
    BY <1>1, <1>5, AnswerStep
  <2>2. r.ok \/ Untouched(c)'
    BY <1>2, <1>3, <1>5 DEF Untouched
  <2> QED BY <2>1, <2>2 DEF RefusalAt
<1>6. ASSUME NEW l, NEW x, Goto(c, l, x), l \in {"open", "fill", "next section"},
             NoneFrom(call[c], x.next), l = "open" => pc[c] = "start" /\ file' = file
      PROVE  RefusalAt(c)'
  <2>1. pc'[c] = l /\ loc'[c] = x
    BY <1>1, <1>6, GotoStep
  <2>2. l = "open" => Untouched(c)'
    BY <1>2, <1>3, <1>6 DEF Untouched
  <2>3. NoneFrom(call'[c], loc'[c].next)
    BY <1>1, <1>6, <2>1
  <2> QED BY <1>6, <2>1, <2>2, <2>3 DEF RefusalAt
<1>7. Said(<<>>).ok
  BY DEF Said
<1>8. CASE Patch(c)
  <2>1. PICK from, s : /\ from = IF pc[c] = "start" THEN 1 ELSE loc[c].next
                       /\ s = Section(call[c].patch, from, call[c].path)
    OBVIOUS
  <2>2. pc[c] = "start" \/ (pc[c] = "next section" /\ loc[c].next \in Nat \ {0})
    BY <1>8 DEF Patch, At, Aimed
  <2>3. CASE pc[c] = "start"
    <3>1. from = 1
      BY <2>1, <2>3
    <3>2. s.kind \in {"none", "bad", "del", "add", "update"} /\ (s.kind = "bad" => ~s.ok)
      <4>1. s = Section(call[c].patch, 1, call[c].path) /\ 1 \in Nat \ {0}
        BY <2>1, <3>1
      <4> QED BY <1>3, <1>4, <4>1, SectionPath
    <3>3. s.kind \notin {"none", "bad"} => NoneFrom(call[c], s.next)
      BY <1>4, <2>1, <3>1, OnlySection DEF LonePatch
    <3>4. \/ (\E r : Answer(c, r)) /\ file' = file
          \/ /\ s.kind \notin {"none", "bad"}
             /\ Goto(c, "next section", [next |-> s.next])
          \/ /\ s.kind \notin {"none", "bad"} /\ file' = file
             /\ \E d : Goto(c, "open", [path |-> s.path, data |-> d, next |-> s.next])
      BY <1>8, <2>1, <3>2, PatchStep, Zenon
    <3>5. CASE (\E r : Answer(c, r)) /\ file' = file
      BY <1>5, <2>3, <3>5
    <3>6. CASE s.kind \notin {"none", "bad"} /\ Goto(c, "next section", [next |-> s.next])
      <4>1. [next |-> s.next].next = s.next
        OBVIOUS
      <4> QED BY <1>6, <3>3, <3>6, <4>1
    <3>7. ASSUME s.kind \notin {"none", "bad"}, file' = file,
                 NEW d, Goto(c, "open", [path |-> s.path, data |-> d, next |-> s.next])
          PROVE  RefusalAt(c)'
      <4>1. [path |-> s.path, data |-> d, next |-> s.next].next = s.next
        OBVIOUS
      <4> QED BY <1>6, <2>3, <3>3, <3>7, <4>1
    <3> QED BY <3>4, <3>5, <3>6, <3>7
  <2>4. CASE pc[c] = "next section" /\ loc[c].next \in Nat \ {0}
    <3>1. from = loc[c].next
      BY <2>1, <2>4
    <3>2. s.kind = "none"
      BY <1>3, <1>4, <2>1, <2>4, <3>1, NoSection
    <3>3. Answer(c, Said(<<>>))
      BY <1>8, <2>1, <3>2, PatchStep
    <3> QED BY <1>5, <1>7, <3>3
  <2> QED BY <2>2, <2>3, <2>4
<1>9. CASE Open(c)
  <2>1. pc[c] = "open" /\ Goto(c, "fill", loc[c])
    BY <1>9 DEF Open
  <2> QED BY <1>3, <1>6, <2>1
<1>10. CASE Fill(c)
  <2>1. /\ pc[c] = "fill"
        /\ IF loc[c].next > 0 THEN Goto(c, "next section", [next |-> loc[c].next])
           ELSE Answer(c, Said(<<>>))
    BY <1>10, Zenon DEF Fill
  <2>2. CASE Goto(c, "next section", [next |-> loc[c].next])
    <3>1. [next |-> loc[c].next].next = loc[c].next
      OBVIOUS
    <3> QED BY <1>3, <1>6, <2>1, <2>2, <3>1
  <2>3. CASE Answer(c, Said(<<>>))
    BY <1>5, <1>7, <2>3
  <2> QED BY <2>1, <2>2, <2>3
<1>11. CASE CannotOpen(c)
  <2>1. Answer(c, Refused) /\ file' = file
    BY <1>11, Zenon DEF CannotOpen
  <2>2. CASE pc[c] \in {"start", "open"}
    BY <1>5, <2>1, <2>2
  <2>3. CASE pc[c] \notin {"start", "open"}
    <3>1. /\ pc[c] = "next section"
          /\ Section(call[c].patch, loc[c].next, call[c].path).kind \in {"del", "update"}
      BY <1>11, <2>3 DEF CannotOpen, At
    <3>2. loc[c].next \in Nat \ {0} /\ NoneFrom(call[c], loc[c].next)
      BY <1>3, <3>1 DEF Aimed
    <3>3. Section(call[c].patch, loc[c].next, call[c].path).kind = "none"
      BY <1>4, <3>2, NoSection
    <3> QED BY <3>1, <3>3
  <2> QED BY <2>2, <2>3
<1>12. ~(ReadFile(c) \/ WriteFile(c) \/ Edit(c))
  BY <1>3 DEF ReadFile, WriteFile, Edit, At
<1> QED BY <1>8, <1>9, <1>10, <1>11, <1>12 DEF FileStep

LEMMA RefusalKept == IInv /\ RefusalInv /\ [Next]_vars => RefusalInv'
<1> SUFFICES ASSUME IInv, RefusalInv, [Next]_vars PROVE RefusalInv'
  OBVIOUS
<1>0. LabelInv /\ AimInv
  BY DEF IInv, FilesInv
<1>1. ASSUME NEW d \in DOMAIN call, OnFiles(d) \/ OnTodos(d) \/ OnMail(d) PROVE RefusalInv'
  <2>1. OnlyCall(d) /\ OnlyFilesOf(d) /\ RefusalAt(d)'
    <3>1. CASE OnFiles(d)
      <4>1. FileStep(d) /\ Aimed(d) /\ RefusalAt(d)
        BY <1>0, <3>1 DEF OnFiles, AimInv, RefusalInv
      <4> QED BY <1>0, <4>1, FileShape, FileAim, FileRefusal
    <3>2. CASE OnTodos(d) \/ OnMail(d)
      <4>1. OnlyCall(d) /\ call[d].tool \in TodoTool \cup MailTool /\ file' = file
        BY <1>0, <3>2, TodoShape, MailShape DEF OnTodos, OnMail
      <4>2. ~LonePatch(d)'
        BY <4>1 DEF OnlyCall, LonePatch, TodoTool, MailTool, ScanTool
      <4> QED BY <4>1, <4>2, SameFiles DEF RefusalAt
    <3> QED BY <1>1, <3>1, <3>2
  <2>2. call' = call
    BY <2>1 DEF OnlyCall
  <2>3. ASSUME NEW c \in DOMAIN call, c # d PROVE RefusalAt(c)'
    BY <2>1, <2>3, OthersRefusal DEF RefusalInv
  <2> QED BY <2>1, <2>2, <2>3, Zenon DEF RefusalInv
<1>2. CASE UNCHANGED vars
  BY <1>2, Zenon DEF vars, RefusalInv, RefusalAt, LonePatch, Apart, Others, Untouched, NoneFrom
<1> QED BY <1>1, <1>2 DEF Next

\* A patch of one file that no other call of the batch touches leaves the file as
\* it was if it is refused, wherever it fails: header, hunk, or place of a hunk
\* (tool_apply_patch computes the whole text before it opens the file).
THEOREM RefusedPatch == Spec => []RefusedIsHarmless
<1>1. Init => RefusalInv
  <2> SUFFICES ASSUME Init, NEW c \in DOMAIN call PROVE RefusalAt(c)
    BY DEF RefusalInv
  <2>1. pc = [x \in DOMAIN call |-> "start"] /\ file = InitFile
    BY Zenon DEF Init, InitCalls
  <2>2. pc[c] = "start" /\ Untouched(c)
    BY <2>1 DEF Untouched
  <2> QED BY <2>2 DEF RefusalAt
<1>2. RefusalInv => RefusedIsHarmless
  BY Zenon DEF RefusalInv, RefusalAt, RefusedIsHarmless, Done
<1> QED BY <1>1, <1>2, RefusalKept, Invariance, PTL DEF Spec
=============================================================================
