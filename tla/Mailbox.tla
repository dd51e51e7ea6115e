------------------------------- MODULE Mailbox -------------------------------
(* The mailbox of mailbox.c and the handlers of send_message, check_mailbox    *)
(* and clear_mailbox: one file per message in a directory that every agent and *)
(* subagent of the user shares, without a lock.  Nothing in the program marks  *)
(* a message as read, so every message in the directory is unread.             *)
EXTENDS HandlerCalls

CONSTANT MaxChecked   \* the room check_mailbox has for messages (64)

VARIABLE box   \* the message files: id -> [to, body, whole]; whole once it is written

Huge == "huge"   \* a body that makes the file of its message larger than 1 MB

Without(f, x) == [y \in DOMAIN f \ {x} |-> f[y]]
With(f, x, v) == [y \in DOMAIN f \cup {x} |-> IF y = x THEN v ELSE f[y]]

\* fopen(path, "w") under a fresh uuid creates the file, the text follows.  A call
\* without a body is refused, as is one whose file cannot be made.
SendCreate(c) ==
  /\ At(c, "start", "send_message")
  /\ \/ Answer(c, Refused) /\ UNCHANGED box
     \/ /\ call[c].body # "none"
        /\ box' = With(box, c, [to |-> call[c].to, body |-> call[c].body, whole |-> FALSE])
        /\ Goto(c, "write message", <<>>)

\* The file may have been removed in between; the reply says "sent" all the same.
SendWrite(c) ==
  /\ pc[c] = "write message"
  /\ box' = IF c \in DOMAIN box THEN [box EXCEPT ![c].whole = TRUE] ELSE box
  /\ Answer(c, Said(<<c>>))

\* The recipients a scan may compare with.  check_mailbox and clear_mailbox free
\* the arguments before they use the recipient in them: the memory then holds
\* any text, the recipient of a message just read among them.
Recipients(c) == IF call[c].to = "none" THEN {"agent"} ELSE {call[c].to, "garbage"} \cup
                                                             {box[id].to : id \in DOMAIN box}

\* Slip: a message for somebody else matches, too.
Matches_Slip(m, recipient) == TRUE

Matches(m, recipient) == recipient = "all" \/ m.to = "all" \/ m.to = recipient

\* opendir: the scan meets every file that is there from now until its end, and
\* may meet those that come and go.
ScanOpen(c) ==
  /\ At(c, "start", "check_mailbox") \/ At(c, "start", "clear_mailbox")
  /\ Goto(c, "scan", [must |-> DOMAIN box, met |-> {}, hit |-> {}, at |-> c])
  /\ UNCHANGED box

\* Slip: the messages for others take up room, too.
Full_Slip(c) == call[c].tool = "check_mailbox" /\ Cardinality(loc[c].met) >= MaxChecked

Full(c) == call[c].tool = "check_mailbox" /\ Cardinality(loc[c].hit) >= MaxChecked

\* msg_parse_file: an empty file and one larger than 1 MB are passed over.
Parses(m) == m.whole /\ m.body # Huge

\* An entry is read.
ScanEntry(c) ==
  /\ pc[c] = "scan" /\ ~Full(c)
  /\ \E id \in DOMAIN box \ loc[c].met : \E r \in Recipients(c) :
       LET hits == Parses(box[id]) /\ Matches(box[id], r)
           l == [loc[c] EXCEPT !.met = @ \cup {id}, !.at = id,
                               !.hit = IF hits THEN @ \cup {id} ELSE @]
       IN  Goto(c, IF hits /\ call[c].tool = "clear_mailbox" THEN "unlink" ELSE "scan", l)
  /\ UNCHANGED box

\* The message just read goes, counted whether or not the file was still there.
ScanUnlink(c) ==
  /\ pc[c] = "unlink"
  /\ box' = Without(box, loc[c].at)
  /\ Goto(c, "scan", loc[c])

ScanEnd(c) ==
  /\ pc[c] = "scan"
  /\ Full(c) \/ loc[c].must \cap DOMAIN box \subseteq loc[c].met
  /\ Answer(c, Said(loc[c].hit)) /\ UNCHANGED box

MailStep(c) == \/ SendCreate(c) \/ SendWrite(c) \/ ScanOpen(c) \/ ScanEntry(c)
               \/ ScanUnlink(c) \/ ScanEnd(c)
=============================================================================
