------------------------------ MODULE LineEditor ------------------------------
(* The raw-mode line editor of utf8_input.c with the slash-command completer   *)
(* of main.c, over the bytes the terminal delivers.  A key is the sequence of  *)
(* bytes it sends; bytes typed ahead wait in the terminal's queue, and the     *)
(* editor reads them one at a time, except after an escape.                    *)
EXTENDS Integers, Sequences, SequencesExt

CONSTANTS
  Char,        \* the characters in use, each the sequence of its bytes
  Typed,       \* the characters the user types
  Encoding,    \* g_encoding: "UTF-8", "GBK" or "ASCII"
  Commands,    \* the slash commands and skill triggers, in the order they match
  HistoryMax,  \* HISTORY_MAX
  EscapeRead,  \* sizeof(seq)
  MaxKeys,     \* bound: keys typed in a behaviour
  Typeahead    \* bound: bytes waiting in the terminal's queue

VARIABLES
  mode,     \* "idle", "reading" or "closed": outside utf8_readline, inside, after NULL
  buf, cursor,         \* buf[0..len) and the byte position in it
  history, pos, saved, \* g_history, g_history_pos, g_saved_line (<<>> is NULL)
  pending,  \* the bytes in the terminal's queue
  answer,   \* what utf8_readline last returned: <<line>>, or <<>> for NULL
  keys      \* keys typed so far

vars == <<mode, buf, cursor, history, pos, saved, pending, answer, keys>>

Esc == 27
Key(name) == CASE name = "up" -> <<Esc, 91, 65>> [] name = "down"  -> <<Esc, 91, 66>>
               [] name = "right" -> <<Esc, 91, 67>> [] name = "left" -> <<Esc, 91, 68>>
               [] name = "enter" -> <<13>> [] name = "back" -> <<127>> [] name = "tab" -> <<9>>
               [] name = "ctrl-c" -> <<3>> [] name = "ctrl-d" -> <<4>> [] name = "escape" -> <<Esc>>
Keys == Typed \cup {Key(n) : n \in {"up", "down", "left", "right", "enter", "back", "tab",
                                    "ctrl-c", "ctrl-d", "escape"}}

-----------------------------------------------------------------------------
(* Positions in the buffer                                                     *)

encoding_char_len(c) ==
  CASE Encoding = "UTF-8" -> IF c < 128 THEN 1 ELSE IF c < 192 THEN 0
                             ELSE IF c < 224 THEN 2 ELSE IF c < 240 THEN 3
                             ELSE IF c < 248 THEN 4 ELSE 0
    [] Encoding = "GBK" -> IF c \in 129 .. 254 THEN 2 ELSE 1
    [] OTHER -> 1

\* The scan looks for UTF-8 continuation bytes whatever the encoding is.
Continuation(c) == c \in 128 .. 191

\* Slip: one byte back, as if every character were one byte.
cursor_prev_Slip(b, c) == IF c = 0 THEN 0 ELSE c - 1

cursor_prev(b, c) ==
  IF c = 0 THEN 0
  ELSE CHOOSE p \in 0 .. c - 1 : /\ p = 0 \/ ~Continuation(b[p + 1])
                                 /\ \A q \in p + 1 .. c - 1 : Continuation(b[q + 1])

cursor_next(b, c) ==
  LET n == encoding_char_len(b[c + 1])
      next == c + (IF n <= 0 THEN 1 ELSE n)
  IN  IF c >= Len(b) THEN Len(b) ELSE IF next > Len(b) THEN Len(b) ELSE next

-----------------------------------------------------------------------------
(* History and completion                                                      *)

history_add(h, l) ==
  CASE l = <<>> -> h
    [] h # <<>> /\ Last(h) = l -> h
    [] OTHER -> Append(IF Len(h) >= HistoryMax THEN Tail(h) ELSE h, l)

history_get(p) == IF p < 0 \/ p >= Len(history) THEN <<>> ELSE history[p + 1]

Slash == 47
Space == 32

\* What folding str_common_prefix over the matches leaves.
str_common_prefix(matches) == LongestCommonPrefix(matches)

\* <<>> is the NULL of a completer with nothing to say.
tab_complete(input) ==
  LET hits == {i \in DOMAIN Commands : IsPrefix(input, Commands[i])}
  IN  IF Head(input) # Slash \/ hits = {} THEN <<>>
      ELSE IF \E i \in hits : hits = {i}
      THEN Append(Commands[CHOOSE i \in hits : TRUE], Space)
      ELSE str_common_prefix({Commands[i] : i \in hits})

-----------------------------------------------------------------------------
(* The terminal and the calls of utf8_readline                                 *)

Init ==
  /\ mode = "idle" /\ buf = <<>> /\ cursor = 0
  /\ history = <<>> /\ pos = -1 /\ saved = <<>>
  /\ pending = <<>> /\ answer = <<>> /\ keys = 0

\* The user presses a key, whether or not anybody is reading.
Type ==
  /\ mode # "closed" /\ keys < MaxKeys
  /\ \E k \in Keys : /\ Len(pending) + Len(k) <= Typeahead
                     /\ pending' = pending \o k
  /\ keys' = keys + 1
  /\ UNCHANGED <<mode, buf, cursor, history, pos, saved, answer>>

\* term_raw_enable switches with TCSAFLUSH: what was typed ahead is gone.
Start ==
  /\ mode = "idle"
  /\ mode' = "reading" /\ buf' = <<>> /\ cursor' = 0 /\ pos' = -1 /\ saved' = <<>>
  /\ pending' = <<>>
  /\ UNCHANGED <<history, answer, keys>>

\* Every return frees the saved line and leaves raw mode with TCSAFLUSH.
Return(next, ans, h) ==
  /\ mode' = next /\ answer' = ans /\ history' = h
  /\ saved' = <<>> /\ pending' = <<>>
  /\ UNCHANGED <<buf, cursor, pos, keys>>

ReadFails == mode = "reading" /\ pending = <<>> /\ Return("closed", <<>>, history)

\* SIGINT while read waits: the line goes, the history position and the saved line stay.
Interrupted ==
  /\ mode = "reading" /\ pending = <<>>
  /\ buf' = <<>> /\ cursor' = 0
  /\ UNCHANGED <<mode, history, pos, saved, pending, answer, keys>>

\* The next byte is one of these.
Read(bytes) == mode = "reading" /\ pending # <<>> /\ Head(pending) \in bytes
Drop == pending' = Tail(pending)
Edit(b, c) == buf' = b /\ cursor' = c /\ UNCHANGED <<mode, history, answer, keys>>
Ignore == Edit(buf, cursor) /\ UNCHANGED <<pos, saved>>

Enter == Read({10, 13}) /\ Return("idle", <<buf>>, history_add(history, buf))

CtrlD == Read({4}) /\ buf = <<>> /\ Return("closed", <<>>, history)

CtrlC == Read({3}) /\ Return("idle", <<<<>>>>, history)

Backspace ==
  /\ Read({8, 127})
  /\ Drop
  /\ LET start == cursor_prev(buf, cursor)
     IN  IF cursor = 0 THEN Ignore
         ELSE /\ Edit(SubSeq(buf, 1, start) \o SubSeq(buf, cursor + 1, Len(buf)), start)
              /\ pos' = -1 /\ saved' = saved

Tab ==
  /\ Read({9}) /\ Drop
  /\ LET completion == tab_complete(buf)
         bell == Len(completion) <= Len(buf) /\ IsPrefix(buf, completion)
     IN  IF buf = <<>> \/ completion = <<>> \/ bell THEN Ignore
         ELSE Edit(completion, Len(completion)) /\ UNCHANGED <<pos, saved>>

\* Slip: the line under the cursor is saved at every step up.
Up_Slip ==
  IF history = <<>> \/ pos = 0 THEN Ignore
  ELSE /\ pos' = IF pos < 0 THEN Len(history) - 1 ELSE pos - 1
       /\ saved' = <<buf>>
       /\ Edit(history_get(pos'), Len(history_get(pos')))

Up ==
  IF history = <<>> \/ pos = 0 THEN Ignore
  ELSE /\ pos' = IF pos < 0 THEN Len(history) - 1 ELSE pos - 1
       /\ saved' = IF pos < 0 THEN <<buf>> ELSE saved
       /\ Edit(history_get(pos'), Len(history_get(pos')))

Down ==
  IF pos < 0 THEN Ignore
  ELSE IF pos < Len(history) - 1
  THEN pos' = pos + 1 /\ saved' = saved /\ Edit(history_get(pos + 1), Len(history_get(pos + 1)))
  ELSE LET l == IF saved # <<>> THEN saved[1] ELSE <<>>
       IN  pos' = -1 /\ saved' = <<>> /\ Edit(l, Len(l))

Left  == Edit(buf, cursor_prev(buf, cursor)) /\ UNCHANGED <<pos, saved>>
Right == Edit(buf, cursor_next(buf, cursor)) /\ UNCHANGED <<pos, saved>>

\* An escape reads on, up to EscapeRead bytes at once: whatever was typed behind
\* the sequence is swallowed with it.
Escape ==
  /\ Read({Esc}) /\ Len(pending) > 1
  /\ LET sn == IF Len(pending) - 1 < EscapeRead THEN Len(pending) - 1 ELSE EscapeRead
         seq == SubSeq(pending, 2, sn + 1)
         final == IF sn >= 2 /\ seq[1] = 91 THEN seq[2] ELSE 0
     IN  /\ pending' = SubSeq(pending, sn + 2, Len(pending))
         /\ CASE final = 65 -> Up [] final = 66 -> Down
              [] final = 67 -> Right [] final = 68 -> Left
              [] OTHER -> Ignore

\* A signal ends the wait behind a lone escape: the key is dropped, the flag stays set.
EscapeCut == Read({Esc}) /\ Len(pending) = 1 /\ Drop /\ Ignore

Insert ==
  /\ Read((32 .. 255) \ {127})
  /\ Edit(InsertAt(buf, cursor + 1, Head(pending)), cursor + 1)
  /\ Drop
  /\ pos' = -1
  /\ saved' = IF pos >= 0 THEN <<>> ELSE saved

\* A control byte nobody handles, and Ctrl-D on a line that is not empty.
Unused == Read({4}) /\ buf # <<>> /\ Drop /\ Ignore

Next == \/ Type \/ Start \/ ReadFails \/ Interrupted \/ Enter \/ CtrlD \/ CtrlC
        \/ Backspace \/ Tab \/ Escape \/ EscapeCut \/ Insert \/ Unused

Spec == Init /\ [][Next]_vars

-----------------------------------------------------------------------------
(* Properties                                                                  *)

\* The whole characters of a byte sequence and the bytes of an unfinished one.
Decode(bytes) ==
  LET d[i \in 0 .. Len(bytes)] ==
        IF i = 0 THEN [chars |-> <<>>, part |-> <<>>]
        ELSE LET prev == d[i - 1]
                 part == Append(prev.part, bytes[i])
             IN  IF part \in Char THEN [chars |-> Append(prev.chars, part), part |-> <<>>]
                 ELSE [prev EXCEPT !.part = part]
  IN  d[Len(bytes)]

Whole(bytes) == Decode(bytes).part = <<>>

Before == Decode(SubSeq(buf, 1, cursor))
After  == Decode(SubSeq(buf, cursor + 1, Len(buf)))

\* Nothing in the buffer is ever half a character: the cursor is between two
\* characters, and the only unfinished one is the one whose remaining bytes are
\* the next to be read.  Backspace, the arrows and a key that arrives in the
\* middle of a line all move by bytes (cursor_prev, cursor_next, the insertion).
WholeCharacters ==
  mode = "reading" =>
    /\ After.part = <<>>
    /\ Before.part = <<>> \/ \E c \in Char : IsPrefix(c, Before.part \o pending)

(* What the promise rests on, the text and the typing.                         *)
Byte == 0 .. 255

\* The scan by continuation bytes finds the characters: so it does in UTF-8 and in
\* ASCII, but not for a GBK character whose second byte is no continuation byte.
ScansBack(c) ==
  /\ c \in Seq(Byte) /\ c # <<>> /\ c[1] \in (32 .. 255) \ {127}
  /\ ~Continuation(c[1]) /\ Len(c) = encoding_char_len(c[1])
  /\ \A i \in 2 .. Len(c) : Continuation(c[i])

\* The common prefix of the commands is taken byte by byte, so they must part
\* between characters: the built-in ones do, and skill triggers in ASCII.
TextAssumption ==
  /\ \A c \in Char : ScansBack(c)
  /\ Typed \subseteq Char /\ <<Space>> \in Char
  /\ \A i \in DOMAIN Commands : Commands[i] \in Seq(Byte) /\ Whole(Commands[i])
  /\ \A S \in SUBSET {Commands[i] : i \in DOMAIN Commands} :
       S # {} => Whole(str_common_prefix(S))
  /\ HistoryMax \in Nat \ {0} /\ EscapeRead \in Nat

\* Never more typed ahead behind an escape than its one read takes in: the read
\* could stop inside a character, and the rest of it would be inserted.
EscapesSwallowAll ==
  mode = "reading" /\ pending # <<>> /\ Head(pending) = Esc
    => Len(pending) <= EscapeRead + 1

Reading == mode = "reading"
Text(l) == Decode(l).chars

\* The editor as its user sees it.
Line   == IF Reading THEN Before.chars \o After.chars ELSE <<>>
Column == IF Reading THEN Len(Before.chars) ELSE 0
Lines  == [i \in DOMAIN history |-> Text(history[i])]
Entry  == IF Reading THEN pos ELSE -1
Draft  == IF Reading /\ pos >= 0 /\ saved # <<>> THEN Text(saved[1]) ELSE <<>>
Reply  == [i \in DOMAIN answer |-> Text(answer[i])]

Editor == INSTANCE TextEditor WITH
  line <- Line, cursor <- Column, history <- Lines, pos <- Entry,
  draft <- Draft, answer <- Reply

\* On bytes, with typed-ahead keys, swallowed escape sequences, history browsing
\* and completion, the editor behaves as one that edits whole characters: in
\* particular a line left for the history comes back as it was.
ImplementsEditor == Editor!Spec
=============================================================================
