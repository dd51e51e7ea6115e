------------------------------ MODULE TextEditor ------------------------------
(* What the terminal line editor promises its user, over whole characters: a   *)
(* line with a cursor, a history that can be browsed and left again, and an    *)
(* answer for each prompt.  LineEditor, the editor of utf8_input.c over bytes, *)
(* is shown to implement it.                                                   *)
EXTENDS Integers, Sequences, SequencesExt

CONSTANTS Char, HistoryMax

VARIABLES mode,      \* "idle", "reading" or "closed"
          line,      \* the characters on the line
          cursor,    \* how many of them are before the cursor
          history,   \* the lines that can be recalled, oldest first
          pos,       \* the recalled entry, -1 on the line being written
          draft,     \* the line left to browse the history, <<>> when not browsing
          answer     \* what the last prompt returned: <<line>>, or <<>> at end of input

vars == <<mode, line, cursor, history, pos, draft, answer>>

Init ==
  /\ mode = "idle" /\ line = <<>> /\ cursor = 0
  /\ history = <<>> /\ pos = -1 /\ draft = <<>> /\ answer = <<>>

Prompt ==
  /\ mode = "idle"
  /\ mode' = "reading" /\ line' = <<>> /\ cursor' = 0 /\ pos' = -1 /\ draft' = <<>>
  /\ UNCHANGED <<history, answer>>

Put(l, c) == line' = l /\ cursor' = c /\ UNCHANGED <<mode, history, answer>>

Editing == mode = "reading"

\* A recalled line that is about to be edited becomes the line being written.
Adopt == Editing /\ Put(line, cursor) /\ pos' = -1 /\ draft' = <<>>

Write == /\ Editing
         /\ \E c \in Char : Put(InsertAt(line, cursor + 1, c), cursor + 1)
         /\ pos' = -1 /\ draft' = <<>>

Erase == /\ Editing /\ cursor > 0
         /\ Put(RemoveAt(line, cursor), cursor - 1)
         /\ pos' = -1 /\ draft' = <<>>

Move == /\ Editing
        /\ \E c \in {cursor - 1, cursor + 1} \cap (0 .. Len(line)) : Put(line, c)
        /\ UNCHANGED <<pos, draft>>

\* A completion only ever adds to what was written.
Complete == /\ Editing /\ line # <<>>
            /\ line' \in Seq(Char) /\ IsStrictPrefix(line, line') /\ cursor' = Len(line')
            /\ UNCHANGED <<mode, history, answer, pos, draft>>

Older == /\ Editing /\ history # <<>> /\ pos # 0
         /\ pos' = IF pos = -1 THEN Len(history) - 1 ELSE pos - 1
         /\ draft' = IF pos = -1 THEN line ELSE draft
         /\ Put(history[pos' + 1], Len(history[pos' + 1]))

\* Leaving the history at its newest end gives the draft back.
Newer == /\ Editing /\ pos >= 0
         /\ IF pos < Len(history) - 1
              THEN /\ pos' = pos + 1 /\ draft' = draft
                   /\ Put(history[pos' + 1], Len(history[pos' + 1]))
              ELSE pos' = -1 /\ draft' = <<>> /\ Put(draft, Len(draft))

Wipe == Editing /\ Put(<<>>, 0) /\ UNCHANGED <<pos, draft>>

\* The history keeps the last HistoryMax lines, without empty ones and repeats.
Remember(h, l) ==
  IF l = <<>> \/ (h # <<>> /\ Last(h) = l) THEN h
  ELSE IF Len(h) >= HistoryMax THEN Append(Tail(h), l) ELSE Append(h, l)

Leave(next, ans, h) ==
  /\ mode' = next /\ answer' = ans /\ history' = h
  /\ line' = <<>> /\ cursor' = 0 /\ pos' = -1 /\ draft' = <<>>

Submit  == Editing /\ Leave("idle", <<line>>, Remember(history, line))
Abandon == Editing /\ Leave("idle", <<<<>>>>, history)
Close   == Editing /\ Leave("closed", <<>>, history)

Next == \/ Prompt \/ Adopt \/ Write \/ Erase \/ Move \/ Complete \/ Older \/ Newer
        \/ Wipe \/ Submit \/ Abandon \/ Close

Spec == Init /\ [][Next]_vars
=============================================================================
