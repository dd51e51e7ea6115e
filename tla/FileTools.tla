------------------------------ MODULE FileTools ------------------------------
(* The handlers of read_file, write_file, edit and apply_patch.  A file is a   *)
(* sequence of lines; an edit looks for a run of lines where the program looks *)
(* for a string.  A handler that changes a file reads it, closes it, computes, *)
(* and opens it again for writing, which empties it: four steps during which   *)
(* any other thread, holding no lock either, may do the same.                  *)
EXTENDS HandlerCalls

CONSTANTS
  Fuzz,      \* how far a hunk may be from where its header says (4)
  ReadCap    \* how much of a file read_file shows, in lines (READ_FILE_CAP)

VARIABLE file   \* the files that exist: path -> sequence of lines

Min2(S) == CHOOSE x \in S : \A y \in S : x <= y

-----------------------------------------------------------------------------
(* edit                                                                        *)

\* The places where old occurs, as the number of lines before it.
Occurrences(text, old) ==
  {i \in 0 .. Len(text) - Len(old) : SubSeq(text, i + 1, i + Len(old)) = old}

Replace(text, i, n, new) == SubSeq(text, 1, i) \o new \o SubSeq(text, i + n + 1, Len(text))

\* Found, and not found again behind the first occurrence.
Unique(text, old) ==
  LET places == Occurrences(text, old)
  IN  places # {} /\ \A i \in places : i < Min2(places) + Len(old)

-----------------------------------------------------------------------------
(* apply_patch: hunks are [start, body], a body line is [tag, text]            *)

Tagged(h, tags) == SelectSeq(h.body, LAMBDA l : l.tag \in tags)
OldLines(h) == Tagged(h, {" ", "-"})
NewLines(h) == Tagged(h, {" ", "+"})
Texts(ls) == [i \in DOMAIN ls |-> ls[i].text]

\* Whether what the hunk expects stands at idx lines into the file.
patch_hunk_matches(lines, h, idx) ==
  \A k \in DOMAIN OldLines(h) :
    idx + k <= Len(lines) /\ idx + k >= 1 /\ lines[idx + k] = OldLines(h)[k].text

\* The candidates in the order they are tried: the exact place, then further away.
Places(lines, h, base) ==
  {p \in {base - d : d \in 0 .. Fuzz} \cup {base + d : d \in 0 .. Fuzz} :
     p >= 0 /\ p <= Len(lines) /\ patch_hunk_matches(lines, h, p)}

Nearest(ps, base) ==
  CHOOSE p \in ps : \A q \in ps :
    LET dp == IF p <= base THEN base - p ELSE p - base
        dq == IF q <= base THEN base - q ELSE q - base
    IN  dp < dq \/ (dp = dq /\ p <= q)

\* Slip: the hunks before do not move the hunks behind them.
patch_apply_hunk_Slip(s, h) ==
  LET ps == Places(s.lines, h, h.start - 1)
  IN  IF ~s.ok \/ ps = {} THEN [s EXCEPT !.ok = FALSE]
      ELSE [s EXCEPT !.lines = Replace(@, Nearest(ps, h.start - 1), Len(OldLines(h)),
                                       Texts(NewLines(h)))]

patch_apply_hunk(s, h) ==
  LET base == h.start - 1 + s.offset
      ps == Places(s.lines, h, base)
  IN  IF ~s.ok \/ ps = {} THEN [s EXCEPT !.ok = FALSE]
      ELSE [ok     |-> TRUE,
            lines  |-> Replace(s.lines, Nearest(ps, base), Len(OldLines(h)), Texts(NewLines(h))),
            offset |-> s.offset + Len(NewLines(h)) - Len(OldLines(h))]

Patched(lines, hunks) ==
  FoldLeft(patch_apply_hunk, [ok |-> TRUE, lines |-> lines, offset |-> 0], hunks)

\* The lines of a patch are "---" and "+++" with a path, "@@" with the start of a
\* hunk, "@?" for a header that sscanf does not match, "body" with a tag and a
\* text, "\\" for the end-of-file marker and "" for an empty line.  A deleted line
\* that begins with two dashes reads like a file header, and is taken for one.
Kind(l) == IF l.kind = "body" /\ l.tag = "-" /\ l.text = "-- dashes" THEN "---" ELSE l.kind
PathOf(l) == IF l.kind = "body" THEN l.text ELSE l.path

\* One line of a file section: a header opens a hunk, a body line goes to the last
\* one, empty lines and markers are skipped.
Collect(s, l) ==
  IF ~s.ok \/ l.kind \in {"", "\\"} THEN s
  ELSE IF l.kind = "@@" THEN [s EXCEPT !.hunks = Append(@, [start |-> l.start, body |-> <<>>])]
  ELSE IF l.kind = "@?" \/ s.hunks = <<>> THEN [s EXCEPT !.ok = FALSE]
  ELSE [s EXCEPT !.hunks[Len(s.hunks)].body = Append(@, [tag |-> l.tag, text |-> l.text])]

DevNull == "/dev/null"

\* The hunks in the lines of a section, from the first to the last.
Hunks(patch, first, last) ==
  FoldLeft(Collect, [ok |-> TRUE, hunks |-> <<>>], SubSeq(patch, first, last))

\* The file section that begins at or behind line i of the patch.
Section(patch, i, override) ==
  LET headers == {j \in i .. Len(patch) : Kind(patch[j]) = "---"}
      h == Min2(headers)
      e == Min2({j \in headers : j > h} \cup {Len(patch) + 1})
      paired == h < Len(patch) /\ patch[h + 1].kind = "+++"
      read == Hunks(patch, h + 2, e - 1)
  IN  IF headers = {} THEN [kind |-> "none", ok |-> TRUE, next |-> i, hunks |-> <<>>, path |-> "none"]
      ELSE IF ~paired THEN [kind |-> "bad", ok |-> FALSE, next |-> h, hunks |-> <<>>, path |-> "none"]
      ELSE LET old == PathOf(patch[h])
               new == PathOf(patch[h + 1])
           IN  [kind  |-> IF new = DevNull THEN "del" ELSE IF old = DevNull THEN "add" ELSE "update",
                ok    |-> read.ok /\ read.hunks # <<>>,
                next  |-> e,
                hunks |-> read.hunks,
                path  |-> IF override # "none" THEN override
                          ELSE IF old # DevNull /\ new = DevNull THEN old ELSE new]

\* What the hunks add to a new file.
Added(hunks) == FlattenSeq([i \in DOMAIN hunks |-> Texts(Tagged(hunks[i], {"+"}))])

-----------------------------------------------------------------------------
(* The handlers                                                                *)

Exists(path) == path \in DOMAIN file

\* The beginning of a long file, and a line that says so.
Shown(text) ==
  IF Len(text) <= ReadCap THEN text ELSE Append(SubSeq(text, 1, ReadCap), "... (showing first)")

ReadFile(c) ==
  /\ At(c, "start", "read_file")
  /\ Answer(c, IF Exists(call[c].path) THEN Said(Shown(file[call[c].path])) ELSE Refused)
  /\ UNCHANGED file

WriteFile(c) ==
  /\ At(c, "start", "write_file")
  /\ Goto(c, "open", [path |-> call[c].path, data |-> call[c].text, next |-> 0])
  /\ UNCHANGED file

Edit(c) ==
  /\ At(c, "start", "edit")
  /\ UNCHANGED file
  /\ LET k == call[c]
         text == file[k.path]
     IN  IF Exists(k.path) /\ Unique(text, k.old)
           THEN Goto(c, "open", [path |-> k.path, next |-> 0,
                                 data |-> Replace(text, Min2(Occurrences(text, k.old)),
                                                  Len(k.old), k.new)])
           ELSE Answer(c, Refused)

\* The next section of the patch; a section that fails ends the call and leaves
\* the files of the sections before it changed.
Patch(c) ==
  /\ At(c, "start", "apply_patch") \/ pc[c] = "next section"
  /\ LET from == IF pc[c] = "start" THEN 1 ELSE loc[c].next
         s == Section(call[c].patch, from, call[c].path)
         result == Patched(file[s.path], s.hunks)
         go(data) == Goto(c, "open", [path |-> s.path, data |-> data, next |-> s.next])
     IN  CASE s.kind = "none" -> Answer(c, Said(<<>>)) /\ UNCHANGED file
           [] s.kind # "none" /\ ~s.ok -> Answer(c, Refused) /\ UNCHANGED file
           [] s.kind = "del" /\ s.ok ->
                IF Exists(s.path)
                THEN /\ file' = [p \in DOMAIN file \ {s.path} |-> file[p]]
                     /\ Goto(c, "next section", [next |-> s.next])
                ELSE Answer(c, Refused) /\ UNCHANGED file
           [] s.kind = "add" /\ s.ok ->
                (IF Exists(s.path) THEN Answer(c, Refused) ELSE go(Added(s.hunks))) /\ UNCHANGED file
           [] OTHER ->
                (IF Exists(s.path) /\ result.ok THEN go(result.lines) ELSE Answer(c, Refused))
                /\ UNCHANGED file

\* Slip: the file is opened as it is.
Open_Slip(c) ==
  /\ pc[c] = "open"
  /\ file' = [p \in DOMAIN file \cup {loc[c].path} |-> IF p \in DOMAIN file THEN file[p] ELSE <<>>]
  /\ Goto(c, "fill", loc[c])

\* fopen(path, "w") empties the file, or makes it.
Open(c) ==
  /\ pc[c] = "open"
  /\ file' = [p \in DOMAIN file \cup {loc[c].path} |-> IF p = loc[c].path THEN <<>> ELSE file[p]]
  /\ Goto(c, "fill", loc[c])

\* A file that is there cannot be opened, or written, or deleted, or is larger than
\* apply_patch takes; or a new one cannot be made.
CannotOpen(c) ==
  /\ \/ At(c, "start", "read_file") \/ At(c, "start", "edit") \/ pc[c] = "open"
     \/ /\ At(c, "start", "apply_patch") \/ pc[c] = "next section"
        /\ LET from == IF pc[c] = "start" THEN 1 ELSE loc[c].next
           IN  Section(call[c].patch, from, call[c].path).kind \in {"del", "update"}
  /\ Answer(c, Refused)
  /\ UNCHANGED file

\* The text goes to the start of the file, over what another writer has put there
\* since; if the file was deleted in between the text goes nowhere.  What fputs and
\* fclose return is not looked at: the disk is assumed to have room.
Fill(c) ==
  /\ pc[c] = "fill"
  /\ LET p == loc[c].path
         n == Len(loc[c].data)
     IN  file' = IF Exists(p) THEN [file EXCEPT ![p] = loc[c].data \o SubSeq(@, n + 1, Len(@))]
                 ELSE file
  /\ IF loc[c].next > 0 THEN Goto(c, "next section", [next |-> loc[c].next])
     ELSE Answer(c, Said(<<>>))

FileStep(c) == ReadFile(c) \/ WriteFile(c) \/ Edit(c) \/ Patch(c) \/ Open(c) \/ Fill(c)
                 \/ CannotOpen(c)
=============================================================================
