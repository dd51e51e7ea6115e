------------------------------ MODULE Repl_proofs ------------------------------
(***************************************************************************)
(* Proofs about Repl for any number of runs, inputs and requests: that the  *)
(* session in memory and its file are the transcript, through crashes and   *)
(* failed saves, and that its total counts every request once.              *)
(***************************************************************************)
EXTENDS Repl, SequenceTheorems, WellFoundedInduction, TLAPS

Message == [type : {"user", "assistant"}, n : Nat]
FileLine == Message \cup [type : {"metadata"}, requests : Nat]

Loaded(lines)   == session_load(1, lines).messages
Recorded(lines) == session_load(1, lines).requests

Typed ==
  /\ runs \in 0 .. MaxRuns /\ inputs \in Nat
  /\ counted \in Nat /\ last \in Nat /\ last <= counted
  /\ session \in [uuid : Nat, messages : Seq(Message), requests : Nat]
  /\ said \in [Uuids -> Seq(Message)] /\ kept \in [Uuids -> Seq(Message)]
  /\ spent \in [Uuids -> Nat] /\ dropped \in [Uuids -> Nat]
  /\ DOMAIN disk = Uuids
  /\ \A u \in Uuids : disk[u] # NoFile => disk[u] \in Seq(FileLine)

Flags == damaged \in [Uuids -> BOOLEAN]

\* The lines are a beginning of the file that holds the messages.
Beginning(lines, messages) ==
  /\ Len(lines) <= Len(messages) + 1
  /\ lines # <<>> => IsMetadata(lines[1])
  /\ \A i \in 2 .. Len(lines) : lines[i] = messages[i - 1]

Mine(u) == pc # "off" /\ u = Me

\* A session's file holds a beginning of what was said, and all of it unless
\* something went wrong or the session goes on; and what it counts is spent.
Whole(u) == Len(disk[u]) = Len(kept[u]) + 1
FileOf(u) ==
  disk[u] # NoFile =>
    /\ u <= runs
    /\ Beginning(disk[u], kept[u]) /\ Beginning(disk[u], said[u])
    /\ Whole(u) \/ damaged[u] \/ (pc = "saving" /\ u = Me)
    /\ kept[u] = said[u] \/ damaged[u] \/ (pc \in {"chat", "save"} /\ u = Me)
    /\ Recorded(disk[u]) + dropped[u] <= spent[u]
    /\ Recorded(disk[u]) + dropped[u] = spent[u] \/ damaged[u] \/ Mine(u)
FileInv == \A u \in Uuids : FileOf(u)

\* A session number not given yet has no history.
FreshInv == \A u \in Uuids : u > runs => said[u] = <<>> /\ spent[u] = 0 /\ dropped[u] = 0

\* The session in memory has counted at least what its file has, and between
\* turns just that.
Resting == {"prompt", "end", "rewrite", "rewriting"}
Total == session.requests + counted - last
RunInv ==
  pc # "off" =>
    /\ Me \in 1 .. runs /\ session.messages = said[Me]
    /\ Total + dropped[Me] <= spent[Me]
    /\ Total + dropped[Me] = spent[Me] \/ damaged[Me]
    /\ disk[Me] # NoFile =>
         /\ Recorded(disk[Me]) <= session.requests
         /\ pc \in Resting => Recorded(disk[Me]) = session.requests \/ damaged[Me]

\* What is left of the lines of a file follows what is there.
Pending(lines, rest, messages, count) ==
  /\ Beginning(lines, messages)
  /\ lines # <<>> => lines[1] = Metadata(count)
  /\ Len(lines) + Len(rest) = Len(messages) + 1
  /\ \A i \in DOMAIN rest : rest[i] = (<<Metadata(count)>> \o messages)[Len(lines) + i]

SaveInv ==
  pc = "saving" =>
    /\ kept[Me] = said[Me] /\ disk[Me] # NoFile /\ left \in Seq(FileLine)
    /\ Pending(disk[Me], left, session.messages, session.requests)

IInv == Typed /\ Flags /\ FileInv /\ FreshInv /\ RunInv /\ SaveInv
-----------------------------------------------------------------------------
(* What session_load makes of a file that session_save has begun to write.   *)

LEMMA SeqOfElements ==
  ASSUME NEW S, NEW T, NEW s \in Seq(T), \A i \in 1 .. Len(s) : s[i] \in S
  PROVE  s \in Seq(S)
<1>1. Len(s) \in Nat /\ s = [i \in 1 .. Len(s) |-> s[i]]
  BY LenProperties
<1> QED BY <1>1

LEMMA LoadsLines ==
  ASSUME NEW lines \in Seq(FileLine), NEW messages \in Seq(Message),
         Beginning(lines, messages)
  PROVE  /\ Loaded(lines) \in Seq(Message) /\ Recorded(lines) \in Nat
         /\ Len(lines) = 0 => Recorded(lines) = 0 /\ Len(Loaded(lines)) = 0
         /\ Len(lines) > 0 => /\ Recorded(lines) = lines[1].requests
                              /\ Len(Loaded(lines)) = Len(lines) - 1
         /\ Len(Loaded(lines)) <= Len(messages)
         /\ \A i \in 1 .. Len(Loaded(lines)) : Loaded(lines)[i] = messages[i]
<1>1. Len(lines) \in Nat /\ DOMAIN lines = 1 .. Len(lines)
      /\ Len(messages) \in Nat /\ DOMAIN messages = 1 .. Len(messages)
  BY LenProperties
<1>2. \A i \in 1 .. Len(lines) : lines[i] \in FileLine
  BY <1>1, ElementOfSeq
<1>3. \A i \in 1 .. Len(messages) : messages[i] \in Message
  BY <1>1, ElementOfSeq
<1>4. CASE lines = <<>>
  <2>1. Loaded(lines) = lines /\ Recorded(lines) = 0
    BY <1>4 DEF Loaded, Recorded, session_load, Session
  <2>2. Len(lines) = 0
    BY <1>4
  <2>3. lines \in Seq(Message)
    BY <1>4
  <2> QED BY <1>1, <2>1, <2>2, <2>3
<1>5. CASE lines # <<>>
  <2>1. Len(lines) > 0
    BY <1>1, <1>5, EmptySeq
  <2>2. IsMetadata(lines[1])
    BY <1>5, Zenon DEF Beginning
  <2>3. Loaded(lines) = Tail(lines) /\ Recorded(lines) = lines[1].requests
    BY <1>5, <2>2 DEF Loaded, Recorded, session_load, Session
  <2>4. Recorded(lines) \in Nat
    <3>1. lines[1] \in FileLine
      BY <1>1, <1>2, <2>1
    <3> QED BY <2>2, <2>3, <3>1 DEF FileLine, Message, IsMetadata
  <2>5. /\ Len(Tail(lines)) = Len(lines) - 1
        /\ \A i \in 1 .. Len(lines) - 1 : Tail(lines)[i] = lines[i + 1]
    BY <1>1, <1>5, <2>1, HeadTailProperties
  <2>6. \A i \in 1 .. Len(lines) - 1 : Tail(lines)[i] = messages[i] /\ i \in 1 .. Len(messages)
    <3> SUFFICES ASSUME NEW i \in 1 .. Len(lines) - 1
                 PROVE  Tail(lines)[i] = messages[i] /\ i \in 1 .. Len(messages)
      OBVIOUS
    <3>1. Tail(lines)[i] = lines[i + 1] /\ i + 1 \in 2 .. Len(lines) /\ i + 1 - 1 = i
      BY <1>1, <2>5
    <3>2. lines[i + 1] = messages[i + 1 - 1]
      BY <3>1 DEF Beginning
    <3>3. i \in 1 .. Len(messages)
      BY <1>1 DEF Beginning
    <3> QED BY <3>1, <3>2, <3>3
  <2>7. Tail(lines) \in Seq(Message)
    <3>1. Tail(lines) \in Seq(FileLine)
      BY <1>5, HeadTailProperties
    <3>2. \A i \in 1 .. Len(Tail(lines)) : Tail(lines)[i] \in Message
      BY <1>3, <2>5, <2>6
    <3> QED BY <3>1, <3>2, SeqOfElements
  <2>8. Len(lines) - 1 <= Len(messages)
    BY <1>1 DEF Beginning
  <2> QED BY <2>1, <2>3, <2>4, <2>5, <2>6, <2>7, <2>8
<1> QED BY <1>4, <1>5

\* What is loaded are the first messages, all of them from a whole file.
LEMMA LoadsBeginning ==
  ASSUME NEW lines \in Seq(FileLine), NEW messages \in Seq(Message),
         Beginning(lines, messages)
  PROVE  /\ IsPrefix(Loaded(lines), messages)
         /\ SubSeq(messages, 1, Len(Loaded(lines))) = Loaded(lines)
         /\ Len(lines) = Len(messages) + 1 => Loaded(lines) = messages
         /\ Beginning(lines, Loaded(lines))
<1> DEFINE m == Loaded(lines)
<1>1. /\ m \in Seq(Message) /\ Len(m) <= Len(messages)
      /\ Len(lines) > 0 => Len(m) = Len(lines) - 1
      /\ Len(lines) = 0 => Len(m) = 0
      /\ \A i \in 1 .. Len(m) : m[i] = messages[i]
  BY LoadsLines
<1>2. /\ Len(lines) \in Nat /\ Len(messages) \in Nat /\ Len(m) \in Nat
      /\ DOMAIN m = 1 .. Len(m) /\ DOMAIN messages = 1 .. Len(messages)
  BY <1>1, LenProperties
<1> HIDE DEF m
<1>3. SubSeq(messages, 1, Len(m)) = m
  <2>1. /\ SubSeq(messages, 1, Len(m)) \in Seq(Message)
        /\ Len(SubSeq(messages, 1, Len(m))) = Len(m)
        /\ \A i \in 1 .. Len(m) : SubSeq(messages, 1, Len(m))[i] = messages[i]
    BY <1>1, <1>2
  <2> QED BY <1>1, <1>2, <2>1, SeqEqual
<1>4. SubSeq(m, 1, Len(m)) = m
  <2>1. /\ SubSeq(m, 1, Len(m)) \in Seq(Message)
        /\ Len(SubSeq(m, 1, Len(m))) = Len(m)
        /\ \A i \in 1 .. Len(m) : SubSeq(m, 1, Len(m))[i] = m[i]
    BY <1>1, <1>2
  <2> QED BY <1>1, <1>2, <2>1, SeqEqual
<1>5. IsPrefix(m, messages)
  BY <1>1, <1>2, <1>3, <1>4 DEF IsPrefix
<1>6. ASSUME Len(lines) = Len(messages) + 1 PROVE m = messages
  <2>1. Len(m) = Len(messages)
    <3>1. Len(lines) > 0
      BY <1>2, <1>6
    <3>2. Len(m) = Len(lines) - 1
      BY <1>1, <3>1, Zenon
    <3> QED BY <1>2, <1>6, <3>2
  <2> QED BY <1>1, <1>2, <2>1, SeqEqual
<1>7. Beginning(lines, m)
  <2>1. Len(lines) <= Len(m) + 1
    BY <1>1, <1>2
  <2>2. \A i \in 2 .. Len(lines) : lines[i] = m[i - 1]
    <3> SUFFICES ASSUME NEW i \in 2 .. Len(lines) PROVE lines[i] = m[i - 1]
      OBVIOUS
    <3>1. lines[i] = messages[i - 1]
      BY Zenon DEF Beginning
    <3>2. i - 1 \in 1 .. Len(m)
      BY <1>1, <1>2
    <3> QED BY <1>1, <3>1, <3>2
  <2> QED BY <2>1, <2>2, Zenon DEF Beginning
<1> QED BY <1>3, <1>5, <1>6, <1>7, Zenon DEF m

\* A file stays a beginning when a message is added, and when its next line is.
LEMMA MoreSaid ==
  ASSUME NEW lines \in Seq(FileLine), NEW messages \in Seq(Message), NEW msg \in Message,
         Beginning(lines, messages)
  PROVE  Beginning(lines, Append(messages, msg))
<1>1. Len(lines) \in Nat /\ Len(messages) \in Nat
  BY LenProperties
<1>2. /\ Len(Append(messages, msg)) = Len(messages) + 1
      /\ \A i \in 1 .. Len(messages) : Append(messages, msg)[i] = messages[i]
  BY AppendProperties
<1>3. \A i \in 2 .. Len(lines) : i - 1 \in 1 .. Len(messages)
  BY <1>1 DEF Beginning
<1> QED BY <1>1, <1>2, <1>3 DEF Beginning

LEMMA MoreWritten ==
  ASSUME NEW lines \in Seq(FileLine), NEW messages \in Seq(Message), NEW count \in Nat,
         NEW rest \in Seq(FileLine), rest # <<>>,
         Pending(lines, rest, messages, count)
  PROVE  /\ Append(lines, Head(rest)) \in Seq(FileLine) /\ Append(lines, Head(rest)) # <<>>
         /\ Append(lines, Head(rest))[1] = Metadata(count) /\ Tail(rest) \in Seq(FileLine)
         /\ Pending(Append(lines, Head(rest)), Tail(rest), messages, count)
<1> DEFINE whole == <<Metadata(count)>> \o messages
           now == Append(lines, Head(rest))
           n == Len(lines)
           k == Len(rest)
<1>0. /\ Beginning(lines, messages)
      /\ lines # <<>> => lines[1] = Metadata(count)
      /\ n + k = Len(messages) + 1
      /\ \A i \in DOMAIN rest : rest[i] = whole[n + i]
  BY Zenon DEF Pending
<1>1. /\ n \in Nat /\ k \in Nat /\ Len(messages) \in Nat
      /\ DOMAIN lines = 1 .. n /\ DOMAIN rest = 1 .. k
  BY LenProperties
<1>2. k > 0 /\ n <= Len(messages)
  BY <1>0, <1>1, EmptySeq
<1>3. /\ Head(rest) \in FileLine /\ Tail(rest) \in Seq(FileLine) /\ Len(Tail(rest)) = k - 1
      /\ Head(rest) = rest[1] /\ \A i \in 1 .. k - 1 : Tail(rest)[i] = rest[i + 1]
  BY HeadTailProperties
<1>4. /\ now \in Seq(FileLine) /\ now # <<>> /\ Len(now) = n + 1 /\ now[n + 1] = Head(rest)
      /\ \A i \in 1 .. n : now[i] = lines[i]
  BY <1>3, AppendProperties
<1>5. whole[1] = Metadata(count) /\ \A i \in 2 .. Len(messages) + 1 : whole[i] = messages[i - 1]
  <2> SUFFICES ASSUME NEW x
               PROVE  /\ (<<x>> \o messages)[1] = x
                      /\ \A i \in 2 .. Len(messages) + 1 : (<<x>> \o messages)[i] = messages[i - 1]
    OBVIOUS
  <2>1. <<x>> \in Seq({x}) /\ Len(<<x>>) = 1 /\ <<x>>[1] = x
    OBVIOUS
  <2> QED BY <1>1, <2>1, ConcatProperties
<1>6. Head(rest) = whole[n + 1]
  BY <1>0, <1>1, <1>2, <1>3
<1>7. now[1] = Metadata(count)
  <2>1. CASE n = 0
    BY <1>4, <1>5, <1>6, <2>1
  <2>2. CASE n > 0
    <3>1. lines # <<>>
      BY <2>2, EmptySeq
    <3> QED BY <1>0, <1>1, <1>4, <2>2, <3>1
  <2> QED BY <1>1, <2>1, <2>2
<1>8. \A i \in 2 .. n + 1 : now[i] = messages[i - 1]
  <2> SUFFICES ASSUME NEW i \in 2 .. n + 1 PROVE now[i] = messages[i - 1]
    OBVIOUS
  <2>1. CASE i = n + 1
    <3>1. whole[i] = messages[i - 1]
      BY <1>1, <1>2, <1>5
    <3> QED BY <1>4, <1>6, <2>1, <3>1
  <2>2. CASE i \in 2 .. n
    <3>1. lines[i] = messages[i - 1]
      BY <1>0, <2>2, Zenon DEF Beginning
    <3> QED BY <1>1, <1>4, <2>2, <3>1
  <2> QED BY <1>1, <2>1, <2>2
<1>9. Beginning(now, messages)
  <2>1. IsMetadata(now[1])
    BY <1>7 DEF IsMetadata, Metadata
  <2>2. Len(now) <= Len(messages) + 1
    BY <1>1, <1>2, <1>4
  <2>3. \A i \in 2 .. Len(now) : now[i] = messages[i - 1]
    BY <1>4, <1>8
  <2> QED BY <2>1, <2>2, <2>3, Zenon DEF Beginning
<1>10. Len(now) + Len(Tail(rest)) = Len(messages) + 1
  BY <1>0, <1>1, <1>3, <1>4
<1>11. \A i \in DOMAIN Tail(rest) : Tail(rest)[i] = whole[Len(now) + i]
  <2> SUFFICES ASSUME NEW i \in 1 .. k - 1 PROVE Tail(rest)[i] = whole[Len(now) + i]
    BY <1>1, <1>3, LenProperties
  <2>1. rest[i + 1] = whole[n + (i + 1)]
    <3>1. i + 1 \in DOMAIN rest
      BY <1>1
    <3> QED BY <1>0, <3>1, Zenon
  <2>2. n + (i + 1) = Len(now) + i
    BY <1>1, <1>4
  <2> QED BY <1>3, <2>1, <2>2
<1> QED BY <1>3, <1>4, <1>7, <1>9, <1>10, <1>11, Zenon DEF Pending
-----------------------------------------------------------------------------
(* The invariant, with what each of its parts needs.                         *)

LEMMA FileTypes ==
  ASSUME Typed, NEW u \in Uuids, disk[u] # NoFile
  PROVE  disk[u] \in Seq(FileLine) /\ said[u] \in Seq(Message) /\ kept[u] \in Seq(Message)
BY DEF Typed

LEMMA LinesAreAFile == \A lines \in Seq(FileLine) : lines # NoFile
<1> SUFFICES ASSUME NEW lines \in Seq(FileLine), lines = NoFile PROVE FALSE
  OBVIOUS
<1>1. Len(NoFile) = 1 /\ NoFile[1].type = "no file"
  BY DEF NoFile
<1>2. DOMAIN lines = 1 .. 1
  BY <1>1, LenProperties
<1>3. lines[1] \in FileLine
  BY <1>2, ElementOfSeq
<1> QED BY <1>1, <1>3 DEF FileLine, Message

\* The step changes nothing of the session u.
SameHistory(u) ==
  /\ disk'[u] = disk[u] /\ said'[u] = said[u] /\ kept'[u] = kept[u]
  /\ spent'[u] = spent[u] /\ dropped'[u] = dropped[u] /\ (damaged'[u] <=> damaged[u])

\* It then leaves a session that is not the one in memory as it should be.
LEMMA OtherFile ==
  ASSUME Typed, NEW u \in Uuids, FileOf(u), SameHistory(u), ~Mine(u), runs' \in runs .. MaxRuns
  PROVE  FileOf(u)'
<1> SUFFICES ASSUME disk[u] # NoFile PROVE FileOf(u)'
  BY Zenon DEF FileOf, SameHistory
<1>1. /\ u <= runs
      /\ Beginning(disk[u], kept[u]) /\ Beginning(disk[u], said[u])
      /\ Whole(u) \/ damaged[u]
      /\ kept[u] = said[u] \/ damaged[u]
      /\ Recorded(disk[u]) + dropped[u] <= spent[u]
      /\ Recorded(disk[u]) + dropped[u] = spent[u] \/ damaged[u]
  <2>1. ~(pc = "saving" /\ u = Me) /\ ~(pc \in {"chat", "save"} /\ u = Me)
    BY DEF Mine
  <2> QED BY <2>1, Zenon DEF FileOf
<1>2. u <= runs'
  BY <1>1, BoundsAssumption DEF Typed, Uuids
<1> QED BY <1>1, <1>2, Zenon DEF FileOf, SameHistory, Whole

LEMMA OneSession ==
  ASSUME Typed, FileInv, FreshInv, runs' \in runs .. MaxRuns, NEW w \in Uuids, w <= runs',
         \A u \in Uuids \ {w} : SameHistory(u) /\ ~Mine(u), FileOf(w)'
  PROVE  FileInv' /\ FreshInv'
<1>1. \A u \in Uuids : u # w => FileOf(u)'
  BY OtherFile DEF FileInv
<1>2. FileInv'
  BY <1>1, Zenon DEF FileInv, Uuids
<1>3. FreshInv'
  <2> SUFFICES ASSUME NEW u \in Uuids, u > runs'
               PROVE  said'[u] = <<>> /\ spent'[u] = 0 /\ dropped'[u] = 0
    BY Zenon DEF FreshInv, Uuids
  <2>1. u # w /\ u > runs
    BY BoundsAssumption DEF Typed, Uuids
  <2>2. said[u] = <<>> /\ spent[u] = 0 /\ dropped[u] = 0
    BY <2>1, Zenon DEF FreshInv
  <2> QED BY <2>1, <2>2, Zenon DEF SameHistory
<1> QED BY <1>2, <1>3

\* What holds of the session in memory.
LEMMA Running ==
  ASSUME IInv, pc # "off"
  PROVE  /\ Me \in Uuids /\ Me \in 1 .. runs /\ runs \in 0 .. MaxRuns
         /\ session = [uuid |-> Me, messages |-> session.messages, requests |-> session.requests]
         /\ session.messages = said[Me] /\ said[Me] \in Seq(Message) /\ kept[Me] \in Seq(Message)
         /\ session.requests \in Nat /\ counted \in Nat /\ last \in Nat /\ last <= counted
         /\ spent[Me] \in Nat /\ dropped[Me] \in Nat
         /\ session.requests + counted - last + dropped[Me] <= spent[Me]
         /\ session.requests + counted - last + dropped[Me] = spent[Me] \/ damaged[Me]
<1>1. Typed /\ RunInv
  BY Zenon DEF IInv
<1>2. runs \in 0 .. MaxRuns /\ Me \in 1 .. runs /\ Me \in Uuids
  BY <1>1, BoundsAssumption DEF Typed, RunInv, Uuids
<1>3. session.messages = said[Me] /\ Total + dropped[Me] <= spent[Me]
      /\ (Total + dropped[Me] = spent[Me] \/ damaged[Me])
  BY <1>1, Zenon DEF RunInv
<1>4. /\ said[Me] \in Seq(Message) /\ kept[Me] \in Seq(Message)
      /\ counted \in Nat /\ last \in Nat /\ last <= counted
      /\ spent[Me] \in Nat /\ dropped[Me] \in Nat
  BY <1>1, <1>2 DEF Typed
<1>5. session \in [uuid : Nat, messages : Seq(Message), requests : Nat]
  BY <1>1, Zenon DEF Typed
<1>6. session = [uuid |-> Me, messages |-> session.messages, requests |-> session.requests]
      /\ session.requests \in Nat
  BY <1>5 DEF Me
<1> QED BY <1>2, <1>3, <1>4, <1>6, Zenon DEF Total

\* And of its file.
LEMMA RunningFile ==
  ASSUME IInv, pc # "off", disk[Me] # NoFile
  PROVE  /\ disk[Me] \in Seq(FileLine) /\ Recorded(disk[Me]) \in Nat
         /\ Beginning(disk[Me], kept[Me]) /\ Beginning(disk[Me], said[Me])
         /\ Whole(Me) \/ damaged[Me] \/ pc = "saving"
         /\ kept[Me] = said[Me] \/ damaged[Me] \/ pc \in {"chat", "save"}
         /\ Recorded(disk[Me]) + dropped[Me] <= spent[Me]
         /\ Recorded(disk[Me]) <= session.requests
         /\ pc \in Resting => Recorded(disk[Me]) = session.requests \/ damaged[Me]
<1>1. Typed /\ FileInv /\ RunInv /\ Me \in Uuids
  BY Running DEF IInv
<1>2. disk[Me] \in Seq(FileLine) /\ said[Me] \in Seq(Message)
  BY <1>1, FileTypes
<1>3. /\ Beginning(disk[Me], kept[Me]) /\ Beginning(disk[Me], said[Me])
      /\ Whole(Me) \/ damaged[Me] \/ pc = "saving"
      /\ kept[Me] = said[Me] \/ damaged[Me] \/ pc \in {"chat", "save"}
      /\ Recorded(disk[Me]) + dropped[Me] <= spent[Me]
  BY <1>1, Zenon DEF FileInv, FileOf
<1>4. Recorded(disk[Me]) \in Nat
  BY <1>2, <1>3, LoadsLines
<1>5. /\ Recorded(disk[Me]) <= session.requests
      /\ pc \in Resting => Recorded(disk[Me]) = session.requests \/ damaged[Me]
  BY <1>1, Zenon DEF RunInv
<1> QED BY <1>2, <1>3, <1>4, <1>5, Zenon
-----------------------------------------------------------------------------
(* The steps.                                                                *)

\* Steps that concern neither a session nor its file.
Elsewhere ==
  /\ UNCHANGED <<disk, session, counted, last, inputs>> /\ UNCHANGED history
  /\ runs' \in runs .. MaxRuns
  /\ \/ pc' = pc /\ (pc = "saving" => left' = left)
     \/ pc \in Resting /\ pc' \in Resting

LEMMA ElsewhereKeeps == IInv /\ Elsewhere => IInv'
<1> SUFFICES ASSUME IInv, Elsewhere PROVE IInv'
  OBVIOUS
<1>1. Typed /\ Flags /\ FileInv /\ FreshInv /\ RunInv /\ SaveInv
  BY Zenon DEF IInv
<1>2. /\ disk' = disk /\ session' = session /\ counted' = counted /\ last' = last
      /\ inputs' = inputs /\ said' = said /\ spent' = spent /\ dropped' = dropped
      /\ kept' = kept /\ damaged' = damaged
  BY DEF Elsewhere, history
<1>3. /\ (pc' = "off") <=> (pc = "off")
      /\ pc' = "saving" => pc = "saving" /\ left' = left
      /\ (pc = "saving") => pc' = "saving"
      /\ pc \in {"chat", "save"} => pc' \in {"chat", "save"}
      /\ pc' \in Resting => pc \in Resting
  BY DEF Elsewhere, Resting
<1>4. runs \in Nat /\ runs' \in Nat /\ runs <= runs' /\ runs' <= MaxRuns
  BY <1>1, BoundsAssumption DEF Typed, Elsewhere
<1>5. Typed'
  <2>1. runs' \in 0 .. MaxRuns
    BY <1>4, BoundsAssumption
  <2> QED BY <1>1, <1>2, <2>1, Zenon DEF Typed, Uuids
<1>6. Flags'
  BY <1>1, <1>2, Zenon DEF Flags, Uuids
<1>7. FileInv'
  <2> SUFFICES ASSUME NEW u \in Uuids PROVE FileOf(u)'
    BY Zenon DEF FileInv, Uuids
  <2>1. FileOf(u)
    BY <1>1, Zenon DEF FileInv
  <2>2. u <= runs => u <= runs'
    BY <1>4 DEF Uuids
  <2> QED BY <1>2, <1>3, <2>1, <2>2, Zenon DEF FileOf, Whole, Mine, Me
<1>8. FreshInv'
  <2>1. \A u \in Uuids : u > runs' => u > runs
    BY <1>4 DEF Uuids
  <2> QED BY <1>1, <1>2, <2>1, Zenon DEF FreshInv, Uuids
<1>9. RunInv'
  <2>1. Me \in 1 .. runs => Me \in 1 .. runs'
    BY <1>4
  <2> QED BY <1>1, <1>2, <1>3, <2>1, Zenon DEF RunInv, Total, Me
<1>10. SaveInv'
  BY <1>1, <1>2, <1>3, Zenon DEF SaveInv, Me
<1> QED BY <1>5, <1>6, <1>7, <1>8, <1>9, <1>10, Zenon DEF IInv

LEMMA ElsewhereSteps ==
  ASSUME IInv,
         \/ \E args \in Arguments : StartRefused(args)
         \/ \E i \in DOMAIN cfg.models : SwitchModel(cfg.models[i].name)
         \/ \E i \in DOMAIN Presets : ConfigRead(Presets[i].provider)
         \/ Rewrite \/ ConfigWrite
  PROVE  Elsewhere
<1>1. runs \in 0 .. MaxRuns /\ runs \in runs .. MaxRuns
  BY BoundsAssumption DEF IInv, Typed
<1>2. ASSUME NEW args \in Arguments, StartRefused(args) PROVE Elsewhere
  <2>1. runs + 1 \in runs .. MaxRuns
    BY <1>1, <1>2, BoundsAssumption DEF StartRefused
  <2> QED BY <1>2, <2>1 DEF StartRefused, Elsewhere
<1>3. ASSUME NEW name, SwitchModel(name) PROVE Elsewhere
  BY <1>1, <1>3 DEF SwitchModel, Elsewhere, Resting
<1>4. ASSUME NEW provider, ConfigRead(provider) PROVE Elsewhere
  BY <1>1, <1>4 DEF ConfigRead, Elsewhere
<1>5. CASE Rewrite
  BY <1>1, <1>5 DEF Rewrite, Elsewhere, Resting
<1>6. CASE ConfigWrite
  BY <1>1, <1>6 DEF ConfigWrite, Elsewhere
<1> QED BY <1>2, <1>3, <1>4, <1>5, <1>6

LEMMA StartKeeps ==
  ASSUME IInv, NEW args, NEW uuid \in Uuids, NEW enabled, NEW failing,
         Start(args, uuid, enabled, failing)
  PROVE  IInv'
<1>0. PICK w : w = session'.uuid
  OBVIOUS
<1>1. Typed /\ Flags /\ FileInv /\ FreshInv
  BY Zenon DEF IInv
<1>2. /\ pc = "off" /\ pc' = "prompt" /\ runs' = runs + 1 /\ runs < MaxRuns
      /\ session' = IF disk[uuid] # NoFile THEN session_load(uuid, disk[uuid])
                    ELSE Session(runs', <<>>, 0)
      /\ said' = [said EXCEPT ![w] = IF damaged[w] THEN SubSeq(@, 1, Len(session'.messages)) ELSE @]
      /\ counted' = 0 /\ last' = 0
      /\ disk' = disk /\ inputs' = inputs /\ spent' = spent /\ dropped' = dropped
      /\ kept' = kept /\ damaged' = damaged
  BY <1>0, Zenon DEF Start
<1>3. /\ runs \in Nat /\ runs' \in 1 .. MaxRuns /\ runs' \in Uuids /\ runs' \in runs .. MaxRuns
      /\ runs' \in 0 .. MaxRuns /\ runs' > runs /\ uuid \in Nat
  BY <1>1, <1>2, BoundsAssumption DEF Typed, Uuids
<1>4. ASSUME NEW u \in Uuids
      PROVE  /\ said[u] \in Seq(Message) /\ kept[u] \in Seq(Message)
             /\ spent[u] \in Nat /\ dropped[u] \in Nat
  BY <1>1 DEF Typed
<1>5. /\ w \in Uuids /\ w \in 1 .. runs'
      /\ session' = [uuid |-> w, messages |-> session'.messages, requests |-> session'.requests]
      /\ session'.messages \in Seq(Message) /\ session'.requests \in Nat
      /\ session'.requests + dropped[w] <= spent[w]
      /\ session'.requests + dropped[w] = spent[w] \/ damaged[w]
      /\ disk[w] # NoFile =>
           /\ Beginning(disk[w], kept[w]) /\ Beginning(disk[w], session'.messages)
           /\ Whole(w) \/ damaged[w]
           /\ kept[w] = session'.messages \/ damaged[w]
           /\ Recorded(disk[w]) = session'.requests
      /\ said'[w] = session'.messages
  <2>1. CASE disk[uuid] # NoFile
    <3>1. disk[uuid] \in Seq(FileLine) /\ said[uuid] \in Seq(Message) /\ kept[uuid] \in Seq(Message)
      BY <1>1, <2>1, FileTypes
    <3>2. /\ uuid <= runs
          /\ Beginning(disk[uuid], kept[uuid]) /\ Beginning(disk[uuid], said[uuid])
          /\ Whole(uuid) \/ damaged[uuid]
          /\ kept[uuid] = said[uuid] \/ damaged[uuid]
          /\ Recorded(disk[uuid]) + dropped[uuid] <= spent[uuid]
          /\ Recorded(disk[uuid]) + dropped[uuid] = spent[uuid] \/ damaged[uuid]
      <4>1. ~(pc = "saving" /\ uuid = Me) /\ ~(pc \in {"chat", "save"} /\ uuid = Me) /\ ~Mine(uuid)
        BY <1>2 DEF Mine
      <4> QED BY <1>1, <2>1, <4>1, Zenon DEF FileInv, FileOf
    <3>3. session' = Session(uuid, Loaded(disk[uuid]), Recorded(disk[uuid]))
      BY <1>2, <2>1 DEF Loaded, Recorded, session_load, Session
    <3>4. w = uuid /\ session'.messages = Loaded(disk[uuid])
          /\ session'.requests = Recorded(disk[uuid])
          /\ session' = [uuid |-> uuid, messages |-> Loaded(disk[uuid]),
                         requests |-> Recorded(disk[uuid])]
      BY <1>0, <3>3 DEF Session
    <3>5. Loaded(disk[uuid]) \in Seq(Message) /\ Recorded(disk[uuid]) \in Nat
      BY <3>1, <3>2, LoadsLines
    <3>6. /\ SubSeq(said[uuid], 1, Len(Loaded(disk[uuid]))) = Loaded(disk[uuid])
          /\ Beginning(disk[uuid], Loaded(disk[uuid]))
      BY <3>1, <3>2, LoadsBeginning
    <3>7. Whole(uuid) => Loaded(disk[uuid]) = kept[uuid]
      BY <3>1, <3>2, LoadsBeginning DEF Whole
    <3>8. said'[uuid] = IF damaged[uuid] THEN SubSeq(said[uuid], 1, Len(Loaded(disk[uuid])))
                        ELSE said[uuid]
      BY <1>1, <1>2, <3>4 DEF Typed
    <3>9. said'[uuid] = Loaded(disk[uuid])
      BY <3>2, <3>6, <3>7, <3>8, Zenon
    <3>10. w \in 1 .. runs'
      BY <1>3, <3>2, <3>4 DEF Uuids
    <3> QED BY <3>2, <3>4, <3>5, <3>6, <3>7, <3>9, <3>10, Zenon
  <2>2. CASE disk[uuid] = NoFile
    <3>1. session' = Session(runs', <<>>, 0)
      BY <1>2, <2>2, Zenon
    <3>2. session' = [uuid |-> runs', messages |-> <<>>, requests |-> 0]
          /\ w = runs' /\ session'.messages = <<>> /\ session'.requests = 0
      BY <1>0, <3>1 DEF Session
    <3>3. said[runs'] = <<>> /\ spent[runs'] = 0 /\ dropped[runs'] = 0
      BY <1>1, <1>3, Zenon DEF FreshInv
    <3>4. disk[runs'] = NoFile
      <4>1. ~(runs' <= runs)
        BY <1>3
      <4> QED BY <1>1, <1>3, <4>1, Zenon DEF FileInv, FileOf
    <3>5. said'[runs'] = <<>>
      <4>1. SubSeq(<<>>, 1, Len(<<>>)) = <<>>
        OBVIOUS
      <4>2. said'[runs'] = IF damaged[runs'] THEN SubSeq(<<>>, 1, Len(<<>>)) ELSE <<>>
        BY <1>1, <1>2, <1>3, <3>2, <3>3 DEF Typed
      <4> QED BY <4>1, <4>2, Zenon
    <3>6. <<>> \in Seq(Message) /\ 0 \in Nat /\ 0 + 0 <= 0 /\ 0 + 0 = 0 /\ runs' \in 1 .. runs'
      BY <1>3
    <3> QED BY <1>3, <3>2, <3>3, <3>4, <3>5, <3>6, Zenon
  <2> QED BY <2>1, <2>2
<1>6. \A u \in Uuids : u # w => said'[u] = said[u]
  BY <1>1, <1>2 DEF Typed
<1>7. Typed'
  <2>1. said' \in [Uuids -> Seq(Message)]
    <3>1. DOMAIN said' = Uuids /\ said' = [u \in Uuids |-> said'[u]]
      BY <1>1, <1>2 DEF Typed
    <3>2. \A u \in Uuids : said'[u] \in Seq(Message)
      BY <1>4, <1>5, <1>6
    <3> QED BY <3>1, <3>2
  <2>2. session' \in [uuid : Nat, messages : Seq(Message), requests : Nat]
    <3>1. w \in Nat
      BY <1>5
    <3> QED BY <1>5, <3>1
  <2>3. 0 \in Nat /\ 0 <= 0
    OBVIOUS
  <2> QED BY <1>1, <1>2, <1>3, <2>1, <2>2, <2>3, Zenon DEF Typed, Uuids
<1>8. Flags'
  BY <1>1, <1>2, Zenon DEF Flags, Uuids
<1>9. FileOf(w)'
  <2>1. w <= runs'
    BY <1>3, <1>5
  <2>2. Mine(w)'
    BY <1>0, <1>2 DEF Mine, Me
  <2> QED BY <1>2, <1>5, <2>1, <2>2, Zenon DEF FileOf, Whole
<1>10. FileInv' /\ FreshInv'
  <2>1. \A u \in Uuids \ {w} : SameHistory(u) /\ ~Mine(u)
    BY <1>2, <1>6 DEF SameHistory, Mine
  <2>2. w <= runs'
    BY <1>3, <1>5
  <2> QED BY <1>1, <1>3, <1>5, <1>9, <2>1, <2>2, OneSession
<1>11. RunInv'
  <2>1. session'.requests + 0 - 0 = session'.requests
    BY <1>5
  <2>2. session'.requests <= session'.requests
    BY <1>5
  <2> QED BY <1>0, <1>2, <1>5, <2>1, <2>2, Zenon DEF RunInv, Total, Me
<1>12. SaveInv'
  BY <1>2 DEF SaveInv
<1> QED BY <1>7, <1>8, <1>10, <1>11, <1>12, Zenon DEF IInv

\* The files, when a step concerns the session in memory only.
LEMMA OtherSessions ==
  ASSUME IInv, pc # "off", runs' = runs,
         \A u \in Uuids : u # Me => SameHistory(u), NEW w, w = Me, FileOf(w)'
  PROVE  FileInv' /\ FreshInv'
<1>1. Typed /\ FileInv /\ FreshInv
  BY Zenon DEF IInv
<1>2. w \in Uuids /\ w \in 1 .. runs /\ runs \in 0 .. MaxRuns
  BY Running
<1>3. runs' \in runs .. MaxRuns /\ w <= runs'
  BY <1>2, BoundsAssumption
<1>4. \A u \in Uuids \ {w} : SameHistory(u) /\ ~Mine(u)
  BY DEF Mine
<1> QED BY <1>1, <1>2, <1>3, <1>4, OneSession

LEMMA AddsMessage ==
  ASSUME NEW u, NEW messages \in Seq(Message), NEW n, NEW msg \in Message
  PROVE  /\ session_add_message(Session(u, messages, n), msg) = Session(u, Append(messages, msg), n)
         /\ Append(messages, msg) \in Seq(Message)
BY DEF session_add_message, Session

LEMMA TracksUsage ==
  \A u, messages, n, now, before :
    session_track_usage(Session(u, messages, n), now, before)
      = Session(u, messages, n + now - before)
BY DEF session_track_usage, Session

LEMMA InputKeeps ==
  ASSUME IInv, Input
  PROVE  IInv'
<1>1. Typed /\ Flags /\ RunInv
  BY Zenon DEF IInv
<1>2. PICK w : w = Me
  OBVIOUS
<1>3. PICK msg : /\ msg = [type |-> "user", n |-> inputs']
                 /\ session' = session_add_message(session, msg)
                 /\ said' = [said EXCEPT ![w] = Append(@, msg)]
  BY <1>2, Zenon DEF Input
<1>4. /\ pc = "prompt" /\ pc' = "chat" /\ inputs' = inputs + 1
      /\ disk' = disk /\ counted' = counted /\ last' = last /\ runs' = runs
      /\ spent' = spent /\ dropped' = dropped /\ kept' = kept /\ damaged' = damaged
  BY Zenon DEF Input, history
<1>5. inputs' \in Nat /\ msg \in Message
  BY <1>1, <1>3, <1>4 DEF Typed, Message
<1>6. /\ w \in Uuids /\ w \in 1 .. runs
      /\ session = [uuid |-> w, messages |-> session.messages, requests |-> session.requests]
      /\ session.messages = said[w] /\ said[w] \in Seq(Message) /\ session.requests \in Nat
  BY <1>2, <1>4, Running
<1>7. /\ session'.uuid = w /\ session'.messages = Append(said[w], msg)
      /\ session'.requests = session.requests
      /\ session' \in [uuid : Nat, messages : Seq(Message), requests : Nat]
  <2>1. session = Session(w, said[w], session.requests)
    BY <1>6 DEF Session
  <2>2. session' = Session(w, Append(said[w], msg), session.requests)
        /\ Append(said[w], msg) \in Seq(Message)
    BY <1>3, <1>5, <1>6, <2>1, AddsMessage
  <2>3. w \in Nat
    BY <1>6
  <2> QED BY <1>6, <2>2, <2>3 DEF Session
<1>8. said'[w] = Append(said[w], msg) /\ \A u \in Uuids : u # w => said'[u] = said[u]
  BY <1>1, <1>3, <1>6 DEF Typed
<1>9. Typed'
  <2>1. said' \in [Uuids -> Seq(Message)]
    BY <1>1, <1>3, <1>5, <1>6 DEF Typed
  <2> QED BY <1>1, <1>4, <1>5, <1>7, <2>1, Zenon DEF Typed, Uuids
<1>10. Flags'
  BY <1>1, <1>4, Zenon DEF Flags, Uuids
<1>11. FileInv' /\ FreshInv'
  <2>1. FileOf(w)'
    <3> SUFFICES ASSUME disk[w] # NoFile PROVE FileOf(w)'
      BY <1>4, Zenon DEF FileOf
    <3>1. /\ disk[w] \in Seq(FileLine)
          /\ Beginning(disk[w], kept[w]) /\ Beginning(disk[w], said[w])
          /\ Whole(w) \/ damaged[w] \/ pc = "saving"
          /\ Recorded(disk[w]) + dropped[w] <= spent[w]
      BY <1>2, <1>4, RunningFile
    <3>2. Beginning(disk[w], said'[w])
      BY <1>5, <1>6, <1>8, <3>1, MoreSaid
    <3>3. Mine(w)' /\ pc' \in {"chat", "save"} /\ w = Me'
      BY <1>4, <1>7 DEF Mine, Me
    <3>4. Whole(w) \/ damaged[w]
      BY <1>4, <3>1
    <3>5. w <= runs
      BY <1>6
    <3> QED BY <1>4, <3>1, <3>2, <3>3, <3>4, <3>5, Zenon DEF FileOf, Whole, Me
  <2>2. \A u \in Uuids : u # w => SameHistory(u)
    BY <1>4, <1>8, Zenon DEF SameHistory
  <2>3. pc # "off"
    BY <1>4
  <2> QED BY <1>2, <1>4, <2>1, <2>2, <2>3, OtherSessions
<1>12. RunInv'
  <2>1. pc # "off" /\ ~(pc' \in Resting)
    BY <1>4 DEF Resting
  <2> QED BY <1>1, <1>2, <1>4, <1>6, <1>7, <1>8, <2>1, Zenon DEF RunInv, Total, Me
<1>13. SaveInv'
  BY <1>4 DEF SaveInv
<1> QED BY <1>9, <1>10, <1>11, <1>12, <1>13, Zenon DEF IInv

LEMMA TurnEndsKeeps ==
  ASSUME IInv, NEW answered \in BOOLEAN, NEW requests \in 0 .. MaxRequests,
         TurnEnds(answered, requests)
  PROVE  IInv'
<1>1. Typed /\ Flags /\ RunInv
  BY Zenon DEF IInv
<1>2. PICK w : w = Me
  OBVIOUS
<1>3. PICK msg, s :
        /\ msg = [type |-> "assistant", n |-> inputs]
        /\ s = IF answered THEN session_add_message(session, msg) ELSE session
        /\ session' = session_track_usage(s, counted', last)
        /\ said' = IF answered THEN [said EXCEPT ![w] = Append(@, msg)] ELSE said
  BY <1>2, Zenon DEF TurnEnds
<1>4. /\ pc = "chat" /\ pc' = "save" /\ counted' = counted + requests /\ last' = counted'
      /\ disk' = disk /\ inputs' = inputs /\ runs' = runs
      /\ spent' = [spent EXCEPT ![w] = @ + requests]
      /\ dropped' = dropped /\ kept' = kept /\ damaged' = damaged
  BY <1>2, Zenon DEF TurnEnds, Tracked, history
<1>5. msg \in Message /\ requests \in Nat
  BY <1>1, <1>3, BoundsAssumption DEF Typed, Message
<1>6. /\ w \in Uuids /\ w \in 1 .. runs
      /\ session = [uuid |-> w, messages |-> session.messages, requests |-> session.requests]
      /\ session.messages = said[w] /\ said[w] \in Seq(Message) /\ session.requests \in Nat
      /\ counted \in Nat /\ last \in Nat /\ last <= counted
      /\ spent[w] \in Nat /\ dropped[w] \in Nat
      /\ session.requests + counted - last + dropped[w] <= spent[w]
  BY <1>2, <1>4, Running
<1>17. session.requests + counted - last + dropped[w] = spent[w] \/ damaged[w]
  BY <1>2, <1>4, Running
<1>7. /\ said'[w] \in Seq(Message) /\ said' \in [Uuids -> Seq(Message)]
      /\ said'[w] = said[w] \/ said'[w] = Append(said[w], msg)
      /\ \A u \in Uuids : u # w => said'[u] = said[u]
      /\ s = Session(w, said'[w], session.requests)
  <2>1. session = Session(w, said[w], session.requests)
    BY <1>6 DEF Session
  <2>2. CASE answered
    <3>1. said' = [said EXCEPT ![w] = Append(said[w], msg)] /\ s = session_add_message(session, msg)
      BY <1>3, <2>2
    <3>2. s = Session(w, Append(said[w], msg), session.requests)
          /\ Append(said[w], msg) \in Seq(Message)
      BY <1>5, <1>6, <2>1, <3>1, AddsMessage
    <3>3. /\ said'[w] = Append(said[w], msg) /\ said' \in [Uuids -> Seq(Message)]
          /\ \A u \in Uuids : u # w => said'[u] = said[u]
      BY <1>1, <1>6, <3>1, <3>2 DEF Typed
    <3> QED BY <3>2, <3>3
  <2>3. CASE ~answered
    <3>1. said' = said /\ s = session
      BY <1>3, <2>3
    <3> QED BY <1>1, <1>6, <2>1, <3>1 DEF Typed
  <2> QED BY <2>2, <2>3
<1>8. /\ session'.uuid = w /\ session'.messages = said'[w]
      /\ session'.requests = session.requests + counted' - last
      /\ session' = [uuid |-> w, messages |-> said'[w], requests |-> session'.requests]
  <2>1. session' = Session(w, said'[w], session.requests + counted' - last)
    <3>1. session_track_usage(Session(w, said'[w], session.requests), counted', last)
            = Session(w, said'[w], session.requests + counted' - last)
      BY TracksUsage
    <3>2. session' = session_track_usage(s, counted', last)
          /\ s = Session(w, said'[w], session.requests)
      BY <1>3, <1>7
    <3> QED BY <3>1, <3>2
  <2> QED BY <2>1 DEF Session
<1>9. /\ spent'[w] = spent[w] + requests /\ spent' \in [Uuids -> Nat]
      /\ \A u \in Uuids : u # w => spent'[u] = spent[u]
  BY <1>1, <1>4, <1>5, <1>6 DEF Typed
<1>18. counted' \in Nat /\ last' = counted' /\ counted' = counted + requests
  <2>1. counted' = counted + requests /\ last' = counted'
    BY <1>4, Zenon
  <2> QED BY <1>5, <1>6, <2>1
<1>10. /\ session'.requests \in Nat /\ session.requests <= session'.requests
       /\ counted' \in Nat /\ last' \in Nat /\ last' <= counted'
  <2>1. session'.requests = session.requests + counted' - last
    BY <1>8, Zenon
  <2>2. session.requests \in Nat /\ counted \in Nat /\ last \in Nat /\ last <= counted
    BY <1>6, Zenon
  <2> QED BY <1>5, <1>18, <2>1, <2>2
<1>11. Typed'
  <2>1. session' \in [uuid : Nat, messages : Seq(Message), requests : Nat]
    BY <1>6, <1>7, <1>8, <1>10 DEF Uuids
  <2> QED BY <1>1, <1>4, <1>7, <1>9, <1>10, <2>1, Zenon DEF Typed, Uuids
<1>12. Flags'
  BY <1>1, <1>4, Zenon DEF Flags, Uuids
<1>13. pc # "off"
  BY <1>4
<1>14. FileInv' /\ FreshInv'
  <2>1. FileOf(w)'
    <3> SUFFICES ASSUME disk[w] # NoFile PROVE FileOf(w)'
      BY <1>4, Zenon DEF FileOf
    <3>1. /\ disk[w] \in Seq(FileLine) /\ Recorded(disk[w]) \in Nat
          /\ Beginning(disk[w], kept[w]) /\ Beginning(disk[w], said[w])
          /\ Whole(w) \/ damaged[w] \/ pc = "saving"
          /\ Recorded(disk[w]) + dropped[w] <= spent[w]
      BY <1>2, <1>13, RunningFile
    <3>2. Beginning(disk[w], said'[w])
      BY <1>5, <1>6, <1>7, <3>1, MoreSaid
    <3>3. Mine(w)' /\ pc' \in {"chat", "save"} /\ w = Me'
      BY <1>4, <1>8 DEF Mine, Me
    <3>4. Whole(w) \/ damaged[w]
      BY <1>4, <3>1
    <3>5. w <= runs /\ Recorded(disk[w]) + dropped[w] <= spent'[w]
      BY <1>5, <1>6, <1>9, <3>1
    <3> QED BY <1>4, <3>1, <3>2, <3>3, <3>4, <3>5, Zenon DEF FileOf, Whole, Me
  <2>2. \A u \in Uuids : u # w => SameHistory(u)
    BY <1>4, <1>7, <1>9, Zenon DEF SameHistory
  <2> QED BY <1>2, <1>4, <1>13, <2>1, <2>2, OtherSessions
<1>15. RunInv'
  <2>1. ~(pc' \in Resting)
    BY <1>4 DEF Resting
  <2>2. disk[w] # NoFile => Recorded(disk[w]) <= session'.requests
    <3> SUFFICES ASSUME disk[w] # NoFile PROVE Recorded(disk[w]) <= session'.requests
      OBVIOUS
    <3>1. Recorded(disk[w]) \in Nat /\ Recorded(disk[w]) <= session.requests
      BY <1>2, <1>13, RunningFile
    <3> QED BY <1>6, <1>10, <3>1
  <2>3. /\ session'.requests + counted' - last' + dropped[w] <= spent'[w]
        /\ session.requests + counted - last + dropped[w] = spent[w]
             => session'.requests + counted' - last' + dropped[w] = spent'[w]
    <3>1. session'.requests = session.requests + counted' - last /\ spent'[w] = spent[w] + requests
      BY <1>8, <1>9, Zenon
    <3>2. /\ session.requests \in Nat /\ counted \in Nat /\ last \in Nat
          /\ spent[w] \in Nat /\ dropped[w] \in Nat
          /\ session.requests + counted - last + dropped[w] <= spent[w]
      BY <1>6, Zenon
    <3> QED BY <1>5, <1>18, <3>1, <3>2
  <2> QED BY <1>4, <1>6, <1>8, <1>13, <1>17, <2>1, <2>2, <2>3, Zenon DEF RunInv, Total, Me
<1>16. SaveInv'
  BY <1>4 DEF SaveInv
<1> QED BY <1>11, <1>12, <1>14, <1>15, <1>16, Zenon DEF IInv

LEMMA SaveOpenKeeps ==
  ASSUME IInv, SaveOpen
  PROVE  IInv'
<1>1. Typed /\ Flags /\ RunInv
  BY Zenon DEF IInv
<1>2. PICK w : w = Me
  OBVIOUS
<1>3. /\ pc = "save" /\ pc' = "saving" /\ left' = SavedLines(session)
      /\ disk' = [disk EXCEPT ![w] = <<>>] /\ kept' = [kept EXCEPT ![w] = said[w]]
      /\ session' = session /\ counted' = counted /\ last' = last /\ inputs' = inputs
      /\ runs' = runs /\ said' = said
      /\ spent' = spent /\ dropped' = dropped /\ damaged' = damaged
  BY <1>2, Zenon DEF SaveOpen
<1>4. pc # "off" /\ ~(pc' \in Resting)
  BY <1>3 DEF Resting
<1>5. /\ w \in Uuids /\ w \in 1 .. runs
      /\ session.messages = said[w] /\ said[w] \in Seq(Message) /\ session.requests \in Nat
      /\ counted \in Nat /\ last \in Nat /\ last <= counted
      /\ spent[w] \in Nat /\ dropped[w] \in Nat
      /\ session.requests + counted - last + dropped[w] <= spent[w]
  BY <1>2, <1>4, Running
<1>6. /\ disk'[w] = <<>> /\ kept'[w] = said[w] /\ DOMAIN disk' = Uuids
      /\ kept' \in [Uuids -> Seq(Message)]
      /\ \A u \in Uuids : u # w => disk'[u] = disk[u] /\ kept'[u] = kept[u]
  BY <1>1, <1>3, <1>5 DEF Typed
<1>7. /\ <<>> \in Seq(FileLine) /\ <<>> # NoFile /\ Len(<<>>) = 0 /\ Recorded(<<>>) = 0
      /\ Beginning(<<>>, said[w])
  <2>1. <<>> \in Seq(FileLine) /\ Len(<<>>) = 0 /\ Len(said[w]) \in Nat
    BY <1>5, LenProperties
  <2>2. <<>> # NoFile
    BY <2>1, LinesAreAFile
  <2>3. Beginning(<<>>, said[w])
    BY <2>1 DEF Beginning
  <2>4. Recorded(<<>>) = 0
    BY DEF Recorded, session_load, Session
  <2> QED BY <2>1, <2>2, <2>3, <2>4
<1>8. Typed'
  <2>1. \A u \in Uuids : disk'[u] # NoFile => disk'[u] \in Seq(FileLine)
    BY <1>1, <1>6, <1>7, Zenon DEF Typed
  <2> QED BY <1>1, <1>3, <1>6, <2>1, Zenon DEF Typed, Uuids
<1>9. Flags'
  BY <1>1, <1>3, Zenon DEF Flags, Uuids
<1>10. FileInv' /\ FreshInv'
  <2>1. FileOf(w)'
    <3>1. Mine(w)' /\ w = Me'
      BY <1>2, <1>3 DEF Mine, Me
    <3>2. w <= runs /\ 0 + dropped[w] <= spent[w]
      BY <1>5
    <3> QED BY <1>3, <1>6, <1>7, <3>1, <3>2, Zenon DEF FileOf
  <2>2. \A u \in Uuids : u # w => SameHistory(u)
    BY <1>3, <1>6, Zenon DEF SameHistory
  <2> QED BY <1>2, <1>3, <1>4, <2>1, <2>2, OtherSessions
<1>11. RunInv'
  <2>1. Recorded(disk'[w]) <= session.requests
    BY <1>5, <1>6, <1>7
  <2> QED BY <1>1, <1>2, <1>3, <1>4, <2>1, Zenon DEF RunInv, Total, Me
<1>12. SaveInv'
  <2>1. /\ Me' = w /\ kept'[w] = said'[w] /\ disk'[w] # NoFile /\ disk'[w] = <<>>
        /\ session' = session /\ left' = SavedLines(session)
    BY <1>2, <1>3, <1>6, <1>7, Zenon DEF Me
  <2>2. /\ left' \in Seq(FileLine) /\ Len(left') = Len(session.messages) + 1
        /\ DOMAIN left' = 1 .. Len(left') /\ Len(left') \in Nat
    <3>1. /\ <<Metadata(session.requests)>> \in Seq(FileLine)
          /\ Len(<<Metadata(session.requests)>>) = 1
      <4>1. Metadata(session.requests) \in FileLine
        BY <1>5 DEF Metadata, FileLine
      <4> QED BY <4>1
    <3>2. session.messages \in Seq(FileLine) /\ Len(session.messages) \in Nat
      <4>1. Message \subseteq FileLine
        BY DEF FileLine
      <4> QED BY <1>5, <4>1, LenProperties, SeqMonotonic
    <3>3. left' \in Seq(FileLine) /\ Len(left') = 1 + Len(session.messages)
      BY <2>1, <3>1, <3>2, ConcatProperties DEF SavedLines
    <3> QED BY <3>2, <3>3, LenProperties
  <2>3. Len(disk'[w]) + Len(left') = Len(session.messages) + 1
    BY <1>7, <2>1, <2>2
  <2>4. \A i \in DOMAIN left' : left'[i] = SavedLines(session)[Len(disk'[w]) + i]
    <3>1. \A i \in DOMAIN left' : Len(disk'[w]) + i = i
      BY <1>7, <2>1, <2>2
    <3> QED BY <2>1, <3>1
  <2>5. Beginning(disk'[w], session.messages)
    BY <1>5, <1>7, <2>1, Zenon
  <2> QED BY <2>1, <2>2, <2>3, <2>4, <2>5, Zenon DEF SaveInv, Pending, SavedLines, Me
<1> QED BY <1>8, <1>9, <1>10, <1>11, <1>12, Zenon DEF IInv

LEMMA SaveFailsKeeps ==
  ASSUME IInv, SaveFails
  PROVE  IInv'
<1>1. Typed /\ Flags /\ RunInv
  BY Zenon DEF IInv
<1>2. PICK w : w = Me
  OBVIOUS
<1>3. /\ pc = "save" /\ pc' \in {"prompt", "end"} /\ damaged' = [damaged EXCEPT ![w] = TRUE]
      /\ disk' = disk /\ kept' = kept
      /\ session' = session /\ counted' = counted /\ last' = last /\ inputs' = inputs
      /\ runs' = runs /\ said' = said /\ spent' = spent /\ dropped' = dropped
  BY <1>2 DEF SaveFails, AfterTurn
<1>4. pc # "off" /\ w \in Uuids /\ w \in 1 .. runs
  BY <1>2, <1>3, Running
<1>5. /\ damaged' \in [Uuids -> BOOLEAN] /\ damaged'[w]
      /\ \A u \in Uuids : u # w => (damaged'[u] <=> damaged[u])
  BY <1>1, <1>3, <1>4 DEF Flags
<1>6. Typed'
  BY <1>1, <1>3, Zenon DEF Typed, Uuids
<1>7. FileInv' /\ FreshInv'
  <2>1. FileOf(w)'
    <3> SUFFICES ASSUME disk[w] # NoFile PROVE FileOf(w)'
      BY <1>3, Zenon DEF FileOf
    <3>1. /\ Beginning(disk[w], kept[w]) /\ Beginning(disk[w], said[w])
          /\ Recorded(disk[w]) + dropped[w] <= spent[w]
      BY <1>2, <1>4, RunningFile
    <3>2. w <= runs
      BY <1>4
    <3> QED BY <1>3, <1>5, <3>1, <3>2, Zenon DEF FileOf
  <2>2. \A u \in Uuids : u # w => SameHistory(u)
    BY <1>3, <1>5, Zenon DEF SameHistory
  <2> QED BY <1>2, <1>3, <1>4, <2>1, <2>2, OtherSessions
<1>8. RunInv'
  BY <1>1, <1>2, <1>3, <1>4, <1>5, Zenon DEF RunInv, Total, Me
<1>9. SaveInv'
  BY <1>3 DEF SaveInv
<1> QED BY <1>5, <1>6, <1>7, <1>8, <1>9, Zenon DEF IInv, Flags, Uuids

LEMMA SaveLineKeeps ==
  ASSUME IInv, SaveLine
  PROVE  IInv'
<1>1. Typed /\ Flags /\ RunInv /\ SaveInv
  BY Zenon DEF IInv
<1>2. PICK w : w = Me
  OBVIOUS
<1>3. /\ pc = "saving" /\ session' = session /\ counted' = counted /\ last' = last
      /\ inputs' = inputs /\ runs' = runs /\ said' = said /\ spent' = spent
      /\ dropped' = dropped /\ kept' = kept /\ damaged' = damaged
  BY DEF SaveLine, history
<1>4. pc # "off"
  BY <1>3
<1>5. /\ w \in Uuids /\ w \in 1 .. runs
      /\ session.messages = said[w] /\ said[w] \in Seq(Message) /\ session.requests \in Nat
      /\ counted \in Nat /\ last \in Nat /\ last <= counted
      /\ spent[w] \in Nat /\ dropped[w] \in Nat
      /\ session.requests + counted - last + dropped[w] <= spent[w]
  BY <1>2, <1>4, Running
<1>6. /\ kept[w] = said[w] /\ disk[w] # NoFile /\ left \in Seq(FileLine)
      /\ Pending(disk[w], left, said[w], session.requests)
  BY <1>1, <1>2, <1>3, <1>5, Zenon DEF SaveInv
<1>7. /\ disk[w] \in Seq(FileLine) /\ Recorded(disk[w]) \in Nat
      /\ Beginning(disk[w], kept[w]) /\ Beginning(disk[w], said[w])
      /\ Recorded(disk[w]) + dropped[w] <= spent[w]
      /\ Recorded(disk[w]) <= session.requests
  BY <1>2, <1>4, <1>6, RunningFile
<1>8. /\ Len(disk[w]) \in Nat /\ Len(left) \in Nat /\ Len(said[w]) \in Nat
      /\ DOMAIN disk[w] = 1 .. Len(disk[w])
  BY <1>5, <1>6, <1>7, LenProperties
<1>9. Flags'
  BY <1>1, <1>3, Zenon DEF Flags, Uuids
<1>10. CASE left = <<>>
  <2>1. disk' = disk /\ left' = left /\ pc' \in {"prompt", "end"}
    BY <1>10 DEF SaveLine, AfterTurn
  <2>2. Len(disk[w]) = Len(said[w]) + 1
    <3>1. Len(disk[w]) + Len(left) = Len(said[w]) + 1
      BY <1>6, Zenon DEF Pending
    <3> QED BY <1>8, <1>10, <3>1
  <2>3. Recorded(disk[w]) = session.requests
    <3>1. Len(disk[w]) > 0
      BY <1>8, <2>2
    <3>2. Recorded(disk[w]) = disk[w][1].requests
      BY <1>5, <1>7, <3>1, LoadsLines
    <3>3. disk[w][1] = Metadata(session.requests)
      <4>1. disk[w] # <<>>
        BY <3>1, EmptySeq
      <4> QED BY <1>6, <4>1, Zenon DEF Pending
    <3> QED BY <3>2, <3>3 DEF Metadata
  <2>4. Typed'
    BY <1>1, <1>3, <2>1, Zenon DEF Typed, Uuids
  <2>5. FileInv' /\ FreshInv'
    <3>1. FileOf(w)'
      <4>1. Mine(w)' /\ w <= runs
        BY <1>2, <1>3, <1>5, <2>1 DEF Mine, Me
      <4>2. Whole(w)
        BY <1>6, <2>2, Zenon DEF Whole
      <4> QED BY <1>3, <1>6, <1>7, <2>1, <4>1, <4>2, Zenon DEF FileOf, Whole
    <3>2. \A u \in Uuids : u # w => SameHistory(u)
      BY <1>3, <2>1, Zenon DEF SameHistory
    <3> QED BY <1>2, <1>3, <1>4, <3>1, <3>2, OtherSessions
  <2>6. RunInv'
    BY <1>1, <1>2, <1>3, <1>4, <1>7, <2>1, <2>3, Zenon DEF RunInv, Total, Me
  <2>7. SaveInv'
    BY <2>1 DEF SaveInv
  <2> QED BY <1>9, <2>4, <2>5, <2>6, <2>7, Zenon DEF IInv
<1>11. CASE left # <<>>
  <2> DEFINE now == Append(disk[w], Head(left))
  <2>1. disk' = [disk EXCEPT ![w] = now] /\ left' = Tail(left) /\ pc' = pc
    BY <1>2, <1>11 DEF SaveLine
  <2>2. disk'[w] = now /\ DOMAIN disk' = Uuids /\ \A u \in Uuids : u # w => disk'[u] = disk[u]
    BY <1>1, <1>5, <2>1 DEF Typed
  <2>3. /\ now \in Seq(FileLine) /\ now # <<>> /\ Tail(left) \in Seq(FileLine)
        /\ now[1] = Metadata(session.requests)
        /\ Pending(now, Tail(left), said[w], session.requests)
    <3>1. /\ Append(disk[w], Head(left)) \in Seq(FileLine)
          /\ Append(disk[w], Head(left)) # <<>>
          /\ Append(disk[w], Head(left))[1] = Metadata(session.requests)
          /\ Tail(left) \in Seq(FileLine)
          /\ Pending(Append(disk[w], Head(left)), Tail(left), said[w], session.requests)
      <4>1. /\ disk[w] \in Seq(FileLine) /\ said[w] \in Seq(Message) /\ session.requests \in Nat
            /\ left \in Seq(FileLine) /\ left # <<>>
            /\ Pending(disk[w], left, said[w], session.requests)
        BY <1>5, <1>6, <1>7, <1>11, Zenon
      <4> QED BY <4>1, MoreWritten
    <3> QED BY <3>1
  <2>4. now # NoFile /\ Recorded(now) = session.requests
    <3>1. now # NoFile
      BY <2>3, LinesAreAFile
    <3>2. Len(now) > 0
      BY <2>3, EmptySeq, LenProperties
    <3>3. Recorded(now) = now[1].requests
      BY <1>5, <2>3, <3>2, LoadsLines DEF Pending
    <3> QED BY <2>3, <3>1, <3>3 DEF Metadata
  <2> HIDE DEF now
  <2>5. Typed'
    <3>1. \A u \in Uuids : disk'[u] # NoFile => disk'[u] \in Seq(FileLine)
      BY <1>1, <2>2, <2>3, Zenon DEF Typed
    <3> QED BY <1>1, <1>3, <2>2, <3>1, Zenon DEF Typed, Uuids
  <2>6. FileInv' /\ FreshInv'
    <3>1. FileOf(w)'
      <4>1. Mine(w)' /\ w <= runs /\ w = Me' /\ pc' = "saving"
        BY <1>2, <1>3, <1>5, <2>1 DEF Mine, Me
      <4>2. session.requests + dropped[w] <= spent[w]
        BY <1>5
      <4> QED BY <1>3, <1>6, <2>2, <2>3, <2>4, <4>1, <4>2, Zenon DEF FileOf, Pending
    <3>2. \A u \in Uuids : u # w => SameHistory(u)
      BY <1>3, <2>2, Zenon DEF SameHistory
    <3> QED BY <1>2, <1>3, <1>4, <3>1, <3>2, OtherSessions
  <2>7. RunInv'
    <3>1. session.requests <= session.requests
      BY <1>5
    <3> QED BY <1>1, <1>2, <1>3, <1>4, <2>1, <2>2, <2>4, <3>1, Zenon DEF RunInv, Total, Me
  <2>8. SaveInv'
    BY <1>2, <1>3, <1>5, <1>6, <2>1, <2>2, <2>3, <2>4, Zenon DEF SaveInv, Me
  <2> QED BY <1>9, <2>5, <2>6, <2>7, <2>8, Zenon DEF IInv
<1> QED BY <1>10, <1>11

LEMMA CompactKeeps ==
  ASSUME IInv, NEW requests \in 0 .. MaxRequests, Compact(requests)
  PROVE  IInv'
<1>1. Typed /\ Flags /\ RunInv
  BY Zenon DEF IInv
<1>2. PICK w : w = Me
  OBVIOUS
<1>3. /\ pc = "prompt" /\ pc' = pc /\ counted' = counted + requests
      /\ spent' = [spent EXCEPT ![w] = @ + requests]
      /\ session' = session /\ last' = last /\ inputs' = inputs /\ runs' = runs
      /\ disk' = disk /\ said' = said /\ dropped' = dropped /\ kept' = kept
      /\ damaged' = damaged
  BY <1>2, Zenon DEF Compact
<1>4. pc # "off" /\ requests \in Nat
  BY <1>3, BoundsAssumption
<1>5. /\ w \in Uuids /\ w \in 1 .. runs /\ session.requests \in Nat
      /\ counted \in Nat /\ last \in Nat /\ last <= counted
      /\ spent[w] \in Nat /\ dropped[w] \in Nat
      /\ session.requests + counted - last + dropped[w] <= spent[w]
  BY <1>2, <1>4, Running
<1>6. session.requests + counted - last + dropped[w] = spent[w] \/ damaged[w]
  BY <1>2, <1>4, Running
<1>7. /\ spent'[w] = spent[w] + requests /\ spent' \in [Uuids -> Nat]
      /\ \A u \in Uuids : u # w => spent'[u] = spent[u]
  BY <1>1, <1>3, <1>4, <1>5 DEF Typed
<1>8. /\ counted' \in Nat /\ last <= counted'
      /\ session.requests + counted' - last + dropped[w] <= spent'[w]
      /\ session.requests + counted - last + dropped[w] = spent[w]
           => session.requests + counted' - last + dropped[w] = spent'[w]
  <2>1. counted' = counted + requests /\ spent'[w] = spent[w] + requests
    BY <1>3, <1>7, Zenon
  <2> QED BY <1>4, <1>5, <2>1
<1>9. Typed'
  BY <1>1, <1>3, <1>7, <1>8, Zenon DEF Typed, Uuids
<1>10. Flags'
  BY <1>1, <1>3, Zenon DEF Flags, Uuids
<1>11. FileInv' /\ FreshInv'
  <2>1. FileOf(w)'
    <3> SUFFICES ASSUME disk[w] # NoFile PROVE FileOf(w)'
      BY <1>3, Zenon DEF FileOf
    <3>1. /\ Beginning(disk[w], kept[w]) /\ Beginning(disk[w], said[w])
          /\ Recorded(disk[w]) \in Nat /\ Recorded(disk[w]) + dropped[w] <= spent[w]
      BY <1>2, <1>4, RunningFile
    <3>2. (Whole(w) \/ damaged[w]) /\ (kept[w] = said[w] \/ damaged[w])
      <4>1. pc # "saving" /\ pc \notin {"chat", "save"}
        BY <1>3
      <4> QED BY <1>2, <1>4, <4>1, RunningFile
    <3>3. w <= runs /\ Recorded(disk[w]) + dropped[w] <= spent'[w]
      BY <1>4, <1>5, <1>7, <3>1
    <3>4. Mine(w)'
      BY <1>2, <1>3, <1>4 DEF Mine, Me
    <3> QED BY <1>3, <3>1, <3>2, <3>3, <3>4, Zenon DEF FileOf, Whole
  <2>2. \A u \in Uuids : u # w => SameHistory(u)
    BY <1>3, <1>7, Zenon DEF SameHistory
  <2> QED BY <1>2, <1>3, <1>4, <2>1, <2>2, OtherSessions
<1>12. RunInv'
  BY <1>1, <1>2, <1>3, <1>4, <1>6, <1>8, Zenon DEF RunInv, Total, Me
<1>13. SaveInv'
  BY <1>3 DEF SaveInv
<1> QED BY <1>9, <1>10, <1>11, <1>12, <1>13, Zenon DEF IInv

\* The end of a run, which leaves no session in memory.
LEMMA GoneKeeps ==
  ASSUME IInv, pc # "off", Gone, spent' = spent, dropped' \in [Uuids -> Nat], Flags',
         NEW w, w = Me, FileOf(w)',
         \A u \in Uuids : u # w => dropped'[u] = dropped[u] /\ (damaged'[u] <=> damaged[u])
  PROVE  IInv'
<1>1. Typed
  BY Zenon DEF IInv
<1>2. /\ pc' = "off" /\ session' = Session(1, <<>>, 0) /\ counted' = 0 /\ last' = 0
      /\ disk' = disk /\ runs' = runs /\ inputs' = inputs /\ said' = said /\ kept' = kept
  BY Zenon DEF Gone
<1>3. Typed'
  <2>1. session' \in [uuid : Nat, messages : Seq(Message), requests : Nat]
    BY <1>2 DEF Session
  <2>2. 0 \in Nat /\ 0 <= 0
    OBVIOUS
  <2> QED BY <1>1, <1>2, <2>1, <2>2, Zenon DEF Typed, Uuids
<1>4. FileInv' /\ FreshInv'
  <2>1. \A u \in Uuids : u # w => SameHistory(u)
    BY <1>2, Zenon DEF SameHistory
  <2> QED BY <1>2, <2>1, OtherSessions
<1>5. RunInv' /\ SaveInv'
  BY <1>2 DEF RunInv, SaveInv
<1> QED BY <1>3, <1>4, <1>5, Zenon DEF IInv

LEMMA QuitKeeps ==
  ASSUME IInv, Quit
  PROVE  IInv'
<1>1. Typed /\ Flags
  BY Zenon DEF IInv
<1>2. PICK w : w = Me
  OBVIOUS
<1>3. /\ pc \in {"prompt", "end"} /\ Gone /\ spent' = spent /\ damaged' = damaged
      /\ dropped' = [dropped EXCEPT ![w] = @ + counted - last]
  BY <1>2, Zenon DEF Quit
<1>4. pc # "off" /\ pc \in Resting
  BY <1>3 DEF Resting
<1>5. /\ w \in Uuids /\ w \in 1 .. runs /\ session.requests \in Nat
      /\ counted \in Nat /\ last \in Nat /\ last <= counted
      /\ spent[w] \in Nat /\ dropped[w] \in Nat
      /\ session.requests + counted - last + dropped[w] <= spent[w]
  BY <1>2, <1>4, Running
<1>6. session.requests + counted - last + dropped[w] = spent[w] \/ damaged[w]
  BY <1>2, <1>4, Running
<1>7. /\ dropped'[w] = dropped[w] + counted - last /\ dropped' \in [Uuids -> Nat]
      /\ \A u \in Uuids : u # w => dropped'[u] = dropped[u]
  <2>1. dropped[w] + counted - last \in Nat
    BY <1>5
  <2> QED BY <1>1, <1>3, <1>5, <2>1 DEF Typed
<1>8. /\ pc' = "off" /\ disk' = disk /\ runs' = runs /\ said' = said /\ kept' = kept
  BY <1>3, Zenon DEF Gone
<1>9. FileOf(w)'
  <2> SUFFICES ASSUME disk[w] # NoFile PROVE FileOf(w)'
    BY <1>8, Zenon DEF FileOf
  <2>1. /\ Beginning(disk[w], kept[w]) /\ Beginning(disk[w], said[w])
        /\ Recorded(disk[w]) \in Nat /\ Recorded(disk[w]) <= session.requests
    BY <1>2, <1>4, RunningFile
  <2>2. (Whole(w) \/ damaged[w]) /\ (kept[w] = said[w] \/ damaged[w])
    <3>1. pc # "saving" /\ pc \notin {"chat", "save"}
      BY <1>3
    <3> QED BY <1>2, <1>4, <3>1, RunningFile
  <2>3. Recorded(disk[w]) = session.requests \/ damaged[w]
    BY <1>2, <1>4, RunningFile
  <2>4. w <= runs /\ Recorded(disk[w]) + dropped'[w] <= spent[w]
    BY <1>5, <1>7, <2>1
  <2>5. ASSUME Recorded(disk[w]) = session.requests,
               session.requests + counted - last + dropped[w] = spent[w]
        PROVE  Recorded(disk[w]) + dropped'[w] = spent[w]
    BY <1>5, <1>7, <2>1, <2>5
  <2> QED BY <1>3, <1>6, <1>8, <2>1, <2>2, <2>3, <2>4, <2>5, Zenon DEF FileOf, Whole
<1>10. Flags'
  BY <1>1, <1>3, Zenon DEF Flags, Uuids
<1> QED BY <1>2, <1>3, <1>4, <1>7, <1>9, <1>10, GoneKeeps

LEMMA CrashKeeps ==
  ASSUME IInv, Crash
  PROVE  IInv'
<1>1. Typed /\ Flags
  BY Zenon DEF IInv
<1>2. PICK w : w = Me
  OBVIOUS
<1>3. /\ pc # "off" /\ Gone /\ spent' = spent /\ dropped' = dropped
      /\ damaged' = [damaged EXCEPT ![w] = TRUE]
  BY <1>2, Zenon DEF Crash
<1>4. w \in Uuids /\ w \in 1 .. runs
  BY <1>2, <1>3, Running
<1>5. /\ damaged' \in [Uuids -> BOOLEAN] /\ damaged'[w]
      /\ \A u \in Uuids : u # w => (damaged'[u] <=> damaged[u])
  BY <1>1, <1>3, <1>4 DEF Flags
<1>6. /\ disk' = disk /\ runs' = runs /\ said' = said /\ kept' = kept
  BY <1>3, Zenon DEF Gone
<1>7. FileOf(w)'
  <2> SUFFICES ASSUME disk[w] # NoFile PROVE FileOf(w)'
    BY <1>6, Zenon DEF FileOf
  <2>1. /\ Beginning(disk[w], kept[w]) /\ Beginning(disk[w], said[w])
        /\ Recorded(disk[w]) + dropped[w] <= spent[w]
    BY <1>2, <1>3, RunningFile
  <2>2. w <= runs
    BY <1>4
  <2> QED BY <1>3, <1>5, <1>6, <2>1, <2>2, Zenon DEF FileOf
<1>8. Flags'
  BY <1>5, Zenon DEF Flags, Uuids
<1>9. dropped' \in [Uuids -> Nat]
  BY <1>1, <1>3 DEF Typed
<1> QED BY <1>2, <1>3, <1>5, <1>7, <1>8, <1>9, GoneKeeps
-----------------------------------------------------------------------------
LEMMA InitInv == Init => IInv
<1> SUFFICES ASSUME Init PROVE IInv
  OBVIOUS
<1>1. /\ disk = [u \in Uuids |-> NoFile] /\ pc = "off"
      /\ session = Session(1, <<>>, 0) /\ counted = 0 /\ last = 0
      /\ runs = 0 /\ inputs = 0
      /\ said = [u \in Uuids |-> <<>>] /\ kept = [u \in Uuids |-> <<>>]
      /\ spent = [u \in Uuids |-> 0] /\ dropped = [u \in Uuids |-> 0]
      /\ damaged = [u \in Uuids |-> FALSE]
  BY Zenon DEF Init
<1>2. Typed
  BY <1>1, BoundsAssumption DEF Typed, Session
<1>3. Flags
  BY <1>1 DEF Flags
<1>4. FileInv /\ FreshInv
  BY <1>1 DEF FileInv, FileOf, FreshInv
<1>5. RunInv /\ SaveInv
  BY <1>1 DEF RunInv, SaveInv
<1> QED BY <1>2, <1>3, <1>4, <1>5 DEF IInv

LEMMA NextKeepsInv == IInv /\ [Next]_vars => IInv'
<1> SUFFICES ASSUME IInv, [Next]_vars PROVE IInv'
  OBVIOUS
<1>1. ASSUME NEW args \in Arguments,
             \E uuid \in Uuids, s \in Startups : Start(args, uuid, s.enabled, s.failing)
      PROVE  IInv'
  BY <1>1, StartKeeps
<1>2. ASSUME NEW requests \in 0 .. MaxRequests,
             Compact(requests) \/ \E answered \in BOOLEAN : TurnEnds(answered, requests)
      PROVE  IInv'
  BY <1>2, CompactKeeps, TurnEndsKeeps
<1>3. CASE \/ \E args \in Arguments : StartRefused(args)
           \/ \E i \in DOMAIN cfg.models : SwitchModel(cfg.models[i].name)
           \/ \E i \in DOMAIN Presets : ConfigRead(Presets[i].provider)
           \/ Rewrite \/ ConfigWrite
  BY <1>3, ElsewhereSteps, ElsewhereKeeps
<1>4. CASE UNCHANGED vars
  <2>1. /\ UNCHANGED <<disk, session, counted, last, inputs>> /\ UNCHANGED history
        /\ runs' = runs /\ pc' = pc /\ left' = left
    BY <1>4 DEF vars, history
  <2>2. runs' \in runs .. MaxRuns
    BY <2>1, BoundsAssumption DEF IInv, Typed
  <2> QED BY <2>1, <2>2, ElsewhereKeeps DEF Elsewhere
<1> QED BY <1>1, <1>2, <1>3, <1>4, InputKeeps, SaveOpenKeeps, SaveFailsKeeps, SaveLineKeeps,
           QuitKeeps, CrashKeeps DEF Next

\* In every run, and across runs, crashes and failed saves, the files and the
\* session in memory stay as the two theorems below need them.
THEOREM Invariance == Spec => []IInv
<1> QED BY InitInv, NextKeepsInv, PTL DEF Spec

\* The session in memory is the transcript, its file what the last save was to
\* hold, or a beginning of that (session_save, session_load, --resume in main).
THEOREM SessionsAreKept == Spec => []SessionIsTranscript
<1>1. IInv => SessionIsTranscript
  <2> SUFFICES ASSUME IInv PROVE SessionIsTranscript
    OBVIOUS
  <2>1. pc # "off" => session.messages = said[Me]
    BY Running
  <2>2. ASSUME NEW u \in Uuids, disk[u] # NoFile
        PROVE  LET loaded == session_load(u, disk[u]).messages
               IN  /\ IsPrefix(loaded, kept[u])
                   /\ loaded = kept[u] \/ damaged[u] \/ (pc = "saving" /\ u = Me)
    <3>1. disk[u] \in Seq(FileLine) /\ kept[u] \in Seq(Message)
      BY <2>2, FileTypes DEF IInv
    <3>2. /\ Beginning(disk[u], kept[u])
          /\ Whole(u) \/ damaged[u] \/ (pc = "saving" /\ u = Me)
      BY <2>2, Zenon DEF IInv, FileInv, FileOf
    <3>3. session_load(u, disk[u]).messages = Loaded(disk[u])
      BY DEF session_load, Loaded, Session
    <3>4. /\ IsPrefix(Loaded(disk[u]), kept[u])
          /\ Whole(u) => Loaded(disk[u]) = kept[u]
      BY <3>1, <3>2, LoadsBeginning DEF Whole
    <3> QED BY <3>2, <3>3, <3>4, Zenon
  <2> QED BY <2>1, <2>2, Zenon DEF SessionIsTranscript
<1> QED BY <1>1, Invariance, PTL

\* The total of a session counts every request once (session_track_usage, and
\* the totals in the metadata of the file).
THEOREM RequestsAreCounted == Spec => []UsageAccounted
<1>1. IInv => UsageAccounted
  BY Zenon DEF IInv, RunInv, Total, UsageAccounted
<1> QED BY <1>1, Invariance, PTL
-----------------------------------------------------------------------------
(* Induction over the numbers up to a bound, by a least counterexample, and     *)
(* what FoldLeft computes: a function of the beginnings of its sequence.        *)

LEMMA LeastOf ==
  ASSUME NEW T, T \subseteq Nat, T # {}
  PROVE  \E n \in T : \A m \in T : n <= m
<1>1. PICK n \in T : \A y \in T : <<y, n>> \notin OpToRel(<, Nat)
  <2> DEFINE R == OpToRel(<, Nat)
  <2>1. IsWellFoundedOn(R, Nat)
    BY NatLessThanWellFounded
  <2> HIDE DEF R
  <2>2. \E n \in T : \A y \in T : <<y, n>> \notin R
    BY <2>1, WFMin
  <2> QED BY <2>2 DEF R
<1>2. n \in Nat /\ \A m \in T : m \in Nat /\ ~ (m < n)
  BY <1>1 DEF OpToRel
<1>3. \A m \in T : n <= m
  BY <1>2
<1> QED BY <1>1, <1>3

LEMMA SetInduction ==
  ASSUME NEW S, 0 \in S, \A n \in Nat : n \in S => n + 1 \in S
  PROVE  Nat \subseteq S
<1> SUFFICES ASSUME Nat \ S # {} PROVE FALSE
  OBVIOUS
<1>1. PICK n \in Nat \ S : \A m \in Nat \ S : n <= m
  BY LeastOf
<1>2. n - 1 \in Nat \ S
  BY <1>1
<1> QED BY <1>1, <1>2

LEMMA UpTo ==
  ASSUME NEW n \in Nat, NEW S, 0 \in S, \A k \in 1 .. n : k - 1 \in S => k \in S
  PROVE  \A k \in 0 .. n : k \in S
<1> DEFINE R == {k \in Nat : k <= n => k \in S}
<1>1. 0 \in R /\ \A k \in Nat : k \in R => k + 1 \in R
  <2>1. ASSUME NEW k \in Nat, k \in R, k + 1 <= n PROVE k + 1 \in S
    <3>1. k + 1 \in 1 .. n /\ (k + 1) - 1 = k /\ k <= n
      BY <2>1
    <3> QED BY <2>1, <3>1
  <2> QED BY <2>1
<1>2. Nat \subseteq R
  <2> HIDE DEF R
  <2> QED BY <1>1, SetInduction
<1> QED BY <1>2

LEMMA MaxIn ==
  ASSUME NEW n \in Nat, NEW s, s \subseteq 1 .. n, s # {}
  PROVE  Max(s) \in s /\ \A y \in s : Max(s) >= y
<1> DEFINE T == {n - y : y \in s}
<1>0. \A y \in s : y \in Int /\ n - y \in Nat /\ n - y \in T
  OBVIOUS
<1>1. PICK t \in T : \A m \in T : t <= m
  <2>1. T \subseteq Nat /\ T # {}
    BY <1>0
  <2> HIDE DEF T
  <2> QED BY <2>1, LeastOf
<1>2. PICK x \in s : t = n - x
  OBVIOUS
<1>3. \A y \in s : x >= y
  <2> SUFFICES ASSUME NEW y \in s PROVE x >= y
    OBVIOUS
  <2>1. n - x <= n - y
    BY <1>0, <1>1, <1>2
  <2> QED BY <1>0, <2>1
<1> QED BY <1>3 DEF Max

LEMMA MaxOf ==
  ASSUME NEW n \in Nat, NEW s, s \subseteq 1 .. n, n \in s
  PROVE  Max(s) = n
<1>1. n \in s /\ \A y \in s : n >= y
  OBVIOUS
<1>2. \A x \in s : (\A y \in s : x >= y) => x = n
  OBVIOUS
<1> QED BY <1>1, <1>2 DEF Max

\* The steps of a fold: what it has made of each beginning of the sequence.
LEMMA Steps ==
  ASSUME NEW n \in Nat
  PROVE  \A k \in 1 .. n : /\ Max(1 .. k) = k /\ (1 .. k) \ {k} = 1 .. k - 1
                           /\ 1 .. k \in SUBSET (1 .. n) /\ 1 .. k # {}
<1> SUFFICES ASSUME NEW k \in 1 .. n
             PROVE  /\ Max(1 .. k) = k /\ (1 .. k) \ {k} = 1 .. k - 1
                    /\ 1 .. k \in SUBSET (1 .. n) /\ 1 .. k # {}
  OBVIOUS
<1>1. Max(1 .. k) = k
  BY MaxOf
<1> QED BY <1>1



Folds(f, F, base, seq, n) ==
  \A s \in SUBSET (1 .. n) :
    f[s] = IF s = {} THEN base ELSE F[<<f[s \ {Max(s)}], seq[Max(s)]>>]

LEMMA FoldExists ==
  ASSUME NEW T, NEW E, NEW base \in T, NEW seq \in Seq(E), NEW F \in [T \X E -> T]
  PROVE  \E f \in [SUBSET (1 .. Len(seq)) -> T] : Folds(f, F, base, seq, Len(seq))
<1> DEFINE P(n) == n <= Len(seq) => \E f \in [SUBSET (1 .. n) -> T] : Folds(f, F, base, seq, n)
           S == {n \in Nat : P(n)}
<1>1. Len(seq) \in Nat
  OBVIOUS
<1>2. P(0)
  <2>1. SUBSET (1 .. 0) = {{}}
    OBVIOUS
  <2>2. Folds([s \in SUBSET (1 .. 0) |-> base], F, base, seq, 0)
    BY <2>1 DEF Folds
  <2> QED BY <2>2
<1>3. ASSUME NEW n \in Nat, P(n) PROVE P(n + 1)
  <2> SUFFICES ASSUME n + 1 <= Len(seq)
               PROVE  \E f \in [SUBSET (1 .. n + 1) -> T] : Folds(f, F, base, seq, n + 1)
    OBVIOUS
  <2>1. PICK f \in [SUBSET (1 .. n) -> T] : Folds(f, F, base, seq, n)
    <3>1. n <= Len(seq)
      BY <1>1
    <3> QED BY <1>3, <3>1
  <2> DEFINE g == [s \in SUBSET (1 .. n + 1) |->
                     IF n + 1 \in s THEN F[<<f[s \ {n + 1}], seq[n + 1]>>] ELSE f[s]]
  <2>2. seq[n + 1] \in E
    BY <1>1
  <2>3. \A s \in SUBSET (1 .. n + 1) : s \ {n + 1} \in SUBSET (1 .. n)
    OBVIOUS
  <2>4. \A s \in SUBSET (1 .. n + 1) : n + 1 \notin s => s \in SUBSET (1 .. n)
    OBVIOUS
  <2>5. g \in [SUBSET (1 .. n + 1) -> T]
    <3> SUFFICES ASSUME NEW s \in SUBSET (1 .. n + 1)
                 PROVE (IF n + 1 \in s THEN F[<<f[s \ {n + 1}], seq[n + 1]>>] ELSE f[s]) \in T
      OBVIOUS
    <3>1. f[s \ {n + 1}] \in T
      BY <2>3
    <3> QED BY <3>1, <2>2, <2>4
  <2>6. ASSUME NEW s \in SUBSET (1 .. n + 1)
        PROVE g[s] = IF s = {} THEN base ELSE F[<<g[s \ {Max(s)}], seq[Max(s)]>>]
    <3>1. CASE n + 1 \in s
      <4>1. Max(s) = n + 1
        <5>1. n + 1 \in Nat /\ s \subseteq 1 .. n + 1
          OBVIOUS
        <5> HIDE DEF g
        <5> QED BY <3>1, <5>1, MaxOf
      <4>2. g[s \ {n + 1}] = f[s \ {n + 1}]
        BY <2>3
      <4>3. g[s] = F[<<f[s \ {n + 1}], seq[n + 1]>>]
        BY <3>1
      <4> HIDE DEF g
      <4> QED BY <3>1, <4>1, <4>2, <4>3
    <3>2. CASE n + 1 \notin s
      <4>1. s \in SUBSET (1 .. n) /\ s \ {Max(s)} \in SUBSET (1 .. n)
        BY <3>2, <2>4
      <4>2. g[s] = f[s] /\ g[s \ {Max(s)}] = f[s \ {Max(s)}]
        BY <3>2, <4>1, <2>4
      <4> HIDE DEF g
      <4> QED BY <2>1, <4>1, <4>2 DEF Folds
    <3> QED BY <3>1, <3>2
  <2>7. Folds(g, F, base, seq, n + 1)
    <3> HIDE DEF g
    <3> QED BY <2>6 DEF Folds
  <2> QED
    <3> HIDE DEF g
    <3> QED BY <2>5, <2>7
<1>4. Nat \subseteq S
  <2>1. 0 \in S /\ \A n \in Nat : n \in S => n + 1 \in S
    <3> HIDE DEF P
    <3> QED BY <1>2, <1>3
  <2> HIDE DEF S
  <2> QED BY <2>1, SetInduction
<1>5. P(Len(seq))
  <2> HIDE DEF P
  <2> QED BY <1>1, <1>4
<1>6. Len(seq) <= Len(seq)
  BY <1>1
<1> QED BY <1>5, <1>6

FoldOf(f, F, base, seq, T, E) ==
  /\ f[{}] = base
  /\ \A s \in SUBSET (1 .. Len(seq)) : s # {} =>
       /\ f[s \ {Max(s)}] \in T /\ seq[Max(s)] \in E
       /\ f[s] = F[<<f[s \ {Max(s)}], seq[Max(s)]>>]

LEMMA FoldByFunction ==
  ASSUME NEW T, NEW E, NEW base \in T, NEW seq \in Seq(E), NEW F \in [T \X E -> T]
  PROVE  \E f \in [SUBSET (1 .. Len(seq)) -> T] : FoldOf(f, F, base, seq, T, E)
<1>1. PICK f \in [SUBSET (1 .. Len(seq)) -> T] : Folds(f, F, base, seq, Len(seq))
  BY FoldExists
<1>2. f[{}] = base
  BY <1>1 DEF Folds
<1>3. ASSUME NEW s \in SUBSET (1 .. Len(seq)), s # {}
      PROVE  /\ f[s \ {Max(s)}] \in T /\ seq[Max(s)] \in E
             /\ f[s] = F[<<f[s \ {Max(s)}], seq[Max(s)]>>]
  <2>1. Max(s) \in s
    <3>1. Len(seq) \in Nat
      OBVIOUS
    <3> QED BY <1>3, <3>1, MaxIn
  <2>2. s \ {Max(s)} \in SUBSET (1 .. Len(seq)) /\ Max(s) \in 1 .. Len(seq)
    BY <2>1
  <2>3. f[s \ {Max(s)}] \in T /\ seq[Max(s)] \in E
    BY <2>2
  <2> QED BY <1>1, <1>3, <2>3 DEF Folds
<1> QED BY <1>2, <1>3 DEF FoldOf

LEMMA SeqByElements ==
  ASSUME NEW n \in Nat, NEW S, NEW s, s = [i \in 1 .. n |-> s[i]], \A i \in 1 .. n : s[i] \in S
  PROVE  s \in Seq(S) /\ Len(s) = n
<1>1. s \in [1 .. n -> S]
  BY Zenon
<1> QED BY <1>1
-----------------------------------------------------------------------------
(* The MCP tools: what mcp_bridges_start leaves in the registry, the table and  *)
(* the list of tools offered, and that mcp_bridges_stop takes all of it out.    *)

Tool == [full : STRING, tool : STRING]
Bridged == [full : STRING, server : STRING, tool : STRING]

\* The registry is the built-in tools and then the first tools offered, the table
\* the first tools offered, each as many as fit; and no name is registered twice.
Fits(length, all, limit) ==
  /\ length <= all /\ length <= limit
  /\ length = all \/ length = limit

Registered(registry, offered) ==
  /\ Len(Builtins) <= Len(registry)
  /\ Fits(Len(registry), Len(Builtins) + Len(offered), MAX_REGISTRY)
  /\ \A i \in 1 .. Len(Builtins) : registry[i] = Builtins[i]
  /\ \A i \in 1 .. Len(offered) :
       /\ Len(Builtins) + i <= Len(registry) => registry[Len(Builtins) + i] = offered[i].full
       /\ \A j \in 1 .. Len(registry) : registry[j] = offered[i].full => j = Len(Builtins) + i

Tabled(table, offered) ==
  /\ Fits(Len(table), Len(offered), MAX_MCP_TOOLS)
  /\ \A i \in 1 .. Len(table) : table[i] = offered[i]

BridgesInv(t) ==
  /\ t \in [registry : Seq(STRING), table : Seq(Bridged), offered : Seq(Bridged)]
  /\ Registered(t.registry, t.offered) /\ Tabled(t.table, t.offered)

LEMMA SelectsName ==
  ASSUME NEW s, Len(s) \in Nat, NEW name
  PROVE  LET i == SelectInSeq(s, LAMBDA n : n = name)
         IN  \/ i = 0 /\ \A k \in 1 .. Len(s) : s[k] # name
             \/ i \in 1 .. Len(s) /\ s[i] = name
<1> DEFINE I == {k \in 1 .. Len(s) : s[k] = name}
<1>1. SelectInSeq(s, LAMBDA n : n = name) = IF I # {} THEN Min(I) ELSE 0
  BY DEF SelectInSeq
<1>2. I # {} => Min(I) \in I
  <2>1. I \subseteq Nat
    OBVIOUS
  <2> HIDE DEF I
  <2>2. I # {} => \E x \in I : \A y \in I : x <= y
    BY <2>1, LeastOf
  <2> QED BY <2>2 DEF Min
<1> QED BY <1>1, <1>2

LEMMA SelectsEntry ==
  ASSUME NEW s, Len(s) \in Nat, NEW name
  PROVE  LET i == SelectInSeq(s, LAMBDA e : e.full = name)
         IN  \/ i = 0 /\ \A k \in 1 .. Len(s) : s[k].full # name
             \/ i \in 1 .. Len(s) /\ s[i].full = name
<1> DEFINE I == {k \in 1 .. Len(s) : s[k].full = name}
<1>1. SelectInSeq(s, LAMBDA e : e.full = name) = IF I # {} THEN Min(I) ELSE 0
  BY DEF SelectInSeq
<1>2. I # {} => Min(I) \in I
  <2>1. I \subseteq Nat
    OBVIOUS
  <2> HIDE DEF I
  <2>2. I # {} => \E x \in I : \A y \in I : x <= y
    BY <2>1, LeastOf
  <2> QED BY <2>2 DEF Min
<1> QED BY <1>1, <1>2

LEMMA BridgeKeeps ==
  ASSUME NEW t, BridgesInv(t), NEW s \in STRING, NEW info \in Tool
  PROVE  BridgesInv(Bridge(t, s, info))
<1> DEFINE entry == [full |-> info.full, server |-> s, tool |-> info.tool]
           u == Bridge(t, s, info)
           registry == tool_registry_add(t.registry, info.full)
           table == IF Len(t.table) < MAX_MCP_TOOLS THEN Append(t.table, entry) ELSE t.table
           offered == Append(t.offered, entry)
<1>1. CASE tool_registry_find(t, info.full)
  BY <1>1 DEF Bridge
<1>2. CASE ~tool_registry_find(t, info.full)
  <2>1. u = [registry |-> registry, table |-> table, offered |-> offered]
    BY <1>2 DEF Bridge
  <2>2. entry \in Bridged /\ entry.full = info.full /\ info.full \in STRING
    BY DEF Bridged, Tool
  <2> HIDE DEF entry
  <2>3. /\ t.registry \in Seq(STRING) /\ t.table \in Seq(Bridged) /\ t.offered \in Seq(Bridged)
        /\ Len(t.registry) \in Nat /\ Len(t.table) \in Nat /\ Len(t.offered) \in Nat
        /\ Len(Builtins) \in Nat /\ MAX_REGISTRY \in Nat /\ MAX_MCP_TOOLS \in Nat
    BY BridgesAssumption DEF BridgesInv
  <2>4. \A j \in 1 .. Len(t.registry) : t.registry[j] # info.full
    BY <1>2, <2>3 DEF tool_registry_find, Contains
  <2>5. /\ offered \in Seq(Bridged) /\ Len(offered) = Len(t.offered) + 1
        /\ offered[Len(t.offered) + 1] = entry
        /\ \A i \in 1 .. Len(t.offered) : offered[i] = t.offered[i]
    BY <2>2, <2>3
  <2>6. /\ registry \in Seq(STRING)
        /\ Len(t.registry) < MAX_REGISTRY =>
             Len(registry) = Len(t.registry) + 1 /\ registry[Len(t.registry) + 1] = info.full
        /\ Len(t.registry) >= MAX_REGISTRY => Len(registry) = Len(t.registry)
        /\ \A i \in 1 .. Len(t.registry) : registry[i] = t.registry[i]
    <3>1. CASE Len(t.registry) >= MAX_REGISTRY
      BY <2>3, <3>1 DEF tool_registry_add
    <3>2. CASE Len(t.registry) < MAX_REGISTRY
      <4>1. registry = Append(t.registry, info.full)
        BY <2>3, <3>2 DEF tool_registry_add
      <4> QED BY <2>2, <2>3, <3>2, <4>1
    <3> QED BY <2>3, <3>1, <3>2
  <2>7. /\ table \in Seq(Bridged)
        /\ Len(t.table) < MAX_MCP_TOOLS =>
             Len(table) = Len(t.table) + 1 /\ table[Len(t.table) + 1] = entry
        /\ Len(t.table) >= MAX_MCP_TOOLS => Len(table) = Len(t.table)
        /\ \A i \in 1 .. Len(t.table) : table[i] = t.table[i]
    BY <2>2, <2>3
  <2> HIDE DEF offered, registry, table
  <2>8. /\ u.registry = registry /\ u.table = table /\ u.offered = offered
        /\ u \in [registry : Seq(STRING), table : Seq(Bridged), offered : Seq(Bridged)]
    BY <2>1, <2>5, <2>6, <2>7
  <2> HIDE DEF u
  <2>9. Registered(registry, offered)
    <3>1. /\ Len(Builtins) <= Len(t.registry)
          /\ Fits(Len(t.registry), Len(Builtins) + Len(t.offered), MAX_REGISTRY)
          /\ \A i \in 1 .. Len(Builtins) : t.registry[i] = Builtins[i]
      BY DEF BridgesInv, Registered
    <3>2. /\ Len(Builtins) <= Len(registry)
          /\ Fits(Len(registry), Len(Builtins) + Len(offered), MAX_REGISTRY)
      <4>1. /\ Len(registry) = IF Len(t.registry) < MAX_REGISTRY
                               THEN Len(t.registry) + 1 ELSE Len(t.registry)
            /\ Len(offered) = Len(t.offered) + 1
        BY <2>3, <2>5, <2>6
      <4>2. /\ Len(t.registry) \in Nat /\ Len(t.offered) \in Nat
            /\ Len(Builtins) \in Nat /\ MAX_REGISTRY \in Nat
        BY <2>3
      <4> QED BY <3>1, <4>1, <4>2 DEF Fits
    <3>3. \A i \in 1 .. Len(Builtins) : registry[i] = Builtins[i]
      BY <2>3, <2>6, <3>1
    <3>4. ASSUME NEW i \in 1 .. Len(t.offered)
          PROVE  /\ Len(Builtins) + i <= Len(registry) => registry[Len(Builtins) + i] = offered[i].full
                 /\ \A j \in 1 .. Len(registry) :
                      registry[j] = offered[i].full => j = Len(Builtins) + i
      <4>1. offered[i] = t.offered[i]
        BY <2>5
      <4>2. /\ Len(Builtins) + i <= Len(t.registry) => t.registry[Len(Builtins) + i] = t.offered[i].full
            /\ \A j \in 1 .. Len(t.registry) :
                 t.registry[j] = t.offered[i].full => j = Len(Builtins) + i
        BY DEF BridgesInv, Registered
      <4>3. Len(t.registry) < MAX_REGISTRY => Len(Builtins) + i \in 1 .. Len(t.registry)
        BY <2>3, <3>1 DEF Fits
      <4>4. Len(Builtins) + i <= Len(registry) => Len(Builtins) + i \in 1 .. Len(t.registry)
        BY <2>3, <2>6, <4>3
      <4>5. Len(Builtins) + i <= Len(registry) => registry[Len(Builtins) + i] = offered[i].full
        BY <2>3, <2>6, <4>1, <4>2, <4>4
      <4>6. ASSUME NEW j \in 1 .. Len(registry), registry[j] = offered[i].full
            PROVE  j = Len(Builtins) + i
        <5>1. CASE j \in 1 .. Len(t.registry)
          BY <2>6, <4>1, <4>2, <4>6, <5>1
        <5>2. CASE j \notin 1 .. Len(t.registry)
          <6>1. Len(t.registry) < MAX_REGISTRY /\ registry[j] = info.full
            BY <2>3, <2>6, <5>2
          <6>2. t.registry[Len(Builtins) + i] = info.full
            BY <4>1, <4>2, <4>3, <4>6, <6>1
          <6> QED BY <2>4, <4>3, <6>1, <6>2
        <5> QED BY <5>1, <5>2
      <4> QED BY <4>5, <4>6
    <3>5. ASSUME NEW i \in 1 .. Len(offered), i \notin 1 .. Len(t.offered)
          PROVE  /\ Len(Builtins) + i <= Len(registry) => registry[Len(Builtins) + i] = offered[i].full
                 /\ \A j \in 1 .. Len(registry) :
                      registry[j] = offered[i].full => j = Len(Builtins) + i
      <4>1. i = Len(t.offered) + 1 /\ offered[i].full = info.full
        BY <2>2, <2>3, <2>5, <3>5
      <4>2. Len(t.registry) < MAX_REGISTRY => Len(t.registry) + 1 = Len(Builtins) + i
        BY <2>3, <3>1, <4>1 DEF Fits
      <4>3. Len(Builtins) + i <= Len(registry) => Len(t.registry) < MAX_REGISTRY
        BY <2>3, <2>6, <3>1, <4>1 DEF Fits
      <4>4. ASSUME NEW j \in 1 .. Len(registry), registry[j] = info.full
            PROVE  j = Len(Builtins) + i
        <5>1. j = Len(t.registry) + 1 /\ Len(t.registry) < MAX_REGISTRY
          BY <2>3, <2>4, <2>6, <4>4
        <5> QED BY <4>2, <5>1
      <4> QED BY <2>6, <4>1, <4>2, <4>3, <4>4
    <3> QED BY <3>2, <3>3, <3>4, <3>5 DEF Registered
  <2>10. Tabled(table, offered)
    <3>1. Fits(Len(t.table), Len(t.offered), MAX_MCP_TOOLS)
      BY DEF BridgesInv, Tabled
    <3>2. Fits(Len(table), Len(offered), MAX_MCP_TOOLS)
      BY <2>3, <2>5, <2>7, <3>1 DEF Fits
    <3>3. ASSUME NEW i \in 1 .. Len(table) PROVE table[i] = offered[i]
      <4>1. CASE i \in 1 .. Len(t.table)
        <5>1. t.table[i] = t.offered[i] /\ i \in 1 .. Len(t.offered)
          BY <2>3, <3>1, <4>1 DEF BridgesInv, Tabled, Fits
        <5> QED BY <2>5, <2>7, <4>1, <5>1
      <4>2. CASE i \notin 1 .. Len(t.table)
        <5>1. Len(t.table) < MAX_MCP_TOOLS /\ i = Len(t.table) + 1
          BY <2>3, <2>7, <4>2
        <5>2. Len(t.table) = Len(t.offered)
          BY <2>3, <3>1, <5>1 DEF Fits
        <5> QED BY <2>5, <2>7, <5>1, <5>2
      <4> QED BY <4>1, <4>2
    <3> QED BY <3>2, <3>3 DEF Tabled
  <2>11. BridgesInv(u)
    BY <2>8, <2>9, <2>10, Zenon DEF BridgesInv
  <2> QED BY <2>11 DEF u
<1> QED BY <1>1, <1>2

TablesSet == [registry : Seq(STRING), table : Seq(Bridged), offered : Seq(Bridged)]

LEMMA ServerKeeps ==
  ASSUME NEW t, BridgesInv(t), NEW s \in STRING, NEW seq \in Seq(Tool)
  PROVE  BridgesInv(FoldLeft(LAMBDA u, info : Bridge(u, s, info), t, seq))
<1> DEFINE T == {u \in TablesSet : BridgesInv(u)}
           F == [p \in T \X Tool |-> Bridge(p[1], s, p[2])]
           D == SUBSET (1 .. Len(seq))
           G(g) == g = [r \in D |-> IF r = {} THEN t ELSE Bridge(g[r \ {Max(r)}], s, seq[Max(r)])]
           g0 == CHOOSE g : G(g)
<1>1. t \in T /\ (\A u \in T, info \in Tool : Bridge(u, s, info) \in T)
      /\ \A u \in T : BridgesInv(u)
  BY BridgeKeeps DEF BridgesInv, TablesSet
<1>2. F = [p \in T \X Tool |-> Bridge(p[1], s, p[2])]
  OBVIOUS
<1>3. Len(seq) \in Nat /\ DOMAIN seq = 1 .. Len(seq)
  OBVIOUS
<1>4. FoldLeft(LAMBDA u, info : Bridge(u, s, info), t, seq) = g0[1 .. Len(seq)]
  BY <1>3 DEF FoldLeft, MapThenFoldSet
<1> HIDE DEF T, F
<1>5. \E f : G(f)
  <2>1. F \in [T \X Tool -> T]
    BY <1>1, <1>2
  <2>2. PICK f \in [D -> T] : FoldOf(f, F, t, seq, T, Tool)
    <3>1. t \in T
      BY <1>1
    <3> HIDE DEF G, g0
    <3> QED BY <2>1, <3>1, FoldByFunction
  <2>3. \A r \in D : f[r] = IF r = {} THEN t ELSE Bridge(f[r \ {Max(r)}], s, seq[Max(r)])
    BY <1>2, <2>2 DEF FoldOf
  <2>4. f = [r \in D |-> f[r]]
    OBVIOUS
  <2> QED BY <2>3, <2>4, Zenon
<1>6. G(g0)
  <2> HIDE DEF G
  <2> QED BY <1>5
<1> HIDE DEF g0
<1> DEFINE S == {k \in 0 .. Len(seq) : g0[1 .. k] \in T}
<1>7. 0 \in S
  <2>1. 1 .. 0 = {} /\ {} \in D
    OBVIOUS
  <2>2. g0[{}] = t
    BY <1>6, <2>1
  <2> QED BY <1>1, <1>3, <2>1, <2>2
<1>8. ASSUME NEW k \in 1 .. Len(seq), k - 1 \in S PROVE k \in S
  <2>1. /\ Max(1 .. k) = k /\ (1 .. k) \ {k} = 1 .. k - 1
        /\ 1 .. k \in D /\ 1 .. k # {}
    BY <1>3, Steps
  <2>2. g0[1 .. k] = Bridge(g0[1 .. k - 1], s, seq[k])
    BY <1>6, <2>1
  <2>3. g0[1 .. k - 1] \in T /\ seq[k] \in Tool
    BY <1>3, <1>8
  <2>4. g0[1 .. k] \in T
    BY <1>1, <2>2, <2>3
  <2> QED BY <1>3, <2>4
<1>9. Len(seq) \in S
  <2> HIDE DEF S
  <2>1. \A k \in 0 .. Len(seq) : k \in S
    BY <1>3, <1>7, <1>8, UpTo
  <2> QED BY <1>3, <2>1
<1> QED BY <1>1, <1>4, <1>9

LEMMA StartBridges ==
  ASSUME NEW enabled, NEW failing
  PROVE  BridgesInv(mcp_bridges_start(enabled, failing))
<1> DEFINE started == enabled \ failing
           T == {u \in TablesSet : BridgesInv(u)}
           E == {Servers[i] : i \in DOMAIN Servers}
           F == [p \in T \X E |-> BridgeServer(p[1], p[2], started)]
           D == SUBSET (1 .. Len(Servers))
           G(g) == g = [r \in D |-> IF r = {} THEN Tables
                                    ELSE BridgeServer(g[r \ {Max(r)}], Servers[Max(r)], started)]
           g0 == CHOOSE g : G(g)
<1>1. /\ \A u \in T : BridgesInv(u) /\ u \in TablesSet
      /\ \A u \in TablesSet : BridgesInv(u) => u \in T
  OBVIOUS
<1>2. F = [p \in T \X E |-> BridgeServer(p[1], p[2], started)]
  OBVIOUS
<1>3. /\ Len(Servers) \in Nat /\ DOMAIN Servers = 1 .. Len(Servers)
      /\ \A s \in E : s \in STRING /\ ToolsOf[s] \in Seq(Tool)
      /\ \A k \in DOMAIN Servers : Servers[k] \in E
  BY BridgesAssumption DEF Tool
<1>4. Servers \in Seq(E)
  BY <1>3, BridgesAssumption, SeqOfElements
<1>5. mcp_bridges_start(enabled, failing) = g0[1 .. Len(Servers)]
  BY <1>3 DEF mcp_bridges_start, FoldLeft, MapThenFoldSet
<1> HIDE DEF started, T, E, F
<1>6. Tables \in T
  <2>1. /\ Builtins \in Seq(STRING) /\ Len(Builtins) \in Nat
        /\ MAX_REGISTRY \in Nat /\ MAX_MCP_TOOLS \in Nat /\ Len(Builtins) <= MAX_REGISTRY
    BY BridgesAssumption
  <2>2. /\ Tables.registry = Builtins /\ Tables.table = <<>> /\ Tables.offered = <<>>
        /\ Tables \in TablesSet
    BY <2>1 DEF Tables, TablesSet
  <2>3. Registered(Builtins, <<>>) /\ Tabled(<<>>, <<>>)
    BY <2>1 DEF Registered, Tabled, Fits
  <2>4. BridgesInv(Tables)
    BY <2>2, <2>3, Zenon DEF BridgesInv, TablesSet
  <2> QED BY <1>1, <2>2, <2>4
<1>7. ASSUME NEW u \in T, NEW s \in E PROVE BridgeServer(u, s, started) \in T
  <2>1. CASE s \notin started
    BY <2>1 DEF BridgeServer
  <2>2. CASE s \in started
    <3>1. BridgesInv(u) /\ s \in STRING /\ ToolsOf[s] \in Seq(Tool)
      BY <1>1, <1>3
    <3>2. BridgesInv(BridgeServer(u, s, started))
      BY <2>2, <3>1, ServerKeeps DEF BridgeServer
    <3>3. BridgeServer(u, s, started) \in TablesSet
      BY <3>2 DEF BridgesInv, TablesSet
    <3> QED BY <1>1, <3>2, <3>3
  <2> QED BY <2>1, <2>2
<1>8. \E f : G(f)
  <2>1. F \in [T \X E -> T]
    BY <1>2, <1>7
  <2>2. PICK f \in [D -> T] : FoldOf(f, F, Tables, Servers, T, E)
    <3> HIDE DEF G, g0
    <3> QED BY <1>4, <1>6, <2>1, FoldByFunction
  <2>3. \A r \in D : f[r] = IF r = {} THEN Tables
                            ELSE BridgeServer(f[r \ {Max(r)}], Servers[Max(r)], started)
    BY <1>2, <2>2 DEF FoldOf
  <2>4. f = [r \in D |-> f[r]]
    OBVIOUS
  <2> QED BY <2>3, <2>4, Zenon
<1>9. G(g0)
  <2> HIDE DEF G
  <2> QED BY <1>8
<1> HIDE DEF g0
<1> DEFINE S == {k \in 0 .. Len(Servers) : g0[1 .. k] \in T}
<1>10. 0 \in S
  <2>1. 1 .. 0 = {} /\ {} \in D
    OBVIOUS
  <2>2. g0[{}] = Tables
    BY <1>9, <2>1
  <2> QED BY <1>3, <1>6, <2>1, <2>2
<1>11. ASSUME NEW k \in 1 .. Len(Servers), k - 1 \in S PROVE k \in S
  <2>1. /\ Max(1 .. k) = k /\ (1 .. k) \ {k} = 1 .. k - 1
        /\ 1 .. k \in D /\ 1 .. k # {}
    BY <1>3, Steps
  <2>2. g0[1 .. k] = BridgeServer(g0[1 .. k - 1], Servers[k], started)
    BY <1>9, <2>1
  <2>3. g0[1 .. k - 1] \in T /\ Servers[k] \in E
    BY <1>3, <1>11
  <2>4. g0[1 .. k] \in T
    BY <1>7, <2>2, <2>3
  <2> QED BY <1>3, <2>4
<1>12. Len(Servers) \in S
  <2> HIDE DEF S
  <2>1. \A k \in 0 .. Len(Servers) : k \in S
    BY <1>3, <1>10, <1>11, UpTo
  <2> QED BY <1>3, <2>1
<1> QED BY <1>1, <1>5, <1>12

\* What is left in a list, from low + 1 to high, while the k-th tool offered and
\* those behind it are still to be removed: each element is of one of them.
Rest(name, low, high, offered, k) ==
  \E m \in [low + 1 .. high -> k .. Len(offered)] :
    \A p \in low + 1 .. high :
      /\ name[p] = offered[m[p]].full
      /\ \A q \in low + 1 .. high : m[p] = m[q] => p = q

LEMMA RestOfNone ==
  ASSUME NEW low \in Nat, NEW high \in Nat, low <= high, NEW offered, Len(offered) \in Nat,
         NEW name, Rest(name, low, high, offered, Len(offered) + 1)
  PROVE  high = low
<1> SUFFICES ASSUME low + 1 \in low + 1 .. high PROVE FALSE
  OBVIOUS
<1>1. PICK m : m \in [low + 1 .. high -> Len(offered) + 1 .. Len(offered)]
  BY DEF Rest
<1>2. m[low + 1] \in Len(offered) + 1 .. Len(offered)
  BY <1>1
<1> QED BY <1>2

LEMMA RestAbsent ==
  ASSUME NEW low \in Nat, NEW high \in Nat, NEW offered, Len(offered) \in Nat,
         NEW k \in 1 .. Len(offered), NEW name, Rest(name, low, high, offered, k),
         \A p \in low + 1 .. high : name[p] # offered[k].full
  PROVE  Rest(name, low, high, offered, k + 1)
<1>1. PICK m \in [low + 1 .. high -> k .. Len(offered)] :
        \A p \in low + 1 .. high :
          /\ name[p] = offered[m[p]].full
          /\ \A q \in low + 1 .. high : m[p] = m[q] => p = q
  BY DEF Rest
<1>2. \A p \in low + 1 .. high : m[p] \in k + 1 .. Len(offered)
  BY <1>1
<1>3. m \in [low + 1 .. high -> k + 1 .. Len(offered)]
  BY <1>2
<1> QED BY <1>1, <1>3 DEF Rest

LEMMA RestSwapped ==
  ASSUME NEW low \in Nat, NEW high \in Nat, NEW offered, Len(offered) \in Nat,
         NEW k \in 1 .. Len(offered), NEW name, Rest(name, low, high, offered, k),
         NEW i \in low + 1 .. high, name[i] = offered[k].full,
         NEW swapped, \A p \in low + 1 .. high - 1 : swapped[p] = name[IF p = i THEN high ELSE p]
  PROVE  Rest(swapped, low, high - 1, offered, k + 1)
<1>1. PICK m \in [low + 1 .. high -> k .. Len(offered)] :
        \A p \in low + 1 .. high :
          /\ name[p] = offered[m[p]].full
          /\ \A q \in low + 1 .. high : m[p] = m[q] => p = q
  BY DEF Rest
<1> DEFINE from(p) == IF p = i THEN high ELSE p
           to(v) == IF v = k THEN m[i] ELSE v
           n == [p \in low + 1 .. high - 1 |-> to(m[from(p)])]
<1>2. ASSUME NEW p \in low + 1 .. high - 1
      PROVE  from(p) \in low + 1 .. high /\ from(p) # i
             /\ \A q \in low + 1 .. high - 1 : from(p) = from(q) => p = q
  OBVIOUS
<1> HIDE DEF from
<1>3. ASSUME NEW p \in low + 1 .. high - 1
      PROVE  /\ m[from(p)] \in k .. Len(offered) /\ m[i] \in k .. Len(offered)
             /\ m[from(p)] # m[i]
  BY <1>1, <1>2
<1>4. n \in [low + 1 .. high - 1 -> k + 1 .. Len(offered)]
  BY <1>3
<1>5. ASSUME NEW p \in low + 1 .. high - 1
      PROVE  swapped[p] = offered[n[p]].full
  <2>1. swapped[p] = name[from(p)]
    BY DEF from
  <2>2. name[from(p)] = offered[m[from(p)]].full /\ name[i] = offered[m[i]].full
    BY <1>1, <1>2
  <2> QED BY <2>1, <2>2
<1>6. ASSUME NEW p \in low + 1 .. high - 1, NEW q \in low + 1 .. high - 1, n[p] = n[q]
      PROVE  p = q
  <2>1. m[from(p)] = m[from(q)]
    BY <1>3, <1>6
  <2>2. from(p) = from(q)
    BY <1>1, <1>2, <2>1
  <2> QED BY <1>2, <2>2
<1> HIDE DEF n
<1> QED BY <1>4, <1>5, <1>6 DEF Rest

LEMMA Swaps ==
  ASSUME NEW S, NEW s \in Seq(S), NEW i \in 0 .. Len(s)
  PROVE  /\ SwapOut(s, i) \in Seq(S)
         /\ i = 0 => SwapOut(s, i) = s
         /\ i # 0 => /\ Len(SwapOut(s, i)) = Len(s) - 1
                     /\ \A k \in 1 .. Len(s) - 1 : SwapOut(s, i)[k] = s[IF k = i THEN Len(s) ELSE k]
<1>1. CASE i = 0
  BY <1>1 DEF SwapOut
<1>2. CASE i # 0
  <2>1. Len(s) \in Nat /\ Len(s) - 1 \in Nat /\ \A k \in 1 .. Len(s) : s[k] \in S
    BY <1>2, ElementOfSeq
  <2>2. SwapOut(s, i) = [k \in 1 .. Len(s) - 1 |-> IF k = i THEN s[Len(s)] ELSE s[k]]
    BY <1>2 DEF SwapOut
  <2>3. SwapOut(s, i) \in Seq(S) /\ Len(SwapOut(s, i)) = Len(s) - 1
    BY <2>1, <2>2
  <2> QED BY <1>2, <2>2, <2>3
<1> QED BY <1>1, <1>2

Names(table) == [p \in 1 .. Len(table) |-> table[p].full]

\* The tables while mcp_bridges_stop is about to remove the k-th tool offered.
StoppingInv(u, offered, k) ==
  /\ u \in TablesSet
  /\ Len(Builtins) <= Len(u.registry)
  /\ \A i \in 1 .. Len(Builtins) : u.registry[i] = Builtins[i]
  /\ Rest(u.registry, Len(Builtins), Len(u.registry), offered, k)
  /\ Rest(Names(u.table), 0, Len(u.table), offered, k)

\* Each list loses its first element of that name.
LEMMA UnbridgeSwaps ==
  ASSUME NEW u \in TablesSet, NEW o \in Bridged
  PROVE  \E r, e :
           /\ \/ r = 0 /\ \A k \in 1 .. Len(u.registry) : u.registry[k] # o.full
              \/ r \in 1 .. Len(u.registry) /\ u.registry[r] = o.full
           /\ \/ e = 0 /\ \A k \in 1 .. Len(u.table) : u.table[k].full # o.full
              \/ e \in 1 .. Len(u.table) /\ u.table[e].full = o.full
           /\ Unbridge(u, o) = [registry |-> SwapOut(u.registry, r),
                                table |-> SwapOut(u.table, e), offered |-> u.offered]
<1> DEFINE r == SelectInSeq(u.registry, LAMBDA n : n = o.full)
           e == SelectInSeq(u.table, LAMBDA n : n.full = o.full)
<1>1. Len(u.registry) \in Nat /\ Len(u.table) \in Nat
  BY DEF TablesSet
<1>2. \/ r = 0 /\ \A k \in 1 .. Len(u.registry) : u.registry[k] # o.full
      \/ r \in 1 .. Len(u.registry) /\ u.registry[r] = o.full
  BY <1>1, SelectsName
<1>3. \/ e = 0 /\ \A k \in 1 .. Len(u.table) : u.table[k].full # o.full
      \/ e \in 1 .. Len(u.table) /\ u.table[e].full = o.full
  BY <1>1, SelectsEntry
<1>4. Unbridge(u, o) = [u EXCEPT !.registry = SwapOut(u.registry, r),
                                 !.table = SwapOut(u.table, e)]
  BY DEF Unbridge, tool_registry_remove
<1> HIDE DEF r, e
<1>5. u = [registry |-> u.registry, table |-> u.table, offered |-> u.offered]
  BY DEF TablesSet
<1>6. Unbridge(u, o) = [registry |-> SwapOut(u.registry, r), table |-> SwapOut(u.table, e),
                        offered |-> u.offered]
  BY <1>4, <1>5
<1> QED BY <1>2, <1>3, <1>6

LEMMA UnbridgeTyped ==
  ASSUME NEW u \in TablesSet, NEW o \in Bridged
  PROVE  Unbridge(u, o) \in TablesSet
<1>1. PICK r, e :
        /\ \/ r = 0 /\ \A k \in 1 .. Len(u.registry) : u.registry[k] # o.full
           \/ r \in 1 .. Len(u.registry) /\ u.registry[r] = o.full
        /\ \/ e = 0 /\ \A k \in 1 .. Len(u.table) : u.table[k].full # o.full
           \/ e \in 1 .. Len(u.table) /\ u.table[e].full = o.full
        /\ Unbridge(u, o) = [registry |-> SwapOut(u.registry, r),
                             table |-> SwapOut(u.table, e), offered |-> u.offered]
  BY UnbridgeSwaps
<1>2. /\ u.registry \in Seq(STRING) /\ u.table \in Seq(Bridged) /\ u.offered \in Seq(Bridged)
      /\ r \in 0 .. Len(u.registry) /\ e \in 0 .. Len(u.table)
  BY <1>1 DEF TablesSet
<1>3. SwapOut(u.registry, r) \in Seq(STRING) /\ SwapOut(u.table, e) \in Seq(Bridged)
  BY <1>2, Swaps
<1> QED BY <1>1, <1>2, <1>3 DEF TablesSet

LEMMA UnbridgeKeeps ==
  ASSUME NEW offered \in Seq(Bridged), NEW k \in 1 .. Len(offered),
         NEW u, StoppingInv(u, offered, k),
         \A i \in 1 .. Len(Builtins) : Builtins[i] # offered[k].full
  PROVE  StoppingInv(Unbridge(u, offered[k]), offered, k + 1)
<1> DEFINE name == offered[k].full
           v == Unbridge(u, offered[k])
<1>1. /\ u.registry \in Seq(STRING) /\ u.table \in Seq(Bridged) /\ u \in TablesSet
      /\ Len(u.registry) \in Nat /\ Len(u.table) \in Nat /\ Len(offered) \in Nat
      /\ Len(Builtins) \in Nat /\ Len(Builtins) <= Len(u.registry)
      /\ u.offered \in Seq(Bridged) /\ offered[k] \in Bridged
  BY BridgesAssumption DEF StoppingInv, TablesSet
<1>2. PICK r, e :
        /\ \/ r = 0 /\ \A p \in 1 .. Len(u.registry) : u.registry[p] # name
           \/ r \in 1 .. Len(u.registry) /\ u.registry[r] = name
        /\ \/ e = 0 /\ \A p \in 1 .. Len(u.table) : u.table[p].full # name
           \/ e \in 1 .. Len(u.table) /\ u.table[e].full = name
        /\ v = [registry |-> SwapOut(u.registry, r), table |-> SwapOut(u.table, e),
                offered |-> u.offered]
  BY <1>1, UnbridgeSwaps
<1>3. v.registry = SwapOut(u.registry, r) /\ v.table = SwapOut(u.table, e)
  BY <1>2
<1> HIDE DEF v
<1>4. /\ v.registry \in Seq(STRING)
      /\ r = 0 => v.registry = u.registry
      /\ r # 0 => /\ Len(v.registry) = Len(u.registry) - 1
                  /\ \A p \in 1 .. Len(u.registry) - 1 :
                       v.registry[p] = u.registry[IF p = r THEN Len(u.registry) ELSE p]
  <2>1. u.registry \in Seq(STRING) /\ r \in 0 .. Len(u.registry)
    BY <1>1, <1>2
  <2>2. /\ SwapOut(u.registry, r) \in Seq(STRING)
        /\ r = 0 => SwapOut(u.registry, r) = u.registry
        /\ r # 0 => /\ Len(SwapOut(u.registry, r)) = Len(u.registry) - 1
                    /\ \A p \in 1 .. Len(u.registry) - 1 :
                         SwapOut(u.registry, r)[p] = u.registry[IF p = r THEN Len(u.registry) ELSE p]
    BY <2>1, Swaps
  <2> QED BY <1>3, <2>2
<1>5. /\ v.table \in Seq(Bridged)
      /\ e = 0 => v.table = u.table
      /\ e # 0 => /\ Len(v.table) = Len(u.table) - 1
                  /\ \A p \in 1 .. Len(u.table) - 1 :
                       v.table[p] = u.table[IF p = e THEN Len(u.table) ELSE p]
  <2>1. u.table \in Seq(Bridged) /\ e \in 0 .. Len(u.table)
    BY <1>1, <1>2
  <2>2. /\ SwapOut(u.table, e) \in Seq(Bridged)
        /\ e = 0 => SwapOut(u.table, e) = u.table
        /\ e # 0 => /\ Len(SwapOut(u.table, e)) = Len(u.table) - 1
                    /\ \A p \in 1 .. Len(u.table) - 1 :
                         SwapOut(u.table, e)[p] = u.table[IF p = e THEN Len(u.table) ELSE p]
    BY <2>1, Swaps
  <2> QED BY <1>3, <2>2
<1>6. v \in TablesSet
  BY <1>1, <1>2, <1>4, <1>5 DEF TablesSet
<1>7. /\ Len(Builtins) <= Len(v.registry)
      /\ \A i \in 1 .. Len(Builtins) : v.registry[i] = Builtins[i]
      /\ Rest(v.registry, Len(Builtins), Len(v.registry), offered, k + 1)
  <2>1. /\ \A i \in 1 .. Len(Builtins) : u.registry[i] = Builtins[i]
        /\ Rest(u.registry, Len(Builtins), Len(u.registry), offered, k)
    BY DEF StoppingInv
  <2>2. CASE r = 0
    <3>1. v.registry = u.registry
      BY <1>4, <2>2
    <3>2. \A p \in Len(Builtins) + 1 .. Len(u.registry) : u.registry[p] # name
      BY <1>1, <1>2, <2>2
    <3>3. Rest(u.registry, Len(Builtins), Len(u.registry), offered, k + 1)
      BY <1>1, <2>1, <3>2, RestAbsent
    <3> QED BY <1>1, <2>1, <3>1, <3>3
  <2>3. CASE r # 0
    <3>1. r \in Len(Builtins) + 1 .. Len(u.registry) /\ u.registry[r] = name
      <4>1. r \in 1 .. Len(u.registry) /\ u.registry[r] = name
        BY <1>2, <2>3
      <4>2. r \notin 1 .. Len(Builtins)
        BY <2>1, <4>1
      <4> QED BY <1>1, <4>1, <4>2
    <3>2. /\ Len(v.registry) = Len(u.registry) - 1
          /\ \A p \in 1 .. Len(u.registry) - 1 :
               v.registry[p] = u.registry[IF p = r THEN Len(u.registry) ELSE p]
      BY <1>4, <2>3
    <3>3. Rest(v.registry, Len(Builtins), Len(u.registry) - 1, offered, k + 1)
      <4>1. \A p \in Len(Builtins) + 1 .. Len(u.registry) - 1 :
              v.registry[p] = u.registry[IF p = r THEN Len(u.registry) ELSE p]
        BY <1>1, <3>2
      <4> QED BY <1>1, <2>1, <3>1, <4>1, RestSwapped
    <3>4. ASSUME NEW i \in 1 .. Len(Builtins) PROVE v.registry[i] = Builtins[i]
      <4>1. i \in 1 .. Len(u.registry) - 1 /\ i # r
        BY <1>1, <3>1
      <4> QED BY <2>1, <3>2, <4>1
    <3> QED BY <1>1, <3>1, <3>2, <3>3, <3>4
  <2> QED BY <2>2, <2>3
<1>8. Rest(Names(v.table), 0, Len(v.table), offered, k + 1)
  <2>1. /\ Rest(Names(u.table), 0, Len(u.table), offered, k)
        /\ \A p \in 1 .. Len(u.table) : Names(u.table)[p] = u.table[p].full
    BY DEF StoppingInv, Names
  <2>2. CASE e = 0
    <3>1. v.table = u.table
      BY <1>5, <2>2
    <3>2. \A p \in 0 + 1 .. Len(u.table) : Names(u.table)[p] # name
      BY <1>2, <2>1, <2>2
    <3>3. Rest(Names(u.table), 0, Len(u.table), offered, k + 1)
      BY <1>1, <2>1, <3>2, RestAbsent
    <3> QED BY <3>1, <3>3
  <2>3. CASE e # 0
    <3>1. e \in 1 .. Len(u.table) /\ u.table[e].full = name
      BY <1>2, <2>3
    <3>2. /\ Len(v.table) = Len(u.table) - 1
          /\ \A p \in 1 .. Len(u.table) - 1 :
               v.table[p] = u.table[IF p = e THEN Len(u.table) ELSE p]
      BY <1>5, <2>3
    <3>3. ASSUME NEW p \in 0 + 1 .. Len(u.table) - 1
          PROVE  Names(v.table)[p] = Names(u.table)[IF p = e THEN Len(u.table) ELSE p]
      <4>1. p \in 1 .. Len(v.table) /\ (IF p = e THEN Len(u.table) ELSE p) \in 1 .. Len(u.table)
        BY <1>1, <3>2
      <4> QED BY <2>1, <3>2, <4>1 DEF Names
    <3>4. e \in 0 + 1 .. Len(u.table) /\ Names(u.table)[e] = name
      BY <2>1, <3>1
    <3>5. Rest(Names(v.table), 0, Len(u.table) - 1, offered, k + 1)
      BY <1>1, <2>1, <3>3, <3>4, RestSwapped
    <3> QED BY <3>2, <3>5
  <2> QED BY <2>2, <2>3
<1>9. StoppingInv(v, offered, k + 1)
  BY <1>6, <1>7, <1>8, Zenon DEF StoppingInv
<1> QED BY <1>9 DEF v

LEMMA StopBridges ==
  ASSUME NEW t, BridgesInv(t)
  PROVE  [mcp_bridges_stop(t) EXCEPT !.offered = <<>>] = Tables
<1> DEFINE T == TablesSet
           seq == t.offered
           F == [p \in T \X Bridged |-> Unbridge(p[1], p[2])]
           D == SUBSET (1 .. Len(seq))
           G(g) == g = [r \in D |-> IF r = {} THEN t ELSE Unbridge(g[r \ {Max(r)}], seq[Max(r)])]
           g0 == CHOOSE g : G(g)
<1>1. /\ t \in T /\ seq \in Seq(Bridged) /\ Len(seq) \in Nat /\ DOMAIN seq = 1 .. Len(seq)
      /\ Registered(t.registry, seq) /\ Tabled(t.table, seq)
      /\ t.registry \in Seq(STRING) /\ t.table \in Seq(Bridged)
      /\ Builtins \in Seq(STRING) /\ Len(Builtins) \in Nat
      /\ Len(t.registry) \in Nat /\ Len(t.table) \in Nat
  BY BridgesAssumption DEF BridgesInv, TablesSet
<1>2. F = [p \in T \X Bridged |-> Unbridge(p[1], p[2])]
  OBVIOUS
<1>3. mcp_bridges_stop(t) = g0[1 .. Len(seq)]
  BY <1>1 DEF mcp_bridges_stop, FoldLeft, MapThenFoldSet
<1> HIDE DEF F
<1>4. ASSUME NEW u \in T, NEW o \in Bridged PROVE Unbridge(u, o) \in T
  BY UnbridgeTyped
<1>5. \E f : G(f)
  <2>1. F \in [T \X Bridged -> T]
    BY <1>2, <1>4
  <2>2. PICK f \in [D -> T] : FoldOf(f, F, t, seq, T, Bridged)
    <3> HIDE DEF G, g0, seq, T
    <3> QED BY <1>1, <2>1, FoldByFunction
  <2>3. \A r \in D : f[r] = IF r = {} THEN t ELSE Unbridge(f[r \ {Max(r)}], seq[Max(r)])
    BY <1>2, <2>2 DEF FoldOf
  <2>4. f = [r \in D |-> f[r]]
    OBVIOUS
  <2> QED BY <2>3, <2>4, Zenon
<1>6. G(g0)
  <2> HIDE DEF G
  <2> QED BY <1>5
<1> HIDE DEF g0
<1> DEFINE S == {k \in 0 .. Len(seq) : StoppingInv(g0[1 .. k], seq, k + 1)}
<1>7. 0 \in S
  <2>1. 1 .. 0 = {} /\ {} \in D
    OBVIOUS
  <2>2. g0[{}] = t
    BY <1>6, <2>1
  <2>3. StoppingInv(t, seq, 1)
    <3>1. Len(Builtins) <= Len(t.registry) /\ \A i \in 1 .. Len(Builtins) : t.registry[i] = Builtins[i]
      BY <1>1 DEF Registered
    <3>2. Rest(t.registry, Len(Builtins), Len(t.registry), seq, 1)
      <4> DEFINE m == [p \in Len(Builtins) + 1 .. Len(t.registry) |-> p - Len(Builtins)]
      <4>1. ASSUME NEW p \in Len(Builtins) + 1 .. Len(t.registry)
            PROVE  /\ p - Len(Builtins) \in 1 .. Len(seq)
                   /\ t.registry[p] = seq[p - Len(Builtins)].full
        <5>1. p - Len(Builtins) \in 1 .. Len(seq) /\ Len(Builtins) + (p - Len(Builtins)) = p
          BY <1>1 DEF Registered, Fits
        <5> QED BY <1>1, <5>1 DEF Registered
      <4>2. m \in [Len(Builtins) + 1 .. Len(t.registry) -> 1 .. Len(seq)]
        BY <4>1
      <4>3. \A p \in Len(Builtins) + 1 .. Len(t.registry) :
              /\ t.registry[p] = seq[m[p]].full
              /\ \A q \in Len(Builtins) + 1 .. Len(t.registry) : m[p] = m[q] => p = q
        BY <1>1, <4>1
      <4> HIDE DEF m, seq
      <4> QED BY <4>2, <4>3 DEF Rest
    <3>3. Rest(Names(t.table), 0, Len(t.table), seq, 1)
      <4> DEFINE m == [p \in 0 + 1 .. Len(t.table) |-> p]
      <4>1. \A p \in 0 + 1 .. Len(t.table) :
              p \in 1 .. Len(seq) /\ Names(t.table)[p] = seq[p].full
        BY <1>1 DEF Tabled, Fits, Names
      <4>2. m \in [0 + 1 .. Len(t.table) -> 1 .. Len(seq)]
        BY <4>1
      <4>3. \A p \in 0 + 1 .. Len(t.table) :
              /\ Names(t.table)[p] = seq[m[p]].full
              /\ \A q \in 0 + 1 .. Len(t.table) : m[p] = m[q] => p = q
        BY <4>1
      <4> HIDE DEF m, seq
      <4> QED BY <4>2, <4>3 DEF Rest
    <3> HIDE DEF seq
    <3> QED BY <1>1, <3>1, <3>2, <3>3 DEF StoppingInv
  <2> QED BY <1>1, <2>1, <2>2, <2>3
<1>8. ASSUME NEW k \in 1 .. Len(seq), k - 1 \in S PROVE k \in S
  <2>1. /\ Max(1 .. k) = k /\ (1 .. k) \ {k} = 1 .. k - 1
        /\ 1 .. k \in D /\ 1 .. k # {}
    BY <1>1, Steps
  <2>2. g0[1 .. k] = Unbridge(g0[1 .. k - 1], seq[k])
    BY <1>6, <2>1
  <2>3. StoppingInv(g0[1 .. k - 1], seq, k)
    BY <1>8
  <2>4. \A i \in 1 .. Len(Builtins) : Builtins[i] # seq[k].full
    <3> SUFFICES ASSUME NEW i \in 1 .. Len(Builtins), Builtins[i] = seq[k].full PROVE FALSE
      OBVIOUS
    <3>1. i \in 1 .. Len(t.registry) /\ t.registry[i] = seq[k].full
      BY <1>1 DEF Registered
    <3>2. i = Len(Builtins) + k
      BY <1>1, <3>1 DEF Registered
    <3> QED BY <1>1, <3>2
  <2>5. StoppingInv(g0[1 .. k], seq, k + 1)
    <3> HIDE DEF seq
    <3> QED BY <1>1, <2>2, <2>3, <2>4, UnbridgeKeeps
  <2> QED BY <1>1, <2>5
<1>9. Len(seq) \in S
  <2> HIDE DEF S
  <2>1. \A k \in 0 .. Len(seq) : k \in S
    BY <1>1, <1>7, <1>8, UpTo
  <2> QED BY <1>1, <2>1
<1> DEFINE u == mcp_bridges_stop(t)
<1>10. StoppingInv(u, seq, Len(seq) + 1)
  BY <1>3, <1>9
<1> HIDE DEF u, seq
<1>11. u.registry = Builtins
  <2>2. /\ u.registry \in Seq(STRING) /\ Len(Builtins) <= Len(u.registry)
        /\ \A i \in 1 .. Len(Builtins) : u.registry[i] = Builtins[i]
    BY <1>10 DEF StoppingInv, TablesSet
  <2>3. Len(u.registry) = Len(Builtins)
    <3>1. Rest(u.registry, Len(Builtins), Len(u.registry), seq, Len(seq) + 1)
      BY <1>10 DEF StoppingInv
    <3> QED BY <1>1, <2>2, <3>1, RestOfNone
  <2> QED BY <1>1, <2>2, <2>3, SeqEqual
<1>12. u.table = <<>>
  <2>2. u.table \in Seq(Bridged)
    BY <1>10 DEF StoppingInv, TablesSet
  <2>3. Len(u.table) = 0
    <3>1. Rest(Names(u.table), 0, Len(u.table), seq, Len(seq) + 1)
      BY <1>10 DEF StoppingInv
    <3> QED BY <1>1, <2>2, <3>1, RestOfNone
  <2> QED BY <2>2, <2>3
<1>13. u \in TablesSet
  BY <1>10 DEF StoppingInv
<1> QED BY <1>11, <1>12, <1>13 DEF u, TablesSet, Tables

\* A call of an offered tool, in the tables of a run.
LEMMA CallsArrive ==
  ASSUME NEW t, BridgesInv(t), NEW i \in 1 .. Len(t.offered)
  PROVE  \/ CallTool(t, t.offered[i].full) = t.offered[i]
         \/ CallTool(t, t.offered[i].full) = NotFound /\ Len(t.table) = MAX_MCP_TOOLS
         \/ CallTool(t, t.offered[i].full) = Unknown /\ Len(t.registry) = MAX_REGISTRY
<1> DEFINE name == t.offered[i].full
           e == SelectInSeq(t.table, LAMBDA n : n.full = name)
           r == Len(Builtins) + i
<1>1. /\ Len(t.registry) \in Nat /\ Len(t.table) \in Nat /\ Len(t.offered) \in Nat
      /\ Len(Builtins) \in Nat /\ MAX_REGISTRY \in Nat /\ MAX_MCP_TOOLS \in Nat
      /\ t.registry \in Seq(STRING) /\ t.table \in Seq(Bridged)
      /\ Registered(t.registry, t.offered) /\ Tabled(t.table, t.offered)
  BY BridgesAssumption DEF BridgesInv
<1>2. CallTool(t, name) = IF ~tool_registry_find(t, name) THEN Unknown
                          ELSE IF e = 0 THEN NotFound ELSE t.table[e]
  BY DEF CallTool
<1>3. \/ e = 0 /\ \A k \in 1 .. Len(t.table) : t.table[k].full # name
      \/ e \in 1 .. Len(t.table) /\ t.table[e].full = name
  BY <1>1, SelectsEntry
<1> HIDE DEF e
<1>4. tool_registry_find(t, name) <=> \E j \in 1 .. Len(t.registry) : t.registry[j] = name
  BY <1>1 DEF tool_registry_find, Contains
<1>5. CASE ~tool_registry_find(t, name)
  <2>1. ~ (r <= Len(t.registry))
    <3> SUFFICES ASSUME r <= Len(t.registry) PROVE FALSE
      OBVIOUS
    <3>1. r \in 1 .. Len(t.registry) /\ t.registry[r] = name
      BY <1>1 DEF Registered
    <3> QED BY <1>4, <1>5, <3>1
  <2>2. Len(t.registry) = MAX_REGISTRY
    BY <1>1, <2>1 DEF Registered, Fits
  <2> QED BY <1>2, <1>5, <2>2
<1>6. CASE tool_registry_find(t, name) /\ e = 0
  <2>1. Len(t.table) = MAX_MCP_TOOLS
    <3>1. i \notin 1 .. Len(t.table)
      BY <1>1, <1>3, <1>6 DEF Tabled
    <3> QED BY <1>1, <3>1 DEF Tabled, Fits
  <2> QED BY <1>2, <1>6, <2>1
<1>7. CASE tool_registry_find(t, name) /\ e # 0
  <2>1. /\ e \in 1 .. Len(t.table) /\ e \in 1 .. Len(t.offered)
        /\ t.table[e] = t.offered[e] /\ t.offered[e].full = name
    BY <1>1, <1>3, <1>7 DEF Tabled, Fits
  <2>2. PICK j \in 1 .. Len(t.registry) : t.registry[j] = name
    BY <1>4, <1>7
  <2>3. j = Len(Builtins) + i /\ j = Len(Builtins) + e
    BY <1>1, <2>1, <2>2 DEF Registered
  <2>4. e = i
    BY <1>1, <2>1, <2>3
  <2> QED BY <1>2, <1>7, <2>1, <2>4
<1> QED BY <1>5, <1>6, <1>7
-----------------------------------------------------------------------------
(* The configuration: the lists of models that the settings and the presets     *)
(* make, and the key and the server that loading and switching choose.          *)

Model == [name : STRING, provider : STRING, base : STRING,
          key : {NoKey, EnvKey} \cup [owner : STRING]]

\* A list of models names each once, with keys that may be sent to its provider,
\* and with its provider's server or none.
Listed(models) ==
  /\ models \in Seq(Model)
  /\ \A i \in 1 .. Len(models) :
       /\ models[i].key \in {NoKey, EnvKey, KeyFor(models[i].provider)}
       /\ models[i].base \in {NoUrl, models[i].provider}
       /\ \A j \in 1 .. Len(models) : models[i].name = models[j].name => i = j

ListedSettings(s) == s = [models |-> s.models, current |-> s.current] /\ Listed(s.models)

\* What is configured is the active entry's, or was given for the run; a model
\* that was given need not be listed.
FromEntry(c, m) ==
  /\ c.provider = m.provider
  /\ c.key \in {NoKey, EnvKey, CliKey, KeyFor(m.provider)}
  /\ c.url \in {m.base, CliUrl}

ConfigInv(c) ==
  /\ c = [models |-> c.models, active |-> c.active, provider |-> c.provider,
          model |-> c.model, key |-> c.key, url |-> c.url]
  /\ Listed(c.models) /\ c.active \in 0 .. Len(c.models)
  /\ c.active # 0 => FromEntry(c, c.models[c.active])
  /\ \A i \in 1 .. Len(c.models) : c.active # 0 /\ c.models[i].name = c.model => i = c.active

LEMMA FindsModel ==
  ASSUME NEW s, Len(s) \in Nat, NEW name
  PROVE  \/ config_find_model(s, name) = 0 /\ \A k \in 1 .. Len(s) : s[k].name # name
         \/ config_find_model(s, name) \in 1 .. Len(s) /\ s[config_find_model(s, name)].name = name
<1> DEFINE I == {k \in 1 .. Len(s) : s[k].name = name}
<1>1. config_find_model(s, name) = IF I # {} THEN Min(I) ELSE 0
  BY DEF config_find_model, SelectInSeq
<1>2. I # {} => Min(I) \in I
  <2>1. I \subseteq Nat
    OBVIOUS
  <2> HIDE DEF I
  <2>2. I # {} => \E x \in I : \A y \in I : x <= y
    BY <2>1, LeastOf
  <2> QED BY <2>2 DEF Min
<1> QED BY <1>1, <1>2

LEMMA AddsPreset ==
  ASSUME NEW models, Listed(models), NEW provider \in STRING,
         NEW preset \in [name : STRING, provider : STRING, base : STRING, key : {NoKey}],
         preset.base = preset.provider
  PROVE  Listed(AddPreset(models, preset, provider))
<1> DEFINE m == [preset EXCEPT !.key = KeyFor(provider)]
           new == Append(models, m)
<1>1. models \in Seq(Model) /\ Len(models) \in Nat
  BY DEF Listed
<1>2. CASE preset.provider = provider /\ config_find_model(models, preset.name) = 0
  <2>1. AddPreset(models, preset, provider) = new
    BY <1>2 DEF AddPreset
  <2>2. m \in Model /\ m.name = preset.name /\ m.key = KeyFor(m.provider) /\ m.base = m.provider
    BY <1>2 DEF Model, KeyFor
  <2>3. \A k \in 1 .. Len(models) : models[k].name # preset.name
    BY <1>1, <1>2, FindsModel
  <2> HIDE DEF m
  <2>4. /\ new \in Seq(Model) /\ Len(new) = Len(models) + 1 /\ new[Len(models) + 1] = m
        /\ \A k \in 1 .. Len(models) : new[k] = models[k]
    BY <1>1, <2>2
  <2> HIDE DEF new
  <2>5. ASSUME NEW i \in 1 .. Len(new)
        PROVE  /\ new[i].key \in {NoKey, EnvKey, KeyFor(new[i].provider)}
               /\ new[i].base \in {NoUrl, new[i].provider}
               /\ \A j \in 1 .. Len(new) : new[i].name = new[j].name => i = j
    <3>1. CASE i \in 1 .. Len(models)
      <4>1. new[i] = models[i] /\ models[i].name # preset.name
        BY <2>3, <2>4, <3>1
      <4>2. /\ models[i].key \in {NoKey, EnvKey, KeyFor(models[i].provider)}
            /\ models[i].base \in {NoUrl, models[i].provider}
            /\ \A j \in 1 .. Len(models) : models[i].name = models[j].name => i = j
        BY <3>1 DEF Listed
      <4>3. ASSUME NEW j \in 1 .. Len(new), new[i].name = new[j].name PROVE i = j
        <5>1. j \in 1 .. Len(models) \/ j = Len(models) + 1
          BY <1>1, <2>4
        <5> QED BY <2>2, <2>4, <4>1, <4>2, <4>3, <5>1
      <4> QED BY <4>1, <4>2, <4>3
    <3>2. CASE i \notin 1 .. Len(models)
      <4>1. i = Len(models) + 1 /\ new[i] = m
        BY <1>1, <2>4, <3>2
      <4>2. ASSUME NEW j \in 1 .. Len(new), new[i].name = new[j].name PROVE i = j
        <5>1. j \notin 1 .. Len(models)
          BY <2>2, <2>3, <2>4, <4>1, <4>2
        <5> QED BY <1>1, <2>4, <4>1, <5>1
      <4> QED BY <2>2, <4>1, <4>2
    <3> QED BY <3>1, <3>2
  <2> QED BY <2>1, <2>4, <2>5 DEF Listed
<1>3. CASE ~(preset.provider = provider /\ config_find_model(models, preset.name) = 0)
  BY <1>3 DEF AddPreset
<1> QED BY <1>2, <1>3

LEMMA AddsPresets ==
  ASSUME NEW models, Listed(models), NEW provider \in STRING
  PROVE  Listed(FoldLeft(LAMBDA ms, p : AddPreset(ms, p, provider), models, Presets))
<1> DEFINE T == {ms \in Seq(Model) : Listed(ms)}
           R == [name : STRING, provider : STRING, base : STRING, key : {NoKey}]
           E == {p \in R : p.base = p.provider}
           F == [x \in T \X E |-> AddPreset(x[1], x[2], provider)]
           D == SUBSET (1 .. Len(Presets))
           G(g) == g = [r \in D |-> IF r = {} THEN models
                                    ELSE AddPreset(g[r \ {Max(r)}], Presets[Max(r)], provider)]
           g0 == CHOOSE g : G(g)
<1>1. models \in T /\ (\A ms \in T, p \in E : AddPreset(ms, p, provider) \in T)
      /\ \A ms \in T : Listed(ms)
  BY AddsPreset DEF Listed
<1>2. F = [x \in T \X E |-> AddPreset(x[1], x[2], provider)]
  OBVIOUS
<1>3. /\ Len(Presets) \in Nat /\ DOMAIN Presets = 1 .. Len(Presets) /\ Presets \in Seq(E)
      /\ \A k \in 1 .. Len(Presets) : Presets[k] \in E
  <2>1. Presets \in Seq(R) /\ \A k \in DOMAIN Presets : Presets[k].base = Presets[k].provider
    BY ConfigAssumption
  <2> HIDE DEF R
  <2>2. Len(Presets) \in Nat /\ DOMAIN Presets = 1 .. Len(Presets)
        /\ \A k \in 1 .. Len(Presets) : Presets[k] \in R
    BY <2>1
  <2>3. \A k \in 1 .. Len(Presets) : Presets[k] \in E
    BY <2>1, <2>2
  <2> HIDE DEF E
  <2> QED BY <2>1, <2>2, <2>3, SeqOfElements
<1>4. FoldLeft(LAMBDA ms, p : AddPreset(ms, p, provider), models, Presets) = g0[1 .. Len(Presets)]
  BY <1>3 DEF FoldLeft, MapThenFoldSet
<1> HIDE DEF T, R, E, F
<1>5. \E f : G(f)
  <2>1. F \in [T \X E -> T]
    BY <1>1, <1>2
  <2>2. PICK f \in [D -> T] : FoldOf(f, F, models, Presets, T, E)
    <3>1. models \in T
      BY <1>1
    <3> HIDE DEF G, g0
    <3> QED BY <1>3, <2>1, <3>1, FoldByFunction
  <2>3. \A r \in D : f[r] = IF r = {} THEN models
                            ELSE AddPreset(f[r \ {Max(r)}], Presets[Max(r)], provider)
    BY <1>2, <2>2 DEF FoldOf
  <2>4. f = [r \in D |-> f[r]]
    OBVIOUS
  <2> QED BY <2>3, <2>4, Zenon
<1>6. G(g0)
  <2> HIDE DEF G
  <2> QED BY <1>5
<1> HIDE DEF g0
<1> DEFINE S == {k \in 0 .. Len(Presets) : g0[1 .. k] \in T}
<1>7. 0 \in S
  <2>1. 1 .. 0 = {} /\ {} \in D
    OBVIOUS
  <2>2. g0[{}] = models
    BY <1>6, <2>1
  <2> QED BY <1>1, <1>3, <2>1, <2>2
<1>8. ASSUME NEW k \in 1 .. Len(Presets), k - 1 \in S PROVE k \in S
  <2>1. /\ Max(1 .. k) = k /\ (1 .. k) \ {k} = 1 .. k - 1
        /\ 1 .. k \in D /\ 1 .. k # {}
    BY <1>3, Steps
  <2>2. g0[1 .. k] = AddPreset(g0[1 .. k - 1], Presets[k], provider)
    BY <1>6, <2>1
  <2>3. g0[1 .. k - 1] \in T /\ Presets[k] \in E
    BY <1>3, <1>8
  <2>4. g0[1 .. k] \in T
    BY <1>1, <2>2, <2>3
  <2> QED BY <1>3, <2>4
<1>9. Len(Presets) \in S
  <2> HIDE DEF S
  <2>1. \A k \in 0 .. Len(Presets) : k \in S
    BY <1>3, <1>7, <1>8, UpTo
  <2> QED BY <1>3, <2>1
<1> QED BY <1>1, <1>4, <1>9

LEMMA EmptyList == Listed(<<>>)
BY DEF Listed

LEMMA KeySettings ==
  ASSUME NEW s, ListedSettings(s), NEW provider \in STRING
  PROVE  ListedSettings(WithKey(s, provider))
<1> DEFINE old == IF s = NoSettings THEN <<>> ELSE s.models
           keyed == [i \in DOMAIN old |-> IF old[i].provider = provider
                                          THEN [old[i] EXCEPT !.key = KeyFor(provider)] ELSE old[i]]
<1>1. Listed(old)
  BY EmptyList DEF ListedSettings
<1>2. /\ old \in Seq(Model) /\ Len(old) \in Nat /\ DOMAIN old = 1 .. Len(old)
      /\ \A i \in 1 .. Len(old) : old[i] \in Model
      /\ keyed = [i \in DOMAIN old |-> IF old[i].provider = provider
                                       THEN [old[i] EXCEPT !.key = KeyFor(provider)] ELSE old[i]]
  <2> HIDE DEF old
  <2> QED BY <1>1 DEF Listed
<1>3. WithKey(s, provider) =
        [models |-> FoldLeft(LAMBDA ms, p : AddPreset(ms, p, provider), keyed, Presets),
         current |-> IF s = NoSettings THEN "none" ELSE s.current]
  BY DEF WithKey
<1> HIDE DEF old, keyed
<1>4. ASSUME NEW i \in 1 .. Len(old)
      PROVE  /\ keyed[i] \in Model /\ keyed[i].name = old[i].name
             /\ keyed[i].key \in {NoKey, EnvKey, KeyFor(keyed[i].provider)}
             /\ keyed[i].base \in {NoUrl, keyed[i].provider}
  <2>1. keyed[i] = IF old[i].provider = provider
                   THEN [old[i] EXCEPT !.key = KeyFor(provider)] ELSE old[i]
    BY <1>2
  <2>2. /\ old[i].key \in {NoKey, EnvKey, KeyFor(old[i].provider)} /\ old[i] \in Model
        /\ old[i].base \in {NoUrl, old[i].provider}
    BY <1>1, <1>2 DEF Listed
  <2>3. CASE old[i].provider = provider
    BY <2>1, <2>2, <2>3 DEF Model, KeyFor
  <2>4. CASE old[i].provider # provider
    BY <2>1, <2>2, <2>4
  <2> QED BY <2>3, <2>4
<1>5. Listed(keyed)
  <2>1. keyed \in Seq(Model) /\ Len(keyed) = Len(old)
    BY <1>2, <1>4
  <2>2. \A i, j \in 1 .. Len(old) : keyed[i].name = keyed[j].name => i = j
    BY <1>1, <1>4 DEF Listed
  <2> QED BY <1>4, <2>1, <2>2 DEF Listed
<1>6. Listed(FoldLeft(LAMBDA ms, p : AddPreset(ms, p, provider), keyed, Presets))
  BY <1>5, AddsPresets
<1> DEFINE w == WithKey(s, provider)
<1>7. w = [models |-> w.models, current |-> w.current] /\ Listed(w.models)
  <2>1. PICK ms : ms = FoldLeft(LAMBDA m, p : AddPreset(m, p, provider), keyed, Presets)
    OBVIOUS
  <2>2. PICK c : c = IF s = NoSettings THEN "none" ELSE s.current
    OBVIOUS
  <2>3. w = [models |-> ms, current |-> c] /\ Listed(ms)
    BY <1>3, <1>6, <2>1, <2>2, Zenon
  <2> HIDE DEF w
  <2> QED BY <2>3
<1> HIDE DEF w
<1>8. ListedSettings(w)
  BY <1>7, Zenon DEF ListedSettings
<1> QED BY <1>8 DEF w

Shape(c) == c = [models |-> c.models, active |-> c.active, provider |-> c.provider,
                 model |-> c.model, key |-> c.key, url |-> c.url]

LEMMA ResolvesModel ==
  ASSUME NEW c, Shape(c), Listed(c.models), c.active \in 0 .. Len(c.models), c.key = NoKey
  PROVE  ConfigInv(resolve_active_model(c)) /\ resolve_active_model(c).models = c.models
<1> DEFINE r == resolve_active_model(c)
<1>0. c.models \in Seq(Model) /\ Len(c.models) \in Nat
  BY DEF Listed
<1>1. CASE c.models = <<>>
  <2>1. r = c /\ c.active = 0
    BY <1>1 DEF resolve_active_model
  <2> HIDE DEF r
  <2> QED
    <3>1. ConfigInv(c)
      BY <1>1, <2>1 DEF ConfigInv, Shape
    <3> QED BY <2>1, <3>1 DEF r
<1>2. CASE c.models # <<>>
  <2> DEFINE a == IF c.active = 0 THEN 1 ELSE c.active
             m == c.models[a]
  <2>1. a \in 1 .. Len(c.models) /\ a # 0
    BY <1>0, <1>2
  <2>2. r = [c EXCEPT !.active = a, !.provider = m.provider, !.model = m.name,
                      !.key = IF @ = NoKey THEN m.key ELSE @, !.url = m.base]
    BY <1>2 DEF resolve_active_model
  <2> HIDE DEF a
  <2>3. /\ m.key \in {NoKey, EnvKey, KeyFor(m.provider)}
        /\ \A j \in 1 .. Len(c.models) : c.models[j].name = m.name => j = a
    BY <2>1 DEF Listed
  <2> HIDE DEF m, r
  <2>4. /\ r.models = c.models /\ r.active = a /\ r.provider = m.provider /\ r.model = m.name
        /\ r.key = m.key /\ r.url = m.base /\ Shape(r)
    BY <2>2 DEF Shape
  <2>5. FromEntry(r, r.models[r.active])
    BY <2>3, <2>4 DEF FromEntry, m
  <2>6. \A i \in 1 .. Len(r.models) : r.models[i].name = r.model => i = r.active
    BY <2>3, <2>4 DEF m
  <2>7. ConfigInv(r)
    BY <2>1, <2>4, <2>5, <2>6 DEF ConfigInv, Shape
  <2> QED BY <2>4, <2>7 DEF r
<1> QED BY <1>1, <1>2

LEMMA LoadsConfig ==
  ASSUME NEW s, ListedSettings(s), NEW e \in {NoKey, EnvKey}
  PROVE  ConfigInv(config_load(s, e))
<1> DEFINE c1 == apply_settings_file(defaults, s)
           c2 == apply_env(c1, e)
<1>1. Shape(c1) /\ Listed(c1.models) /\ c1.active \in 0 .. Len(c1.models) /\ c1.key = NoKey
  <2>1. CASE s = NoSettings
    BY <2>1, EmptyList DEF apply_settings_file, Shape, defaults
  <2>2. CASE s # NoSettings
    <3> DEFINE models == IF s.models = <<>> THEN DefaultModels ELSE s.models
               found == config_find_model(models, s.current)
    <3>1. Listed(models)
      <4>1. Listed(DefaultModels)
        <5>1. DefaultModels \in Seq([name : STRING, provider : STRING, base : STRING, key : {NoKey}])
          BY ConfigAssumption
        <5>2. Len(DefaultModels) \in Nat /\ \A i \in 1 .. Len(DefaultModels) :
                DefaultModels[i] \in Model /\ DefaultModels[i].key = NoKey
          <6>1. Len(DefaultModels) \in Nat /\ \A i \in 1 .. Len(DefaultModels) :
                  DefaultModels[i] \in [name : STRING, provider : STRING, base : STRING, key : {NoKey}]
            <7> DEFINE E == [name : STRING, provider : STRING, base : STRING, key : {NoKey}]
            <7>1. DefaultModels \in Seq(E)
              BY <5>1
            <7> HIDE DEF E
            <7>2. Len(DefaultModels) \in Nat /\ \A i \in 1 .. Len(DefaultModels) : DefaultModels[i] \in E
              BY <7>1
            <7> QED BY <7>2 DEF E
          <6>2. \A m \in [name : STRING, provider : STRING, base : STRING, key : {NoKey}] :
                  m \in Model /\ m.key = NoKey
            BY DEF Model
          <6> QED BY <6>1, <6>2
        <5>3. DefaultModels \in Seq(Model)
          BY <5>1, <5>2, SeqOfElements
        <5>4. \A i, j \in 1 .. Len(DefaultModels) : DefaultModels[i].name = DefaultModels[j].name => i = j
          BY <5>3, ConfigAssumption
        <5>5. \A i \in 1 .. Len(DefaultModels) : DefaultModels[i].base = DefaultModels[i].provider
          BY <5>3, ConfigAssumption
        <5> QED BY <5>2, <5>3, <5>4, <5>5 DEF Listed
      <4> QED BY <4>1 DEF ListedSettings
    <3>2. c1 = [defaults EXCEPT !.models = models, !.active = found]
      BY <2>2 DEF apply_settings_file
    <3> HIDE DEF models
    <3>3. Len(models) \in Nat
      BY <3>1 DEF Listed
    <3>4. found \in 0 .. Len(models)
      BY <3>3, FindsModel
    <3> HIDE DEF found, c1
    <3> QED BY <3>1, <3>2, <3>4 DEF Shape, defaults
  <2> QED BY <2>1, <2>2
<1>2. Shape(c2) /\ Listed(c2.models) /\ c2.active \in 0 .. Len(c2.models) /\ c2.key = NoKey
  <2> DEFINE ms == [i \in DOMAIN c1.models |->
                      [c1.models[i] EXCEPT !.key = IF @ = NoKey THEN e ELSE @]]
  <2> HIDE DEF c1
  <2>1. c2 = [c1 EXCEPT !.models = ms]
    BY Zenon DEF apply_env
  <2>2. /\ c1.models \in Seq(Model) /\ Len(c1.models) \in Nat
        /\ DOMAIN c1.models = 1 .. Len(c1.models)
        /\ \A i \in 1 .. Len(c1.models) : c1.models[i] \in Model
    BY <1>1 DEF Listed
  <2>3. ASSUME NEW i \in 1 .. Len(c1.models)
        PROVE  /\ ms[i] \in Model /\ ms[i].name = c1.models[i].name
               /\ ms[i].key \in {NoKey, EnvKey, KeyFor(ms[i].provider)}
               /\ ms[i].base \in {NoUrl, ms[i].provider}
    <3>1. /\ c1.models[i].key \in {NoKey, EnvKey, KeyFor(c1.models[i].provider)}
          /\ c1.models[i].base \in {NoUrl, c1.models[i].provider}
          /\ c1.models[i] \in Model
      BY <1>1, <2>2 DEF Listed
    <3>2. ms[i] = [c1.models[i] EXCEPT !.key = IF @ = NoKey THEN e ELSE @]
      BY <2>2
    <3> QED BY <3>1, <3>2 DEF Model
  <2>4. ms \in Seq(Model) /\ Len(ms) = Len(c1.models)
    <3>1. DOMAIN ms = 1 .. Len(c1.models) /\ ms = [i \in 1 .. Len(c1.models) |-> ms[i]]
      BY <2>2
    <3>2. \A i \in 1 .. Len(c1.models) : ms[i] \in Model
      BY <2>3
    <3>3. Len(c1.models) \in Nat
      BY <2>2
    <3> HIDE DEF ms
    <3> QED BY <3>1, <3>2, <3>3, SeqByElements
  <2> HIDE DEF ms
  <2>5. \A i, j \in 1 .. Len(ms) : ms[i].name = ms[j].name => i = j
    BY <1>1, <2>3, <2>4 DEF Listed
  <2>6. Listed(ms)
    BY <2>3, <2>4, <2>5 DEF Listed
  <2>7. c2.models = ms /\ c2.active = c1.active /\ c2.key = NoKey /\ Shape(c2)
    <3> HIDE DEF c2
    <3> QED BY <1>1, <2>1 DEF Shape
  <2> QED BY <1>1, <2>4, <2>6, <2>7
<1>3. config_load(s, e) = resolve_active_model(c2)
  BY DEF config_load
<1> HIDE DEF c2
<1> QED BY <1>2, <1>3, ResolvesModel

LEMMA SwitchesModel ==
  ASSUME NEW c, ConfigInv(c), NEW name
  PROVE  ConfigInv(config_switch_model(c, name))
<1> DEFINE i == config_find_model(c.models, name)
           d == [c EXCEPT !.active = i, !.key = NoKey, !.url = NoUrl]
<1>1. config_switch_model(c, name) = IF i = 0 THEN c ELSE resolve_active_model(d)
  BY DEF config_switch_model
<1>2. Listed(c.models) /\ Len(c.models) \in Nat /\ Shape(c)
  BY DEF ConfigInv, Listed, Shape
<1>3. i \in 0 .. Len(c.models)
  BY <1>2, FindsModel
<1>4. Shape(d) /\ d.models = c.models /\ d.active = i /\ d.key = NoKey
  <2>1. d = [c EXCEPT !.active = i, !.key = NoKey, !.url = NoUrl]
    OBVIOUS
  <2> HIDE DEF d, i
  <2> QED BY <1>2, <2>1 DEF Shape
<1> HIDE DEF i
<1> HIDE DEF d
<1>5. ConfigInv(resolve_active_model(d))
  BY <1>2, <1>3, <1>4, ResolvesModel
<1> QED BY <1>1, <1>5

LEMMA StartsConfigured ==
  ASSUME NEW s, ListedSettings(s), NEW e \in {NoKey, EnvKey}, NEW args \in Arguments
  PROVE  ConfigInv(Configured(s, e, args))
<1> DEFINE c == config_load(s, e)
           d == config_apply_cli(c, args)
<1>1. ConfigInv(c)
  BY LoadsConfig
<1>2. args.key \in {NoKey, CliKey} /\ args.url \in {NoUrl, CliUrl}
  BY InputsAssumption
<1>3. d = [c EXCEPT !.model = IF args.model = "none" THEN @ ELSE args.model,
                    !.key = IF args.key = NoKey THEN @ ELSE args.key,
                    !.url = IF args.url = NoUrl THEN @ ELSE args.url]
  BY DEF config_apply_cli
<1>4. Configured(s, e, args) =
        IF args.model = "none" THEN d ELSE config_switch_model(d, args.model)
  BY DEF Configured
<1> HIDE DEF c, d
<1>5. Shape(c)
  BY <1>1 DEF ConfigInv, Shape
<1>6. /\ Shape(d) /\ d.models = c.models /\ d.active = c.active /\ d.provider = c.provider
      /\ d.model = IF args.model = "none" THEN c.model ELSE args.model
      /\ d.key \in {c.key, CliKey} /\ d.url \in {c.url, CliUrl}
  BY <1>2, <1>3, <1>5 DEF Shape
<1>7. Listed(d.models) /\ Len(d.models) \in Nat /\ d.active \in 0 .. Len(d.models)
  BY <1>1, <1>6 DEF ConfigInv, Listed
<1>8. d.active # 0 => FromEntry(d, d.models[d.active])
  <2>1. d.active # 0 => FromEntry(c, d.models[d.active])
    BY <1>1, <1>6 DEF ConfigInv
  <2> QED BY <1>6, <2>1 DEF FromEntry
<1>9. CASE args.model = "none"
  <2>1. \A i \in 1 .. Len(d.models) : d.active # 0 /\ d.models[i].name = d.model => i = d.active
    BY <1>1, <1>6, <1>9 DEF ConfigInv
  <2>2. ConfigInv(d)
    BY <1>6, <1>7, <1>8, <2>1 DEF ConfigInv, Shape
  <2> QED BY <1>4, <1>9, <2>2
<1>10. CASE args.model # "none"
  <2>1. CASE config_find_model(d.models, args.model) = 0
    <3>1. \A k \in 1 .. Len(d.models) : d.models[k].name # args.model
      BY <1>7, <2>1, FindsModel
    <3>2. ConfigInv(d)
      BY <1>6, <1>7, <1>8, <1>10, <3>1 DEF ConfigInv, Shape
    <3> QED BY <1>4, <1>10, <3>2, SwitchesModel
  <2>2. CASE config_find_model(d.models, args.model) # 0
    <3> DEFINE i == config_find_model(d.models, args.model)
               f == [d EXCEPT !.active = i, !.key = NoKey, !.url = NoUrl]
    <3>1. config_switch_model(d, args.model) = resolve_active_model(f)
      BY <2>2 DEF config_switch_model
    <3>2. i \in 0 .. Len(d.models)
      BY <1>7, FindsModel
    <3>3. Shape(f) /\ f.models = d.models /\ f.active = i /\ f.key = NoKey
      <4>1. f = [d EXCEPT !.active = i, !.key = NoKey, !.url = NoUrl]
        OBVIOUS
      <4> HIDE DEF f, i
      <4> QED BY <1>6, <4>1 DEF Shape
    <3> HIDE DEF i
    <3> HIDE DEF f
    <3>4. ConfigInv(resolve_active_model(f))
      BY <1>7, <3>2, <3>3, ResolvesModel
    <3> QED BY <1>4, <1>10, <3>1, <3>4
  <2> QED BY <2>1, <2>2
<1> QED BY <1>9, <1>10
-----------------------------------------------------------------------------
(* The tools, the settings and the agent in the states of a run.                *)

ToolsInv == IF pc = "off" THEN tools = Tables ELSE BridgesInv(tools)

SettingsInv == ListedSettings(settings) /\ ListedSettings(draft) /\ env \in {NoKey, EnvKey}
RewriteInv == pc \in {"rewrite", "rewriting"} => ListedSettings(left[1])
AgentInv ==
  pc # "off" =>
    /\ ConfigInv(cfg)
    /\ agent = [protocol |-> agent.protocol, key |-> agent.key, model |-> agent.model,
                url |-> agent.url]
    /\ agent.key = cfg.key /\ agent.model = cfg.model
    /\ cfg.active # 0 => Strayed \/ agent_endpoint_url(agent) \in {cfg.provider, CliUrl}
KeysInv == SettingsInv /\ RewriteInv /\ AgentInv

LEMMA ToolsInit == Init => ToolsInv
BY DEF Init, ToolsInv

LEMMA ToolsKept == ToolsInv /\ UNCHANGED tools /\ (pc' = "off" <=> pc = "off") => ToolsInv'
BY DEF ToolsInv

LEMMA ToolsNext == ToolsInv /\ [Next]_vars => ToolsInv'
<1> SUFFICES ASSUME ToolsInv, [Next]_vars PROVE ToolsInv'
  OBVIOUS
<1>1. ASSUME NEW args \in Arguments, StartRefused(args) PROVE ToolsInv'
  BY <1>1, ToolsKept DEF StartRefused, run
<1>2. ASSUME NEW args, NEW uuid, NEW enabled, NEW failing, Start(args, uuid, enabled, failing)
      PROVE  ToolsInv'
  <2>1. pc' = "prompt" /\ tools' = mcp_bridges_start(enabled, failing)
    BY <1>2 DEF Start
  <2>2. BridgesInv(mcp_bridges_start(enabled, failing))
    BY StartBridges
  <2> QED BY <2>1, <2>2 DEF ToolsInv
<1>3. CASE Input
  BY <1>3, ToolsKept DEF Input, run
<1>4. CASE SaveOpen
  BY <1>4, ToolsKept DEF SaveOpen, run
<1>5. CASE SaveFails
  BY <1>5, ToolsKept DEF SaveFails, AfterTurn, run
<1>6. CASE SaveLine
  BY <1>6, ToolsKept DEF SaveLine, AfterTurn, run
<1>7. CASE Rewrite
  BY <1>7, ToolsKept DEF Rewrite, run
<1>8. CASE ConfigWrite
  BY <1>8, ToolsKept DEF ConfigWrite, run
<1>9. CASE Quit
  <2>1. BridgesInv(tools) /\ pc' = "off" /\ tools' = [mcp_bridges_stop(tools) EXCEPT !.offered = <<>>]
    BY <1>9 DEF Quit, Gone, ToolsInv
  <2>2. tools' = Tables
    BY <2>1, StopBridges
  <2> QED BY <2>1, <2>2 DEF ToolsInv
<1>10. CASE Crash
  BY <1>10 DEF Crash, Gone, ToolsInv
<1>11. ASSUME NEW requests, Compact(requests) PROVE ToolsInv'
  BY <1>11, ToolsKept DEF Compact, run
<1>12. ASSUME NEW answered, NEW requests, TurnEnds(answered, requests) PROVE ToolsInv'
  BY <1>12, ToolsKept DEF TurnEnds, run
<1>13. ASSUME NEW name, SwitchModel(name) PROVE ToolsInv'
  BY <1>13, ToolsKept DEF SwitchModel
<1>14. ASSUME NEW provider, ConfigRead(provider) PROVE ToolsInv'
  BY <1>14, ToolsKept DEF ConfigRead, run
<1>15. CASE UNCHANGED vars
  BY <1>15, ToolsKept DEF vars
<1> QED
  BY <1>1, <1>2, <1>3, <1>4, <1>5, <1>6, <1>7, <1>8, <1>9, <1>10, <1>11, <1>12, <1>13,
     <1>14, <1>15, Zenon DEF Next

LEMMA KeysInit == Init => KeysInv
<1> SUFFICES ASSUME Init PROVE KeysInv
  OBVIOUS
<1>1. ListedSettings(NoSettings)
  BY EmptyList DEF ListedSettings, NoSettings
<1>2. ListedSettings(settings)
  <2>1. settings \in InitSettings
    BY DEF Init
  <2> DEFINE ms == settings.models
             E == [name : STRING, provider : STRING, base : STRING, key : [owner : STRING]]
  <2>2. /\ settings = [models |-> ms, current |-> settings.current] /\ ms \in Seq(E)
        /\ \A i, j \in DOMAIN ms : ms[i].name = ms[j].name => i = j
        /\ \A i \in DOMAIN ms : /\ ms[i].key \in {NoKey, KeyFor(ms[i].provider)}
                                /\ ms[i].base \in {NoUrl, ms[i].provider}
    BY <2>1, InputsAssumption
  <2>3. \A m \in E : m \in Model
    BY DEF Model
  <2> HIDE DEF E, ms
  <2>4. Len(ms) \in Nat /\ DOMAIN ms = 1 .. Len(ms) /\ ms \in Seq(Model)
    <3>1. Len(ms) \in Nat /\ DOMAIN ms = 1 .. Len(ms) /\ \A i \in 1 .. Len(ms) : ms[i] \in E
      BY <2>2
    <3> QED BY <2>2, <2>3, <3>1, SeqOfElements
  <2>5. Listed(ms)
    BY <2>2, <2>4 DEF Listed
  <2> QED BY <2>2, <2>5 DEF ListedSettings, ms
<1>3. env \in {NoKey, EnvKey}
  BY InputsAssumption DEF Init
<1> QED BY <1>1, <1>2, <1>3 DEF Init, KeysInv, SettingsInv, RewriteInv, AgentInv

\* A step of the conversation: neither the settings nor the agent change.
LEMMA KeysKept ==
  /\ KeysInv /\ UNCHANGED <<settings, env, draft, cfg, agent>>
  /\ pc # "off" /\ pc' \notin {"rewrite", "rewriting"}
  => KeysInv'
BY DEF KeysInv, SettingsInv, RewriteInv, AgentInv, Strayed, agent_endpoint_url

LEMMA KeysNext == KeysInv /\ [Next]_vars => KeysInv'
<1> SUFFICES ASSUME KeysInv, [Next]_vars PROVE KeysInv'
  OBVIOUS
<1>0. SettingsInv /\ RewriteInv /\ AgentInv
  BY DEF KeysInv
<1>1. ASSUME NEW args \in Arguments, StartRefused(args) PROVE KeysInv'
  BY <1>1 DEF StartRefused, run, terminal, KeysInv, SettingsInv, RewriteInv, AgentInv
<1>2. ASSUME NEW args \in Arguments, NEW uuid, NEW enabled, NEW failing,
             Start(args, uuid, enabled, failing)
      PROVE  KeysInv'
  <2>1. /\ cfg' = Configured(settings, env, args) /\ agent' = Agent(cfg') /\ pc' = "prompt"
        /\ UNCHANGED <<settings, env, draft>>
    BY <1>2 DEF Start, terminal
  <2>2. ConfigInv(cfg')
    BY <1>0, <2>1, StartsConfigured DEF SettingsInv
  <2>3. cfg'.active # 0 => cfg'.url \in {NoUrl, cfg'.provider, CliUrl}
    <3> SUFFICES ASSUME cfg'.active # 0 PROVE cfg'.url \in {NoUrl, cfg'.provider, CliUrl}
      OBVIOUS
    <3>1. FromEntry(cfg', cfg'.models[cfg'.active])
      BY <2>2 DEF ConfigInv
    <3>2. cfg'.models[cfg'.active].base \in {NoUrl, cfg'.models[cfg'.active].provider}
      BY <2>2 DEF ConfigInv, Listed
    <3> QED BY <3>1, <3>2 DEF FromEntry
  <2>4. /\ agent' = [protocol |-> agent'.protocol, key |-> agent'.key,
                     model |-> agent'.model, url |-> agent'.url]
        /\ agent'.key = cfg'.key /\ agent'.model = cfg'.model
        /\ agent'.url = IF cfg'.url = NoUrl THEN cfg'.provider ELSE cfg'.url
        /\ agent'.protocol = cfg'.provider
    BY <2>1 DEF Agent
  <2>5. cfg'.active # 0 => agent_endpoint_url(agent)' \in {cfg'.provider, CliUrl}
    BY <2>3, <2>4 DEF agent_endpoint_url
  <2>6. AgentInv'
    BY <2>2, <2>4, <2>5 DEF AgentInv
  <2> QED BY <1>0, <2>1, <2>6 DEF KeysInv, SettingsInv, RewriteInv
<1>3. CASE Input
  BY <1>3, KeysKept DEF Input, run, terminal
<1>4. CASE SaveOpen
  BY <1>4, KeysKept DEF SaveOpen, run, terminal
<1>5. CASE SaveFails
  BY <1>5, KeysKept DEF SaveFails, AfterTurn, run, terminal
<1>6. CASE SaveLine
  BY <1>6, KeysKept DEF SaveLine, AfterTurn, run, terminal
<1>7. CASE Rewrite
  <2>1. ListedSettings(NoSettings)
    BY EmptyList DEF ListedSettings, NoSettings
  <2>2. UNCHANGED <<env, draft, cfg, agent>> /\ (pc' = "off" <=> pc = "off")
    BY <1>7 DEF Rewrite, run, terminal
  <2>3. ListedSettings(settings') /\ RewriteInv'
    BY <1>0, <1>7, <2>1 DEF Rewrite, RewriteInv
  <2>4. AgentInv'
    BY <1>0, <2>2 DEF AgentInv, Strayed, agent_endpoint_url
  <2> QED BY <1>0, <2>2, <2>3, <2>4 DEF KeysInv, SettingsInv
<1>8. CASE ConfigWrite
  <2>1. ListedSettings(NoSettings)
    BY EmptyList DEF ListedSettings, NoSettings
  <2>2. UNCHANGED <<env, pc, left, cfg, agent>>
    BY <1>8 DEF ConfigWrite, run
  <2>3. ListedSettings(settings') /\ ListedSettings(draft')
    BY <1>0, <1>8, <2>1 DEF ConfigWrite, SettingsInv
  <2> QED BY <1>0, <2>2, <2>3 DEF KeysInv, SettingsInv, RewriteInv, AgentInv, Strayed, agent_endpoint_url
<1>9. CASE Quit \/ Crash
  <2>1. pc' = "off" /\ UNCHANGED <<settings, env, draft>>
    BY <1>9 DEF Quit, Crash, Gone, terminal
  <2> QED BY <1>0, <2>1 DEF KeysInv, SettingsInv, RewriteInv, AgentInv
<1>10. ASSUME NEW requests, Compact(requests) PROVE KeysInv'
  BY <1>10, KeysKept DEF Compact, run, terminal
<1>11. ASSUME NEW answered, NEW requests, TurnEnds(answered, requests) PROVE KeysInv'
  BY <1>11, KeysKept DEF TurnEnds, run, terminal
<1>12. ASSUME NEW name, SwitchModel(name) PROVE KeysInv'
  <2>1. /\ pc = "prompt" /\ cfg' = config_switch_model(cfg, name)
        /\ agent' = [agent EXCEPT !.key = cfg'.key, !.url = cfg'.url, !.model = cfg'.model]
        /\ UNCHANGED <<settings, env, draft>>
        /\ \/ UNCHANGED <<pc, left>>
           \/ pc' = "rewrite" /\ left' = <<WithCurrent(settings, name)>>
    BY <1>12 DEF SwitchModel
  <2>2. ConfigInv(cfg')
    BY <1>0, <2>1, SwitchesModel DEF AgentInv
  <2>3. /\ agent' = [protocol |-> agent'.protocol, key |-> agent'.key,
                     model |-> agent'.model, url |-> agent'.url]
        /\ agent'.key = cfg'.key /\ agent'.model = cfg'.model /\ agent'.url = cfg'.url
        /\ agent'.protocol = agent.protocol
    <3>1. agent = [protocol |-> agent.protocol, key |-> agent.key, model |-> agent.model,
                   url |-> agent.url]
      BY <1>0, <2>1 DEF AgentInv
    <3> QED BY <2>1, <3>1
  <2>4. ListedSettings(WithCurrent(settings, name))
    BY <1>0 DEF SettingsInv, ListedSettings, WithCurrent
  <2>5. RewriteInv'
    BY <1>0, <2>1, <2>4 DEF RewriteInv
  <2>6. cfg'.active # 0 => Strayed' \/ agent_endpoint_url(agent)' \in {cfg'.provider, CliUrl}
    <3> SUFFICES ASSUME cfg'.active # 0, ~Strayed'
                 PROVE  agent_endpoint_url(agent)' \in {cfg'.provider, CliUrl}
      OBVIOUS
    <3>1. FromEntry(cfg', cfg'.models[cfg'.active])
      BY <2>2 DEF ConfigInv
    <3>2. cfg'.models[cfg'.active].base \in {NoUrl, cfg'.models[cfg'.active].provider}
      BY <2>2 DEF ConfigInv, Listed
    <3>3. cfg'.models[cfg'.active].base = NoUrl => cfg'.provider = agent'.protocol
      BY <3>1 DEF Strayed, FromEntry
    <3>4. CliUrl # NoUrl
      BY DEF CliUrl, NoUrl
    <3> QED BY <2>3, <3>1, <3>2, <3>3, <3>4 DEF agent_endpoint_url, FromEntry
  <2>7. AgentInv'
    BY <2>2, <2>3, <2>6 DEF AgentInv
  <2> QED BY <1>0, <2>1, <2>5, <2>7 DEF KeysInv, SettingsInv
<1>13. ASSUME NEW provider \in STRING, ConfigRead(provider) PROVE KeysInv'
  <2>1. draft' = WithKey(settings, provider) /\ UNCHANGED <<settings, env, pc, left, cfg, agent>>
    BY <1>13 DEF ConfigRead, run
  <2>2. ListedSettings(draft')
    BY <1>0, <2>1, KeySettings DEF SettingsInv
  <2> QED BY <1>0, <2>1, <2>2 DEF KeysInv, SettingsInv, RewriteInv, AgentInv, Strayed, agent_endpoint_url
<1>14. \A i \in DOMAIN Presets : Presets[i].provider \in STRING
  <2> DEFINE E == [name : STRING, provider : STRING, base : STRING, key : {NoKey}]
  <2>1. Presets \in Seq(E) /\ \A p \in E : p.provider \in STRING
    BY ConfigAssumption
  <2> HIDE DEF E
  <2> QED BY <2>1
<1>15. CASE UNCHANGED vars
  BY <1>15 DEF vars, KeysInv, SettingsInv, RewriteInv, AgentInv, Strayed, agent_endpoint_url
<1> QED
  BY <1>1, <1>2, <1>3, <1>4, <1>5, <1>6, <1>7, <1>8, <1>9, <1>10, <1>11, <1>12, <1>13,
     <1>14, <1>15, Zenon DEF Next

\* In every state of every run a call of an offered MCP tool reaches the server
\* and the tool that were offered, or is refused at the limit of a table; and a
\* run that has ended leaves the registry as it found it (mcp_bridges_start,
\* mcp_tool_handler, mcp_bridges_stop): for any servers, tools and limits.
THEOREM CallsReachTheirTool == Spec => []OfferedCallsArrive
<1>1. ToolsInv => OfferedCallsArrive
  <2> SUFFICES ASSUME ToolsInv PROVE OfferedCallsArrive
    OBVIOUS
  <2>1. CASE pc = "off"
    BY <2>1 DEF ToolsInv, Tables, OfferedCallsArrive
  <2>2. CASE pc # "off"
    <3>1. BridgesInv(tools)
      BY <2>2 DEF ToolsInv
    <3>2. DOMAIN tools.offered = 1 .. Len(tools.offered)
      BY <3>1 DEF BridgesInv
    <3> QED BY <2>2, <3>1, <3>2, CallsArrive DEF OfferedCallsArrive
  <2> QED BY <2>1, <2>2
<1> QED BY <1>1, ToolsInit, ToolsNext, PTL DEF Spec

\* In every request the key is one configured for the provider whose server it
\* goes to, or one given for every server, and that server is the one of the
\* model it names, but for a model without a base_url of another provider than
\* the run began with (config_load, config_apply_cli, config_switch_model,
\* agent_endpoint_url, and the settings other processes rewrite): for any models,
\* presets and command lines.
THEOREM KeysStayHome == Spec => []KeyFitsServer
<1>1. KeysInv => KeyFitsServer
  <2> DEFINE server == agent_endpoint_url(agent)
  <2> SUFFICES ASSUME KeysInv, pc = "chat", cfg.active # 0, ~Strayed
               PROVE  /\ agent.key \in {NoKey, EnvKey, CliKey} \/ server \in {agent.key.owner, CliUrl}
                      /\ \A i \in DOMAIN cfg.models :
                           cfg.models[i].name = agent.model =>
                             server \in {cfg.models[i].provider, CliUrl}
    BY DEF KeyFitsServer
  <2>1. /\ ConfigInv(cfg) /\ agent.key = cfg.key /\ agent.model = cfg.model
        /\ server \in {cfg.provider, CliUrl}
    BY DEF KeysInv, AgentInv
  <2> HIDE DEF server
  <2>2. /\ FromEntry(cfg, cfg.models[cfg.active]) /\ Listed(cfg.models)
        /\ \A i \in 1 .. Len(cfg.models) : cfg.models[i].name = cfg.model => i = cfg.active
    BY <2>1 DEF ConfigInv
  <2>3. DOMAIN cfg.models = 1 .. Len(cfg.models)
    BY <2>2 DEF Listed
  <2>4. cfg.key \in {NoKey, EnvKey, CliKey} \/ cfg.key.owner = cfg.provider
    BY <2>2 DEF FromEntry, KeyFor
  <2>5. \A i \in DOMAIN cfg.models : cfg.models[i].name = cfg.model => cfg.models[i].provider = cfg.provider
    BY <2>2, <2>3 DEF FromEntry
  <2> QED BY <2>1, <2>4, <2>5
<1> QED BY <1>1, KeysInit, KeysNext, PTL DEF Spec
===============================================================================
