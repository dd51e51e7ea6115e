--------------------------- MODULE AgentChat_proofs ---------------------------
(***************************************************************************)
(* Proofs about AgentChat for any number of rounds, retries, tool calls and *)
(* inputs and any context limit: type correctness, that every request pairs *)
(* tool calls with their results, that it is the request of this turn, that *)
(* no output is shown twice, and that a streamed turn keeps the answer it   *)
(* has shown in the history and in the session, or in neither and says so.  *)
(***************************************************************************)
EXTENDS AgentChat, SequenceTheorems, TLAPS

Summaries(f) == {Summary(f, l) : l \in BOOLEAN}
Messages ==
  {Prompt} \cup {User(t) : t \in 0..Turns} \cup {Assistant(n) : n \in Nat}
    \cup {ToolResult(n) : n \in Nat} \cup Summaries("answer") \cup Summaries("error")
Entries == {"user", "answer", "empty", "error"} \X (0..Turns)

\* Calls and results are paired in the history s.
Paired(s) ==
  \A k \in DOMAIN s :
    /\ s[k].kind = "assistant" =>
         \A c \in 1..s[k].calls : k + c <= Len(s) /\ s[k + c] = ToolResult(c)
    /\ s[k].kind = "tool" =>
         \E j \in 1..(k - 1) :
           /\ s[j].kind = "assistant"
           /\ k - j = s[k].call /\ s[k].call <= s[j].calls

\* The history s holds no request for a summary, and a summary only at its head.
Plain(s) == \A k \in DOMAIN s : s[k].kind # "prompt" /\ (s[k].kind = "summary" => k = 1)

\* Before an attempt at a request nothing of its answer has been shown.
ShownInv ==
  /\ emitted \in {0, 1}
  /\ pc \in {"attempt", "flight"} => emitted = 0

IInv ==
  /\ msgs \in Seq(Messages) /\ session \in Seq(Entries)
  /\ ToolPairing /\ RequestIsForThisTurn /\ ShownInv

\* The part of TypeOK that is not about truth values.
Typed ==
  /\ pc \in {"idle", "round", "attempt", "flight", "got", "finish"}
  /\ task \in {"none", "chat", "autocompact", "compact"}
  /\ pc = "idle" <=> task = "none"
  /\ turn \in 0..Turns
  /\ rounds \in 0..MaxRounds
  /\ attempt \in 0..MaxRetries
  /\ final \in Finals \cup {"none"}
  /\ emitted \in Nat
Flags == stream \in BOOLEAN /\ intr \in BOOLEAN

LEMMA TypeParts == TypeOK <=> Typed /\ Flags
BY Zenon DEF TypeOK, Typed, Flags
-----------------------------------------------------------------------------
\* What the kinds of messages have.
LEMMA Kinds ==
  /\ \A f, l : Summary(f, l).kind = "summary"
  /\ \A t : User(t).kind = "user"
  /\ \A n : Assistant(n).kind = "assistant" /\ Assistant(n).calls = n
  /\ \A n : ToolResult(n).kind = "tool" /\ ToolResult(n).call = n
  /\ Prompt.kind = "prompt"
BY DEF Summary, User, Assistant, ToolResult, Prompt

LEMMA Members ==
  /\ Prompt \in Messages
  /\ \A t \in 0..Turns : User(t) \in Messages
  /\ \A n \in Nat : Assistant(n) \in Messages /\ ToolResult(n) \in Messages
  /\ \A l \in BOOLEAN : Summary("answer", l) \in Messages /\ Summary("error", l) \in Messages
BY Zenon DEF Messages, Summaries

LEMMA CallsAreNumbers ==
  ASSUME NEW m \in Messages
  PROVE  /\ m.kind = "assistant" => m.calls \in Nat
         /\ m.kind = "tool" => m.call \in Nat
<1>1. CASE m = Prompt
  BY <1>1, Kinds
<1>2. CASE \E t \in 0..Turns : m = User(t)
  BY <1>2, Kinds
<1>3. CASE \E n \in Nat : m = Assistant(n)
  BY <1>3, Kinds
<1>4. CASE \E n \in Nat : m = ToolResult(n)
  BY <1>4, Kinds
<1>5. CASE \E f : m \in Summaries(f)
  <2>1. m.kind = "summary"
    <3>1. PICK f : m \in Summaries(f)
      BY <1>5, Zenon
    <3>2. PICK l \in BOOLEAN : m = Summary(f, l)
      BY <3>1, Zenon DEF Summaries
    <3>3. Summary(f, l).kind = "summary"
      BY Kinds, Zenon
    <3> QED BY <3>2, <3>3, Zenon
  <2>2. "summary" # "assistant" /\ "summary" # "tool"
    OBVIOUS
  <2> QED BY <2>1, <2>2, Zenon
<1> QED BY <1>1, <1>2, <1>3, <1>4, <1>5, Zenon DEF Messages

\* A history of one message that neither asks for tools nor answers is paired.
LEMMA OneIsPaired ==
  ASSUME NEW m \in Messages, m.kind \notin {"assistant", "tool"}
  PROVE  Paired(<<m>>) /\ <<m>> \in Seq(Messages)
BY DEF Paired

\* A message that neither asks for tools nor answers leaves a history paired.
LEMMA AppendKeepsPaired ==
  ASSUME NEW s \in Seq(Messages), Paired(s), NEW m \in Messages, m.kind # "tool",
         m.kind = "assistant" => m.calls = 0
  PROVE  Paired(Append(s, m)) /\ Append(s, m) \in Seq(Messages)
<1> DEFINE r == Append(s, m)
<1>1. /\ r \in Seq(Messages) /\ Len(s) \in Nat /\ Len(r) = Len(s) + 1
      /\ \A k \in 1..Len(s) : r[k] = s[k]
      /\ r[Len(s) + 1] = m /\ DOMAIN s = 1..Len(s) /\ DOMAIN r = 1..(Len(s) + 1)
  BY AppendProperties, LenProperties
<1>2. \A k \in 1..Len(s) : /\ s[k].kind = "assistant" => s[k].calls \in Nat
                           /\ s[k].kind = "tool" => s[k].call \in Nat
  BY ElementOfSeq, CallsAreNumbers
<1> HIDE DEF r
<1>3. ASSUME NEW k \in DOMAIN r, r[k].kind = "assistant", NEW c \in 1..r[k].calls
      PROVE  k + c <= Len(r) /\ r[k + c] = ToolResult(c)
  <2>1. k \in 1..Len(s) /\ r[k] = s[k] /\ s[k].calls \in Nat
    BY <1>1, <1>2, <1>3
  <2>2. k + c <= Len(s) /\ s[k + c] = ToolResult(c)
    BY <1>1, <1>3, <2>1 DEF Paired
  <2> QED BY <1>1, <2>1, <2>2
<1>4. ASSUME NEW k \in DOMAIN r, r[k].kind = "tool"
      PROVE  \E j \in 1..(k - 1) : /\ r[j].kind = "assistant"
                                   /\ k - j = r[k].call /\ r[k].call <= r[j].calls
  <2>1. k \in 1..Len(s) /\ r[k] = s[k]
    BY <1>1, <1>4
  <2>2. PICK j \in 1..(k - 1) : /\ s[j].kind = "assistant"
                                /\ k - j = s[k].call /\ s[k].call <= s[j].calls
    BY <1>1, <1>4, <2>1 DEF Paired
  <2> QED BY <1>1, <2>1, <2>2
<1>5. Paired(r)
  BY <1>3, <1>4, Zenon DEF Paired
<1> QED BY <1>1, <1>5 DEF r

\* So does a request for n tools with the n results after it.
LEMMA ToolsKeepPaired ==
  ASSUME NEW s \in Seq(Messages), Paired(s), NEW n \in Nat
  PROVE  LET r == s \o <<Assistant(n)>> \o [c \in 1..n |-> ToolResult(c)]
         IN  /\ r \in Seq(Messages) /\ Paired(r) /\ Len(r) = Len(s) + 1 + n
             /\ \A k \in 1..Len(s) : r[k] = s[k]
             /\ r[Len(s) + 1] = Assistant(n)
             /\ \A c \in 1..n : r[Len(s) + 1 + c] = ToolResult(c)
<1> DEFINE q == [c \in 1..n |-> ToolResult(c)]
           p == s \o <<Assistant(n)>>
           r == p \o q
<1>1. q \in Seq(Messages) /\ Len(q) = n /\ \A c \in 1..n : q[c] = ToolResult(c)
  <2>1. \A c \in 1..n : ToolResult(c) \in Messages
    BY Members
  <2>2. q \in [1..n -> Messages]
    BY <2>1
  <2>3. q \in Seq(Messages)
    <3>1. Seq(Messages) = UNION {[1..m -> Messages] : m \in Nat}
      BY SeqDef, Zenon
    <3>2. [1..n -> Messages] \in {[1..m -> Messages] : m \in Nat}
      BY Zenon
    <3> QED BY <2>2, <3>1, <3>2, Zenon
  <2>4. DOMAIN q = 1..n /\ DOMAIN q = 1..Len(q) /\ Len(q) \in Nat
    BY <2>3, LenProperties
  <2>5. Len(q) = n
    BY <2>4
  <2> QED BY <2>3, <2>5
<1>2. /\ p \in Seq(Messages) /\ Len(s) \in Nat /\ Len(p) = Len(s) + 1
      /\ \A k \in 1..Len(s) : p[k] = s[k]
      /\ p[Len(s) + 1] = Assistant(n)
  <2>1. <<Assistant(n)>> \in Seq(Messages) /\ Len(<<Assistant(n)>>) = 1
    BY Members
  <2> QED BY <2>1, ConcatProperties, LenProperties
<1> HIDE DEF p, q
<1>3. /\ r \in Seq(Messages) /\ Len(r) = Len(s) + 1 + n
      /\ \A k \in 1..(Len(s) + 1) : r[k] = p[k]
      /\ \A k \in 1..Len(r) : k > Len(s) + 1 => r[k] = q[k - (Len(s) + 1)]
  <2>1. /\ r \in Seq(Messages) /\ Len(r) = Len(p) + Len(q)
        /\ \A i \in 1..(Len(p) + Len(q)) : r[i] = IF i <= Len(p) THEN p[i] ELSE q[i - Len(p)]
    BY <1>1, <1>2, ConcatProperties
  <2> HIDE DEF r
  <2> QED BY <1>1, <1>2, <2>1
<1>4. /\ \A k \in 1..Len(s) : r[k] = s[k]
      /\ r[Len(s) + 1] = Assistant(n)
      /\ \A c \in 1..n : r[Len(s) + 1 + c] = ToolResult(c)
      /\ DOMAIN r = 1..(Len(s) + 1 + n) /\ DOMAIN s = 1..Len(s)
  <2> HIDE DEF r
  <2>1. \A c \in 1..n : Len(s) + 1 + c \in 1..Len(r) /\ Len(s) + 1 + c > Len(s) + 1
                        /\ Len(s) + 1 + c - (Len(s) + 1) = c
    BY <1>2, <1>3
  <2>2. Len(s) + 1 \in 1..(Len(s) + 1) /\ \A k \in 1..Len(s) : k \in 1..(Len(s) + 1)
    BY <1>2
  <2>3. DOMAIN r = 1..(Len(s) + 1 + n) /\ DOMAIN s = 1..Len(s)
    BY <1>3, LenProperties
  <2>4. \A c \in 1..n : r[Len(s) + 1 + c] = ToolResult(c)
    BY <1>1, <1>3, <2>1
  <2>5. (\A k \in 1..Len(s) : r[k] = s[k]) /\ r[Len(s) + 1] = Assistant(n)
    BY <1>2, <1>3, <2>2
  <2> QED BY <2>3, <2>4, <2>5
<1>5. \A k \in 1..Len(s) : /\ s[k].kind = "assistant" => s[k].calls \in Nat
                           /\ s[k].kind = "tool" => s[k].call \in Nat
  BY ElementOfSeq, CallsAreNumbers
<1> HIDE DEF r
<1>6. ASSUME NEW k \in DOMAIN r, r[k].kind = "assistant", NEW c \in 1..r[k].calls
      PROVE  k + c <= Len(r) /\ r[k + c] = ToolResult(c)
  <2>1. CASE k \in 1..Len(s)
    <3>1. r[k] = s[k] /\ s[k].calls \in Nat
      BY <1>4, <1>5, <1>6, <2>1
    <3>2. k + c <= Len(s) /\ s[k + c] = ToolResult(c)
      BY <1>4, <1>6, <2>1, <3>1 DEF Paired
    <3> QED BY <1>2, <1>3, <1>4, <2>1, <3>1, <3>2
  <2>2. CASE k = Len(s) + 1
    <3>1. c \in 1..n
      BY <1>4, <1>6, <2>2, Kinds
    <3> QED BY <1>2, <1>3, <1>4, <2>2, <3>1
  <2>3. CASE k > Len(s) + 1
    <3>1. r[k].kind = "tool"
      <4>1. k - (Len(s) + 1) \in 1..n /\ k = Len(s) + 1 + (k - (Len(s) + 1))
        BY <1>2, <1>4, <2>3
      <4> QED BY <1>4, <4>1, Kinds
    <3> QED BY <1>6, <3>1
  <2> QED BY <1>2, <1>4, <2>1, <2>2, <2>3
<1>7. ASSUME NEW k \in DOMAIN r, r[k].kind = "tool"
      PROVE  \E j \in 1..(k - 1) : /\ r[j].kind = "assistant"
                                   /\ k - j = r[k].call /\ r[k].call <= r[j].calls
  <2>1. CASE k \in 1..Len(s)
    <3>1. PICK j \in 1..(k - 1) : /\ s[j].kind = "assistant"
                                  /\ k - j = s[k].call /\ s[k].call <= s[j].calls
      BY <1>4, <1>7, <2>1 DEF Paired
    <3> QED BY <1>2, <1>4, <2>1, <3>1
  <2>2. CASE k = Len(s) + 1
    BY <1>4, <1>7, <2>2, Kinds
  <2>3. CASE k > Len(s) + 1
    <3> DEFINE c == k - (Len(s) + 1)
    <3>1. c \in 1..n /\ k = Len(s) + 1 + c /\ Len(s) + 1 \in 1..(k - 1)
          /\ k - (Len(s) + 1) = c /\ c <= n
      BY <1>2, <1>4, <2>3
    <3> HIDE DEF c
    <3>2. r[k].call = c /\ r[Len(s) + 1].kind = "assistant" /\ r[Len(s) + 1].calls = n
      BY <1>4, <3>1, Kinds
    <3>3. k - (Len(s) + 1) = r[k].call /\ r[k].call <= r[Len(s) + 1].calls
      BY <3>1, <3>2
    <3>4. Len(s) + 1 \in 1..(k - 1)
      BY <3>1
    <3> WITNESS Len(s) + 1 \in 1..(k - 1)
    <3> QED BY <3>2, <3>3, Zenon
  <2>4. k \in 1..Len(s) \/ k = Len(s) + 1 \/ k > Len(s) + 1
    BY <1>2, <1>4
  <2> QED BY <2>1, <2>2, <2>3, <2>4, Zenon
<1>8. Paired(r)
  BY <1>6, <1>7, Zenon DEF Paired
<1> QED BY <1>3, <1>4, <1>8, Zenon DEF r, p, q
-----------------------------------------------------------------------------
\* A message added under the same task and turn keeps the request this turn's, as
\* long as it is one of the agent's own.
LEMMA GrowingKeepsRequest ==
  ASSUME RequestIsForThisTurn, NEW n \in Nat, UNCHANGED <<task, turn>>,
         msgs \in Seq(Messages), msgs' \in Seq(Messages), Len(msgs') = Len(msgs) + n,
         \A k \in 1..Len(msgs) : msgs'[k] = msgs[k],
         \A k \in 1..Len(msgs') : k > Len(msgs) => msgs'[k].kind \in {"assistant", "tool"}
  PROVE  RequestIsForThisTurn'
<1>1. /\ Len(msgs) \in Nat /\ DOMAIN msgs = 1..Len(msgs)
      /\ DOMAIN msgs' = 1..Len(msgs') /\ Len(msgs') \in Nat
  BY LenProperties
<1>2. \A k \in DOMAIN msgs' : k \in DOMAIN msgs \/ msgs'[k].kind \in {"assistant", "tool"}
  BY <1>1
<1>3. ASSUME task = "chat"
      PROVE  \E k \in DOMAIN msgs' :
               /\ msgs'[k] = User(turn)
               /\ \A j \in (k + 1)..Len(msgs') : msgs'[j].kind \in {"assistant", "tool"}
  <2>1. PICK k \in DOMAIN msgs :
               /\ msgs[k] = User(turn)
               /\ \A j \in (k + 1)..Len(msgs) : msgs[j].kind \in {"assistant", "tool"}
    BY <1>3 DEF RequestIsForThisTurn
  <2>2. k \in DOMAIN msgs' /\ msgs'[k] = User(turn)
    BY <1>1, <2>1
  <2>3. \A j \in (k + 1)..Len(msgs') : msgs'[j].kind \in {"assistant", "tool"}
    BY <1>1, <2>1
  <2> QED BY <2>2, <2>3
<1>4. \A k \in DOMAIN msgs' :
        /\ msgs'[k].kind = "prompt" => task \in {"autocompact", "compact"}
        /\ msgs'[k].kind = "summary" => k = 1
  BY <1>1, <1>2 DEF RequestIsForThisTurn
<1> QED BY <1>3, <1>4 DEF RequestIsForThisTurn

\* A turn begins with its input at the end of a history without machinery.
LEMMA InputMakesRequest ==
  ASSUME NEW s \in Seq(Messages), Plain(s), Paired(s), turn' \in 0..Turns,
         msgs' = Append(s, User(turn')), task' = "chat"
  PROVE  msgs' \in Seq(Messages) /\ ToolPairing' /\ RequestIsForThisTurn'
<1>1. User(turn') \in Messages /\ User(turn').kind = "user"
  BY Kinds, Members, Zenon
<1>2. msgs' \in Seq(Messages) /\ Paired(msgs')
  <2>1. User(turn').kind # "tool" /\ User(turn').kind # "assistant"
    BY <1>1
  <2> QED BY <1>1, <2>1, AppendKeepsPaired, Zenon
<1>3. /\ Len(s) \in Nat /\ DOMAIN s = 1..Len(s) /\ DOMAIN msgs' = 1..(Len(s) + 1)
      /\ Len(msgs') = Len(s) + 1
      /\ \A k \in 1..Len(s) : msgs'[k] = s[k]
      /\ msgs'[Len(s) + 1] = User(turn')
  BY <1>1, <1>2, AppendProperties, LenProperties
<1>4. \A k \in DOMAIN msgs' : msgs'[k].kind # "prompt" /\ (msgs'[k].kind = "summary" => k = 1)
  BY <1>1, <1>3 DEF Plain
<1>5. \E k \in DOMAIN msgs' :
        /\ msgs'[k] = User(turn')
        /\ \A j \in (k + 1)..Len(msgs') : msgs'[j].kind \in {"assistant", "tool"}
  <2>1. Len(s) + 1 \in DOMAIN msgs'
    BY <1>3
  <2>2. \A j \in (Len(s) + 1 + 1)..Len(msgs') : msgs'[j].kind \in {"assistant", "tool"}
    BY <1>3
  <2> QED BY <1>3, <2>1, <2>2, Zenon
<1>6. RequestIsForThisTurn'
  BY <1>4, <1>5, Zenon DEF RequestIsForThisTurn
<1>7. ToolPairing'
  BY <1>2, Zenon DEF ToolPairing, Paired
<1> QED BY <1>2, <1>6, <1>7

\* Outside a compaction the history is plain.
LEMMA IdleIsPlain ==
  ASSUME RequestIsForThisTurn, task \in {"none", "chat"} PROVE Plain(msgs)
<1>1. task \notin {"autocompact", "compact"}
  OBVIOUS
<1> QED BY <1>1, Zenon DEF RequestIsForThisTurn, Plain

\* A compaction starts with its request alone.
LEMMA PromptMakesRequest ==
  ASSUME msgs' = <<Prompt>>, task' \in {"autocompact", "compact"}
  PROVE  msgs' \in Seq(Messages) /\ ToolPairing' /\ RequestIsForThisTurn'
<1>1. Prompt \in Messages /\ Prompt.kind = "prompt" /\ Prompt.kind \notin {"assistant", "tool"}
  BY Kinds, Members
<1>2. Paired(msgs') /\ msgs' \in Seq(Messages)
  BY <1>1, OneIsPaired, Zenon
<1>3. /\ task' # "chat"
      /\ \A k \in DOMAIN msgs' : k = 1
      /\ \A k \in DOMAIN msgs' : msgs'[k].kind = "prompt"
  BY <1>1
<1> QED BY <1>2, <1>3, Zenon DEF ToolPairing, Paired, RequestIsForThisTurn

\* A compaction leaves a summary alone, or nothing.
LEMMA CompactedIsPlain ==
  ASSUME NEW l \in BOOLEAN
  PROVE  /\ Compacted(l) \in Seq(Messages) /\ Paired(Compacted(l)) /\ Plain(Compacted(l))
         /\ Len(Compacted(l)) < 4
<1>1. CASE Returned \in {"answer", "error"}
  <2> DEFINE m == Summary(Returned, l /\ Returned = "answer")
  <2>1. m \in Messages
    <3>1. (l /\ Returned = "answer") \in BOOLEAN
      BY Zenon
    <3> HIDE DEF Returned
    <3>2. Returned = "answer" \/ Returned = "error"
      BY <1>1, Zenon
    <3> QED BY <3>1, <3>2, Members, Zenon
  <2>2. m.kind = "summary"
    BY Kinds, Zenon
  <2>3. Compacted(l) = <<m>>
    BY <1>1, Zenon DEF Compacted
  <2> HIDE DEF m
  <2>4. m.kind \notin {"assistant", "tool", "prompt"}
    BY <2>2
  <2>5. Paired(<<m>>) /\ <<m>> \in Seq(Messages)
    BY <2>1, <2>4, OneIsPaired
  <2>6. Plain(<<m>>) /\ Len(<<m>>) < 4
    BY <2>4 DEF Plain
  <2> QED BY <2>3, <2>5, <2>6, Zenon
<1>2. CASE Returned \notin {"answer", "error"}
  <2>1. Compacted(l) = << >>
    BY <1>2, Zenon DEF Compacted
  <2>2. << >> \in Seq(Messages) /\ Paired(<< >>) /\ Plain(<< >>) /\ Len(<< >>) < 4
    BY EmptySeq DEF Paired, Plain
  <2> QED BY <2>1, <2>2, Zenon
<1> QED BY <1>1, <1>2, Zenon
-----------------------------------------------------------------------------
LEMMA InitInv == Init => TypeOK /\ IInv
<1> SUFFICES ASSUME Init PROVE TypeOK /\ IInv
  OBVIOUS
<1>1. Flags
  BY Zenon DEF Init, Flags
<1>2. Typed
  BY ConstantsAssumption DEF Init, Typed, Finals
<1>3. /\ msgs \in Seq(Messages) /\ session \in Seq(Entries)
      /\ ToolPairing /\ RequestIsForThisTurn /\ ShownInv
  BY EmptySeq DEF Init, ToolPairing, RequestIsForThisTurn, ShownInv
<1> QED BY <1>1, <1>2, <1>3, TypeParts, Zenon DEF IInv

\* agent_chat starts: what it starts with decides whether the history is right.
LEMMA BeginKeeps ==
  ASSUME Typed, ShownInv, NEW t \in {"chat", "autocompact", "compact"}, NEW m, Begin(t, m),
         turn' \in 0..Turns
  PROVE  Typed' /\ ShownInv' /\ task' = t /\ msgs' = m
<1>1. /\ task' = t /\ msgs' = m /\ pc' = "round" /\ rounds' = MaxRounds /\ final' = "none"
      /\ UNCHANGED <<attempt, emitted>>
  BY Zenon DEF Begin
<1>2. Typed'
  BY <1>1, ConstantsAssumption DEF Typed
<1>3. ShownInv'
  BY <1>1 DEF ShownInv
<1> QED BY <1>1, <1>2, <1>3

\* Each command of the REPL keeps the invariant, and so does an interrupt.
LEMMA ReplKeepsInv ==
  TypeOK /\ IInv /\ (ReplInput \/ ReplCompact \/ ReplClear \/ Interrupt) => TypeOK' /\ IInv'
<1> SUFFICES ASSUME TypeOK, IInv, ReplInput \/ ReplCompact \/ ReplClear \/ Interrupt
             PROVE  TypeOK' /\ IInv'
  OBVIOUS
<1>1. Typed /\ Flags /\ ShownInv /\ RequestIsForThisTurn /\ ToolPairing
      /\ msgs \in Seq(Messages) /\ session \in Seq(Entries)
  BY TypeParts, Zenon DEF IInv
<1>2. Flags'
  BY <1>1, Zenon DEF Flags, ReplInput, ReplCompact, ReplClear, Interrupt, Begin
<1>3. CASE ReplInput
  <2>1. /\ pc = "idle" /\ turn < Turns /\ turn' = turn + 1
        /\ session' = Append(session, <<"user", turn'>>)
    BY <1>3, Zenon DEF ReplInput
  <2>2. turn' \in 0..Turns /\ task = "none"
    BY <1>1, <2>1, ConstantsAssumption DEF Typed
  <2>3. session' \in Seq(Entries)
    <3>1. <<"user", turn'>> \in Entries
      BY <2>2 DEF Entries
    <3> QED BY <1>1, <2>1, <3>1, AppendProperties
  <2>4. CASE OverLimit(msgs)
    <3>1. Begin("autocompact", <<Prompt>>)
      BY <1>3, <2>4, Zenon DEF ReplInput
    <3>2. Typed' /\ ShownInv' /\ task' = "autocompact" /\ msgs' = <<Prompt>>
      BY <1>1, <2>2, <3>1, BeginKeeps
    <3>3. task' \in {"autocompact", "compact"}
      BY <3>2
    <3> QED BY <1>2, <2>3, <3>2, <3>3, PromptMakesRequest, Zenon DEF IInv, TypeOK, Typed, Flags
  <2>5. CASE ~OverLimit(msgs)
    <3>1. Begin("chat", Append(msgs, User(turn')))
      BY <1>3, <2>5, Zenon DEF ReplInput
    <3>2. Typed' /\ ShownInv' /\ task' = "chat" /\ msgs' = Append(msgs, User(turn'))
      BY <1>1, <2>2, <3>1, BeginKeeps
    <3>3. Plain(msgs) /\ Paired(msgs)
      BY <1>1, <2>2, IdleIsPlain, Zenon DEF ToolPairing, Paired
    <3> QED BY <1>1, <1>2, <2>2, <2>3, <3>2, <3>3, InputMakesRequest, Zenon
            DEF IInv, TypeOK, Typed, Flags
  <2> QED BY <2>4, <2>5, Zenon
<1>4. CASE ReplCompact
  <2>1. Begin("compact", <<Prompt>>) /\ UNCHANGED <<turn, session>>
    BY <1>4, Zenon DEF ReplCompact
  <2>2. turn' \in 0..Turns
    BY <1>1, <2>1, Zenon DEF Typed
  <2>3. Typed' /\ ShownInv' /\ task' = "compact" /\ msgs' = <<Prompt>>
    BY <1>1, <2>1, <2>2, BeginKeeps
  <2>4. task' \in {"autocompact", "compact"}
    BY <2>3
  <2> QED BY <1>1, <1>2, <2>1, <2>3, <2>4, PromptMakesRequest, Zenon
          DEF IInv, TypeOK, Typed, Flags
<1>5. CASE ReplClear
  <2>1. /\ pc = "idle" /\ msgs' = << >>
        /\ UNCHANGED <<pc, task, turn, rounds, attempt, emitted, final, session>>
    BY <1>5, Zenon DEF ReplClear, loop
  <2>2. Typed' /\ ShownInv' /\ task' # "chat"
    BY <1>1, <2>1 DEF Typed, ShownInv
  <2>3. msgs' \in Seq(Messages) /\ ToolPairing' /\ RequestIsForThisTurn'
    BY <2>1, <2>2, EmptySeq DEF ToolPairing, RequestIsForThisTurn
  <2> QED BY <1>1, <1>2, <2>1, <2>2, <2>3, Zenon DEF IInv, TypeOK, Typed, Flags
<1>6. CASE Interrupt
  <2>1. UNCHANGED <<pc, task, turn, msgs, rounds, attempt, emitted, final, session>>
    BY <1>6, Zenon DEF Interrupt, loop
  <2> QED BY <1>1, <1>2, <2>1, Zenon
          DEF IInv, TypeOK, Typed, Flags, ShownInv, ToolPairing, RequestIsForThisTurn
<1> QED BY <1>3, <1>4, <1>5, <1>6, Zenon

\* The steps of a request up to its response leave the history alone.
LEMMA RequestKeepsInv ==
  TypeOK /\ IInv
    /\ (RoundHead \/ Poll \/ Discard
          \/ \E o \in Outputs : Succeeds(o) \/ \E t \in BOOLEAN : Fails(t, o))
    => TypeOK' /\ IInv'
<1> SUFFICES ASSUME TypeOK, IInv,
                    RoundHead \/ Poll \/ Discard
                      \/ \E o \in Outputs : Succeeds(o) \/ \E t \in BOOLEAN : Fails(t, o)
             PROVE  TypeOK' /\ IInv'
  OBVIOUS
<1>1. Typed /\ Flags /\ ShownInv
  BY TypeParts, Zenon DEF IInv
<1>2. UNCHANGED <<stream, task, turn, intr, session, msgs, final>>
  BY Zenon DEF RoundHead, Poll, Discard, Succeeds, Fails, Jump
<1>8. \A o : Show(o) => emitted' = emitted + 1 \/ emitted' = emitted + 0
  BY Zenon DEF Show
<1>9. Show("none") => emitted' = emitted + 0
  BY "none" # "text", Zenon DEF Show
<1>3. /\ msgs' \in Seq(Messages) /\ session' \in Seq(Entries)
      /\ ToolPairing' /\ RequestIsForThisTurn'
  BY <1>2, Zenon DEF IInv, ToolPairing, RequestIsForThisTurn
<1>4. Flags'
  BY <1>1, <1>2, Zenon DEF Flags
<1>5. pc # "idle" /\ task # "none"
  <2>1. pc \in {"round", "attempt", "flight", "got"}
    BY DEF RoundHead, Poll, Discard, Succeeds, Fails
  <2> QED BY <1>1, <2>1 DEF Typed
<1>6. /\ pc' \in {"round", "attempt", "flight", "got", "finish"}
      /\ rounds' \in 0..MaxRounds /\ attempt' \in 0..MaxRetries
      /\ ShownInv'
  <2> USE ConstantsAssumption
  <2>1. CASE RoundHead
    <3>1. CASE rounds = 0
      <4>1. pc = "round" /\ pc' = "finish" /\ UNCHANGED <<rounds, attempt, emitted>>
        BY <2>1, <3>1, Zenon DEF RoundHead, Jump, loop
      <4> QED BY <1>1, <4>1 DEF Typed, ShownInv
    <3>2. CASE rounds # 0
      <4>1. pc' = "attempt" /\ rounds' = rounds - 1 /\ attempt' = 0 /\ emitted' = 0
        BY <2>1, <3>2, Zenon DEF RoundHead, Jump
      <4> QED BY <1>1, <3>2, <4>1 DEF Typed, ShownInv
    <3> QED BY <3>1, <3>2
  <2>2. CASE Poll
    <3>1. /\ pc = "attempt" /\ (pc' = "finish" \/ pc' = "flight")
          /\ UNCHANGED <<rounds, attempt, emitted>>
      BY <2>2, Zenon DEF Poll, Jump, loop
    <3> QED BY <1>1, <3>1 DEF Typed, ShownInv
  <2>3. CASE Discard
    <3>1. pc' = "finish" /\ UNCHANGED <<rounds, attempt, emitted>>
      BY <2>3, Zenon DEF Discard, Jump, loop
    <3> QED BY <1>1, <3>1 DEF Typed, ShownInv
  <2>4. CASE \E o \in Outputs : Succeeds(o)
    <3>1. /\ pc = "flight" /\ pc' = "got" /\ UNCHANGED <<rounds, attempt>>
          /\ emitted' = emitted + 1 \/ emitted' = emitted + 0
      BY <1>8, <2>4, Zenon DEF Succeeds, Jump
    <3> QED BY <1>1, <3>1 DEF Typed, ShownInv
  <2>5. CASE \E o \in Outputs, t \in BOOLEAN : Fails(t, o)
    <3>1. PICK o \in Outputs, t \in BOOLEAN : Fails(t, o)
      BY <2>5, Zenon
    <3>2. /\ pc = "flight" /\ rounds' = rounds
          /\ emitted' = emitted + 1 \/ emitted' = emitted + 0
          /\ \/ /\ attempt < MaxRetries /\ attempt' = attempt + 1
                /\ pc' = "attempt" /\ emitted' = emitted + 0
             \/ pc' = "finish" /\ attempt' = attempt
      BY <1>8, <1>9, <3>1, Zenon DEF Fails, Jump
    <3> QED BY <1>1, <3>2 DEF Typed, ShownInv
  <2> QED BY <2>1, <2>2, <2>3, <2>4, <2>5, Zenon
<1>7. Typed'
  <2>1. emitted' \in Nat /\ pc' \in {"idle", "round", "attempt", "flight", "got", "finish"}
        /\ pc' # "idle"
    BY <1>6 DEF ShownInv
  <2> QED BY <1>1, <1>2, <1>5, <1>6, <2>1, Zenon DEF Typed
<1> QED BY <1>3, <1>4, <1>6, <1>7, Zenon DEF IInv, TypeOK, Typed, Flags

\* A response that the agent takes in adds its own messages only.
LEMMA ResponseKeepsInv ==
  TypeOK /\ IInv /\ ((\E c \in 1..MaxCalls : UseTools(c)) \/ \E f \in Finals : Answer(f))
    => TypeOK' /\ IInv'
<1> SUFFICES ASSUME TypeOK, IInv,
                    (\E c \in 1..MaxCalls : UseTools(c)) \/ \E f \in Finals : Answer(f)
             PROVE  TypeOK' /\ IInv'
  OBVIOUS
<1>1. /\ Typed /\ Flags /\ ShownInv /\ RequestIsForThisTurn /\ Paired(msgs)
      /\ msgs \in Seq(Messages) /\ session \in Seq(Entries)
  BY TypeParts, Zenon DEF IInv, ToolPairing, Paired
<1>2. /\ UNCHANGED <<stream, task, turn, intr, session, rounds, attempt, emitted>>
      /\ pc = "got" /\ (pc' = "round" \/ pc' = "finish")
      /\ final' = final \/ final' \in Finals
  BY Zenon DEF UseTools, Answer, Jump, loop
<1>3. Typed' /\ ShownInv'
  BY <1>1, <1>2 DEF Typed, ShownInv
<1>4. Flags' /\ session' \in Seq(Entries)
  BY <1>1, <1>2, Zenon DEF Flags
<1>5. msgs' \in Seq(Messages) /\ Paired(msgs') /\ RequestIsForThisTurn'
  <2>1. ASSUME NEW c \in 1..MaxCalls, UseTools(c)
        PROVE  msgs' \in Seq(Messages) /\ Paired(msgs') /\ RequestIsForThisTurn'
    <3>1. c \in Nat
      BY ConstantsAssumption
    <3>2. msgs' = msgs \o <<Assistant(c)>> \o [k \in 1..c |-> ToolResult(k)]
      BY <2>1, Zenon DEF UseTools
    <3>3. /\ msgs' \in Seq(Messages) /\ Paired(msgs') /\ Len(msgs') = Len(msgs) + 1 + c
          /\ \A k \in 1..Len(msgs) : msgs'[k] = msgs[k]
          /\ msgs'[Len(msgs) + 1] = Assistant(c)
          /\ \A k \in 1..c : msgs'[Len(msgs) + 1 + k] = ToolResult(k)
      BY <1>1, <3>1, <3>2, ToolsKeepPaired, Zenon
    <3>4. Len(msgs) \in Nat
      BY <1>1, LenProperties
    <3>5. \A k \in 1..Len(msgs') : k > Len(msgs) => msgs'[k].kind \in {"assistant", "tool"}
      <4> SUFFICES ASSUME NEW k \in 1..Len(msgs'), k > Len(msgs)
                   PROVE  msgs'[k].kind \in {"assistant", "tool"}
        OBVIOUS
      <4>1. k = Len(msgs) + 1 \/ k - (Len(msgs) + 1) \in 1..c
        BY <3>1, <3>3, <3>4
      <4>2. CASE k = Len(msgs) + 1
        BY <3>3, <4>2, Kinds
      <4>3. CASE k - (Len(msgs) + 1) \in 1..c
        <5>1. k = Len(msgs) + 1 + (k - (Len(msgs) + 1))
          BY <3>4
        <5>2. msgs'[k] = ToolResult(k - (Len(msgs) + 1))
          BY <3>3, <4>3, <5>1
        <5>3. msgs'[k].kind = "tool"
          BY <5>2, Kinds, Zenon
        <5> QED BY <5>3
      <4> QED BY <4>1, <4>2, <4>3
    <3>6. 1 + c \in Nat /\ Len(msgs') = Len(msgs) + (1 + c)
      BY <3>1, <3>3, <3>4
    <3> QED BY <1>1, <1>2, <3>3, <3>5, <3>6, GrowingKeepsRequest, Zenon
  <2>2. ASSUME NEW f \in Finals, Answer(f)
        PROVE  msgs' \in Seq(Messages) /\ Paired(msgs') /\ RequestIsForThisTurn'
    <3>1. msgs' = Append(msgs, Assistant(0))
      BY <2>2, Zenon DEF Answer
    <3>2. /\ Assistant(0) \in Messages /\ Assistant(0).kind = "assistant"
          /\ Assistant(0).kind # "tool" /\ Assistant(0).calls = 0
      BY Kinds, Members
    <3>3. msgs' \in Seq(Messages) /\ Paired(msgs')
      BY <1>1, <3>1, <3>2, AppendKeepsPaired, Zenon
    <3>4. /\ Len(msgs') = Len(msgs) + 1 /\ Len(msgs) \in Nat
          /\ \A k \in 1..Len(msgs) : msgs'[k] = msgs[k]
          /\ msgs'[Len(msgs) + 1] = Assistant(0)
      BY <1>1, <3>1, <3>2, AppendProperties, LenProperties
    <3>5. \A k \in 1..Len(msgs') : k > Len(msgs) => msgs'[k].kind \in {"assistant", "tool"}
      BY <3>2, <3>4
    <3> QED BY <1>1, <1>2, <3>3, <3>4, <3>5, GrowingKeepsRequest, 1 \in Nat, Zenon
  <2> QED BY <2>1, <2>2, Zenon
<1>6. ToolPairing'
  BY <1>5, Zenon DEF ToolPairing, Paired
<1> QED BY <1>3, <1>4, <1>5, <1>6, Zenon DEF IInv, TypeOK, Typed, Flags

\* What agent_chat can return when it is done.
LEMMA ReturnedValues == Typed => Returned \in {"NULL", "error", "answer", "empty"}
<1> SUFFICES ASSUME Typed PROVE Returned \in {"NULL", "error", "answer", "empty"}
  OBVIOUS
<1>1. Returned = "NULL" \/ (final = "none" /\ Returned = "error")
        \/ (final # "none" /\ Returned = final)
  BY Zenon DEF Returned
<1>2. final \in {"answer", "empty", "none"}
  BY DEF Typed, Finals
<1> QED BY <1>1, <1>2

LEMMA FinishKeepsInv ==
  TypeOK /\ IInv
    /\ (FinishTurn \/ \E l \in BOOLEAN : FinishCompact(l) \/ FinishAutoCompact(l))
    => TypeOK' /\ IInv'
<1> SUFFICES ASSUME TypeOK, IInv,
                    FinishTurn \/ \E l \in BOOLEAN : FinishCompact(l) \/ FinishAutoCompact(l)
             PROVE  TypeOK' /\ IInv'
  OBVIOUS
<1>1. /\ Typed /\ Flags /\ ShownInv /\ RequestIsForThisTurn /\ ToolPairing
      /\ msgs \in Seq(Messages) /\ session \in Seq(Entries)
  BY TypeParts, Zenon DEF IInv
<1>2. Flags'
  BY <1>1, Zenon DEF Flags, FinishTurn, FinishCompact, FinishAutoCompact, Begin
<1>3. CASE FinishTurn
  <2>1. /\ task = "chat" /\ pc' = "idle" /\ task' = "none"
        /\ UNCHANGED <<turn, msgs, rounds, attempt, emitted, final>>
        /\ session' = session \/ session' = Append(session, <<Returned, turn>>)
    BY <1>3, Zenon DEF FinishTurn, loop
  <2>2. Typed' /\ ShownInv'
    BY <1>1, <2>1 DEF Typed, ShownInv
  <2>3. session' \in Seq(Entries)
    <3>1. CASE Returned = "NULL"
      BY <1>1, <1>3, <3>1, Zenon DEF FinishTurn
    <3>2. CASE Returned # "NULL"
      <4>1. Returned \in {"user", "answer", "empty", "error"} /\ turn \in 0..Turns
        BY <1>1, <3>2, ReturnedValues DEF Typed
      <4>2. <<Returned, turn>> \in Entries
        BY <4>1, Zenon DEF Entries
      <4>3. Append(session, <<Returned, turn>>) \in Seq(Entries)
        BY <1>1, <4>2, AppendProperties, Zenon
      <4> QED BY <1>1, <2>1, <4>3, Zenon
    <3> QED BY <3>1, <3>2, Zenon
  <2>4. RequestIsForThisTurn'
    <3>1. Plain(msgs) /\ task' # "chat"
      BY <1>1, <2>1, IdleIsPlain
    <3>2. \A k \in DOMAIN msgs' : /\ msgs'[k].kind # "prompt"
                                  /\ msgs'[k].kind = "summary" => k = 1
      BY <2>1, <3>1, Zenon DEF Plain
    <3> QED BY <3>1, <3>2, Zenon DEF RequestIsForThisTurn
  <2>5. msgs' \in Seq(Messages) /\ ToolPairing'
    BY <1>1, <2>1, Zenon DEF ToolPairing
  <2> QED BY <1>2, <2>2, <2>3, <2>4, <2>5, Zenon DEF IInv, TypeOK, Typed, Flags
<1>4. ASSUME NEW l \in BOOLEAN, FinishCompact(l) PROVE TypeOK' /\ IInv'
  <2>1. /\ pc' = "idle" /\ task' = "none" /\ msgs' = Compacted(l)
        /\ UNCHANGED <<turn, rounds, attempt, emitted, final, session>>
    BY <1>4, Zenon DEF FinishCompact, loop
  <2>2. msgs' \in Seq(Messages) /\ Paired(msgs') /\ Plain(msgs')
    BY <2>1, CompactedIsPlain, Zenon
  <2>3. task' # "chat" /\ "idle" \in {"idle", "round", "attempt", "flight", "got", "finish"}
    BY <2>1
  <2>4. Typed'
    <3>1. /\ pc' \in {"idle", "round", "attempt", "flight", "got", "finish"}
          /\ task' \in {"none", "chat", "autocompact", "compact"}
      BY <2>1, <2>3
    <3> QED BY <1>1, <2>1, <3>1, Zenon DEF Typed
  <2>5. ShownInv'
    <3>1. pc' \notin {"attempt", "flight"}
      BY <2>1
    <3> QED BY <1>1, <2>1, <3>1, Zenon DEF ShownInv
  <2>6. ToolPairing' /\ RequestIsForThisTurn'
    BY <2>2, <2>3, Zenon DEF ToolPairing, Paired, RequestIsForThisTurn, Plain
  <2> QED BY <1>1, <1>2, <2>1, <2>2, <2>4, <2>5, <2>6, Zenon DEF IInv, TypeOK, Typed, Flags
<1>5. ASSUME NEW l \in BOOLEAN, FinishAutoCompact(l) PROVE TypeOK' /\ IInv'
  <2>1. /\ Begin("chat", Append(Compacted(l), User(turn)))
        /\ UNCHANGED <<turn, session>>
    <3>1. Trim(Compacted(l)) = Compacted(l)
      BY CompactedIsPlain, Zenon DEF Trim
    <3> QED BY <1>5, <3>1, Zenon DEF FinishAutoCompact
  <2>2. turn' = turn /\ turn' \in 0..Turns
    BY <1>1, <2>1, Zenon DEF Typed
  <2>3. Typed' /\ ShownInv' /\ task' = "chat" /\ msgs' = Append(Compacted(l), User(turn'))
    <3>1. Begin("chat", Append(Compacted(l), User(turn')))
      BY <2>1, <2>2, Zenon
    <3> QED BY <1>1, <2>2, <3>1, BeginKeeps, "chat" \in {"chat", "autocompact", "compact"}, Zenon
  <2>4. Compacted(l) \in Seq(Messages) /\ Plain(Compacted(l)) /\ Paired(Compacted(l))
    BY CompactedIsPlain, Zenon
  <2>5. msgs' \in Seq(Messages) /\ ToolPairing' /\ RequestIsForThisTurn'
    BY <2>2, <2>3, <2>4, InputMakesRequest, Zenon
  <2> QED BY <1>1, <1>2, <2>1, <2>3, <2>5, Zenon DEF IInv, TypeOK, Typed, Flags
<1> QED BY <1>3, <1>4, <1>5, Zenon

\* Every variable keeps its type, and the invariant above holds throughout.
THEOREM Invariance == Spec => [](TypeOK /\ IInv)
<1>1. TypeOK /\ IInv /\ UNCHANGED vars => (TypeOK /\ IInv)'
  <2> SUFFICES ASSUME TypeOK, IInv, UNCHANGED vars PROVE TypeOK' /\ IInv'
    OBVIOUS
  <2>1. UNCHANGED <<stream, pc, task, turn, msgs, rounds, attempt, final, intr, session, emitted>>
    BY Zenon DEF vars
  <2>2. TypeOK'
    BY <2>1, Zenon DEF TypeOK
  <2> QED BY <2>1, <2>2, Zenon DEF IInv, ToolPairing, RequestIsForThisTurn, ShownInv
<1>2. TypeOK /\ IInv /\ Next => (TypeOK /\ IInv)'
  BY ReplKeepsInv, RequestKeepsInv, ResponseKeepsInv, FinishKeepsInv, Zenon DEF Next, Step
<1> QED BY InitInv, <1>1, <1>2, PTL DEF Spec

\* Each request pairs the tool calls in it with their results, in call order.
THEOREM RequestsArePaired == Spec => []ToolPairing
<1>1. IInv => ToolPairing
  BY Zenon DEF IInv
<1> QED BY <1>1, Invariance, PTL

\* Each request is about the user's latest input, whatever was compacted before.
THEOREM RequestsAreCurrent == Spec => []RequestIsForThisTurn
<1>1. IInv => RequestIsForThisTurn
  BY Zenon DEF IInv
<1> QED BY <1>1, Invariance, PTL

\* Of the attempts at one request at most one has shown anything.
THEOREM ShownOnce == Spec => []OutputOnce
<1>1. IInv => OutputOnce
  <2>1. ShownInv => OutputOnce
    BY DEF ShownInv, OutputOnce
  <2> QED BY <2>1, Zenon DEF IInv
<1> QED BY <1>1, Invariance, PTL

-----------------------------------------------------------------------------
\* While a turn lasts, the session ends with its input; the history ends with the
\* input or a tool's result until the answer is there, and then with the answer,
\* which has text exactly if text was streamed.
AnswerInv ==
  /\ task \in {"chat", "autocompact"} => Last(session) = <<"user", turn>>
  /\ task = "chat" /\ final = "none" => Last(msgs).kind \in {"user", "tool"}
  /\ task = "chat" /\ final # "none" =>
       /\ pc = "finish" /\ Last(msgs) = Assistant(0)
       /\ stream => final = IF emitted > 0 THEN "answer" ELSE "empty"

LEMMA LastOfAppend ==
  ASSUME NEW S, NEW s \in Seq(S), NEW m \in S
  PROVE  Last(Append(s, m)) = m
<1>1. /\ Len(Append(s, m)) = Len(s) + 1 /\ Append(s, m)[Len(s) + 1] = m
  BY AppendProperties
<1> QED BY <1>1, Zenon DEF Last

LEMMA AnswerInit == Init => AnswerInv
BY DEF Init, AnswerInv

\* The REPL starts a turn with its input at the end of both.
LEMMA AnswerRepl ==
  TypeOK /\ IInv /\ AnswerInv /\ (ReplInput \/ ReplCompact \/ ReplClear) => AnswerInv'
<1> SUFFICES ASSUME TypeOK, IInv, AnswerInv, ReplInput \/ ReplCompact \/ ReplClear
             PROVE  AnswerInv'
  OBVIOUS
<1>1. Typed /\ msgs \in Seq(Messages) /\ session \in Seq(Entries)
  BY TypeParts, Zenon DEF IInv
<1>2. CASE ReplInput
  <2>1. /\ session' = Append(session, <<"user", turn'>>) /\ final' = "none"
        /\ turn' = turn + 1 /\ turn < Turns
        /\ task' = "autocompact" \/ (task' = "chat" /\ msgs' = Append(msgs, User(turn')))
    BY <1>2, Zenon DEF ReplInput, Begin
  <2>2. turn' \in 0..Turns /\ <<"user", turn'>> \in Entries
    BY <1>1, <2>1, ConstantsAssumption DEF Typed, Entries
  <2>3. User(turn') \in Messages /\ User(turn').kind = "user"
    BY <2>2, Members, Kinds
  <2>4. Last(session') = <<"user", turn'>>
    BY <1>1, <2>1, <2>2, LastOfAppend, Zenon
  <2>5. task' = "chat" => Last(msgs').kind = "user"
    <3>1. "autocompact" # "chat"
      OBVIOUS
    <3>2. Last(Append(msgs, User(turn'))) = User(turn')
      BY <1>1, <2>3, LastOfAppend, Zenon
    <3>3. task' = "chat" => msgs' = Append(msgs, User(turn'))
      BY <2>1, <3>1, Zenon
    <3> QED BY <2>3, <3>2, <3>3, Zenon
  <2> QED BY <2>1, <2>4, <2>5, Zenon DEF AnswerInv
<1>3. CASE ReplCompact \/ ReplClear
  <2>1. task' = "compact" \/ (pc = "idle" /\ task' = task)
    BY <1>3, Zenon DEF ReplCompact, ReplClear, Begin
  <2>2. task' \notin {"chat", "autocompact"}
    BY <1>1, <2>1 DEF Typed
  <2>3. task' # "chat"
    BY <2>2
  <2> QED BY <2>2, <2>3, Zenon DEF AnswerInv
<1> QED BY <1>2, <1>3, Zenon

\* Until a response is taken in there is no answer, and nothing else changes.
LEMMA AnswerRequest ==
  TypeOK /\ IInv /\ AnswerInv
    /\ (RoundHead \/ Poll \/ Discard
          \/ \E o \in Outputs : Succeeds(o) \/ \E t \in BOOLEAN : Fails(t, o))
    => AnswerInv'
<1> SUFFICES ASSUME TypeOK, IInv, AnswerInv,
                    RoundHead \/ Poll \/ Discard
                      \/ \E o \in Outputs : Succeeds(o) \/ \E t \in BOOLEAN : Fails(t, o)
             PROVE  AnswerInv'
  OBVIOUS
<1>1. UNCHANGED <<stream, task, turn, session, msgs, final>>
  BY Zenon DEF RoundHead, Poll, Discard, Succeeds, Fails, Jump
<1>2. pc \in {"round", "attempt", "flight", "got"}
  BY DEF RoundHead, Poll, Discard, Succeeds, Fails
<1>3. pc # "finish"
  BY <1>2
<1>4. task = "chat" => final = "none"
  BY <1>3, Zenon DEF AnswerInv
<1> QED BY <1>1, <1>4, Zenon DEF AnswerInv

\* Tool results are not an answer, and the answer is the text that was streamed.
LEMMA AnswerResponse ==
  TypeOK /\ IInv /\ AnswerInv
    /\ ((\E c \in 1..MaxCalls : UseTools(c)) \/ \E f \in Finals : Answer(f))
    => AnswerInv'
<1> SUFFICES ASSUME TypeOK, IInv, AnswerInv,
                    (\E c \in 1..MaxCalls : UseTools(c)) \/ \E f \in Finals : Answer(f)
             PROVE  AnswerInv'
  OBVIOUS
<1>1. msgs \in Seq(Messages) /\ Paired(msgs)
  BY Zenon DEF IInv, ToolPairing, Paired
<1>2. UNCHANGED <<stream, task, turn, session, emitted>> /\ pc = "got"
  BY Zenon DEF UseTools, Answer, Jump, loop
<1>3. task = "chat" => final = "none"
  <2>1. pc # "finish"
    BY <1>2
  <2> QED BY <2>1, Zenon DEF AnswerInv
<1>4. ASSUME NEW c \in 1..MaxCalls, UseTools(c) PROVE AnswerInv'
  <2>1. c \in Nat /\ c \in 1..c /\ Len(msgs) \in Nat
    BY <1>1, ConstantsAssumption, LenProperties
  <2>2. msgs' = msgs \o <<Assistant(c)>> \o [k \in 1..c |-> ToolResult(k)] /\ final' = final
    BY <1>4, Zenon DEF UseTools
  <2>3. /\ Len(msgs') = Len(msgs) + 1 + c
        /\ \A k \in 1..c : msgs'[Len(msgs) + 1 + k] = ToolResult(k)
    BY <1>1, <2>1, <2>2, ToolsKeepPaired, Zenon
  <2>4. Last(msgs') = ToolResult(c)
    BY <2>1, <2>3, Zenon DEF Last
  <2>5. Last(msgs').kind = "tool"
    BY <2>4, Kinds, Zenon
  <2>6. Last(msgs').kind \in {"user", "tool"}
    BY <2>5
  <2> QED BY <1>2, <1>3, <2>2, <2>6, Zenon DEF AnswerInv
<1>5. ASSUME NEW f \in Finals, Answer(f) PROVE AnswerInv'
  <2>1. /\ msgs' = Append(msgs, Assistant(0)) /\ final' = f /\ pc' = "finish"
        /\ Streaming => (f = "answer" <=> emitted > 0)
    BY <1>5, Zenon DEF Answer, Jump
  <2>2. Last(msgs') = Assistant(0)
    <3>1. Assistant(0) \in Messages
      BY Members
    <3> QED BY <1>1, <2>1, <3>1, LastOfAppend, Zenon
  <2>3. f # "none" /\ (f = "answer" \/ f = "empty") /\ "answer" # "empty"
    BY DEF Finals
  <2>4. Streaming => f = IF emitted > 0 THEN "answer" ELSE "empty"
    BY <2>1, <2>3, Zenon
  <2> QED BY <1>2, <2>1, <2>2, <2>3, <2>4, Zenon DEF AnswerInv, Streaming
<1> QED BY <1>4, <1>5, Zenon

\* A turn starts behind its compaction as it does without one.
LEMMA AnswerFinish ==
  TypeOK /\ IInv /\ AnswerInv
    /\ (FinishTurn \/ \E l \in BOOLEAN : FinishCompact(l) \/ FinishAutoCompact(l))
    => AnswerInv'
<1> SUFFICES ASSUME TypeOK, IInv, AnswerInv,
                    FinishTurn \/ \E l \in BOOLEAN : FinishCompact(l) \/ FinishAutoCompact(l)
             PROVE  AnswerInv'
  OBVIOUS
<1>1. "none" # "chat" /\ "none" \notin {"chat", "autocompact"}
      /\ "autocompact" \in {"chat", "autocompact"} /\ "user" \in {"user", "tool"}
  OBVIOUS
<1>2. CASE FinishTurn \/ \E l \in BOOLEAN : FinishCompact(l)
  BY <1>1, <1>2, Zenon DEF AnswerInv, FinishTurn, FinishCompact
<1>3. ASSUME NEW l \in BOOLEAN, FinishAutoCompact(l) PROVE AnswerInv'
  <2>1. /\ task = "autocompact" /\ final' = "none"
        /\ msgs' = Append(Compacted(l), User(turn)) /\ UNCHANGED <<turn, session>>
    <3>1. Trim(Compacted(l)) = Compacted(l)
      BY CompactedIsPlain, Zenon DEF Trim
    <3> QED BY <1>3, <3>1, Zenon DEF FinishAutoCompact, Begin
  <2>2. User(turn) \in Messages /\ User(turn).kind = "user"
    <3>1. turn \in 0..Turns
      BY TypeParts DEF Typed
    <3> QED BY <3>1, Members, Kinds
  <2>3. Last(msgs').kind = "user"
    <3>1. Compacted(l) \in Seq(Messages)
      BY CompactedIsPlain, Zenon
    <3> QED BY <2>1, <2>2, <3>1, LastOfAppend, Zenon
  <2> QED BY <1>1, <2>1, <2>3, Zenon DEF AnswerInv
<1> QED BY <1>2, <1>3, Zenon

LEMMA AnswerStep == TypeOK /\ IInv /\ AnswerInv /\ [Next]_vars => AnswerInv'
<1>1. AnswerInv /\ (UNCHANGED vars \/ Interrupt) => AnswerInv'
  <2>1. UNCHANGED vars \/ Interrupt
          => UNCHANGED <<stream, pc, task, turn, msgs, final, session, emitted>>
    BY Zenon DEF vars, loop, Interrupt
  <2> QED BY <2>1, Zenon DEF AnswerInv
<1> QED BY <1>1, AnswerRepl, AnswerRequest, AnswerResponse, AnswerFinish, Zenon DEF Next, Step

\* At the end of a streamed turn the history and the session both have the answer,
\* with text exactly if some was shown, or neither has, and the session says that
\* the turn failed, or nothing if it was interrupted.
THEOREM StreamedAnswers == Spec => ShownAnswerIsKept
<1> DEFINE Kept == stream /\ task = "chat" /\ task' = "none" =>
             IF Last(msgs') = Assistant(0)
             THEN Last(session') = <<IF emitted > 0 THEN "answer" ELSE "empty", turn>>
             ELSE Last(session') = <<IF intr THEN "user" ELSE "error", turn>>
<1>1. TypeOK /\ IInv /\ AnswerInv /\ [Next]_vars => [Kept]_vars
  <2> SUFFICES ASSUME TypeOK, IInv, AnswerInv, Next, stream, task = "chat", task' = "none"
               PROVE  IF Last(msgs') = Assistant(0)
                      THEN Last(session') = <<IF emitted > 0 THEN "answer" ELSE "empty", turn>>
                      ELSE Last(session') = <<IF intr THEN "user" ELSE "error", turn>>
    BY Zenon
  <2>1. Typed /\ session \in Seq(Entries)
    BY TypeParts, Zenon DEF IInv
  <2>2. FinishTurn
    <3>1. "chat" # "none" /\ "autocompact" # "none" /\ "compact" # "none"
          /\ "chat" # "compact" /\ "chat" # "autocompact"
      OBVIOUS
    <3>2. ~ReplInput /\ ~ReplCompact
      BY <3>1, Zenon DEF ReplInput, ReplCompact, Begin
    <3>3. ~ReplClear /\ ~Interrupt
      BY <3>1, Zenon DEF ReplClear, Interrupt
    <3>4. Step
      BY <3>2, <3>3, Zenon DEF Next
    <3> QED BY <3>1, <3>4, Zenon DEF Step, RoundHead, Poll, Discard, Succeeds, Fails,
               UseTools, Answer, FinishCompact, FinishAutoCompact, Jump
  <2>3. /\ session' = IF Returned = "NULL" THEN session ELSE Append(session, <<Returned, turn>>)
        /\ msgs' = msgs
    BY <2>2, Zenon DEF FinishTurn
  <2>4. Returned = IF final = "none" THEN (IF intr THEN "NULL" ELSE "error") ELSE final
    BY Zenon DEF Returned, Streaming
  <2>5. final \in {"answer", "empty", "none"} /\ turn \in 0..Turns
    BY <2>1 DEF Typed, Finals
  <2>6. ASSUME Returned # "NULL", Returned \in {"error", "answer", "empty"}
        PROVE  Last(session') = <<Returned, turn>>
    <3>1. <<Returned, turn>> \in Entries
      BY <2>5, <2>6 DEF Entries
    <3> QED BY <2>1, <2>3, <2>6, <3>1, LastOfAppend, Zenon
  <2>7. CASE final # "none"
    <3>1. /\ Last(msgs') = Assistant(0)
          /\ Returned = IF emitted > 0 THEN "answer" ELSE "empty"
      BY <2>3, <2>4, <2>7, Zenon DEF AnswerInv
    <3>2. Returned # "NULL" /\ Returned \in {"error", "answer", "empty"}
      BY <3>1
    <3> QED BY <2>6, <3>1, <3>2, Zenon
  <2>8. CASE final = "none"
    <3>1. Last(msgs') # Assistant(0)
      <4>1. Last(msgs).kind \in {"user", "tool"}
        BY <2>8, Zenon DEF AnswerInv
      <4>2. Last(msgs).kind # "assistant"
        BY <4>1
      <4> QED BY <2>3, <4>2, Kinds, Zenon
    <3>2. CASE intr
      <4>1. session' = session
        BY <2>3, <2>4, <2>8, <3>2, Zenon
      <4>2. Last(session) = <<"user", turn>>
        <5>1. task \in {"chat", "autocompact"}
          OBVIOUS
        <5> QED BY <5>1, Zenon DEF AnswerInv
      <4> QED BY <3>1, <3>2, <4>1, <4>2, Zenon
    <3>3. CASE ~intr
      <4>1. Returned = "error"
        BY <2>4, <2>8, <3>3, Zenon
      <4>2. Returned # "NULL" /\ Returned \in {"error", "answer", "empty"}
        BY <4>1
      <4> QED BY <2>6, <3>1, <3>3, <4>1, <4>2, Zenon
    <3> QED BY <3>2, <3>3, Zenon
  <2> QED BY <2>7, <2>8, Zenon
<1>2. Spec => []AnswerInv
  BY AnswerInit, AnswerStep, Invariance, PTL DEF Spec
<1>3. Spec => [][Kept]_vars
  BY <1>1, <1>2, Invariance, PTL DEF Spec
<1> QED BY <1>3, Zenon DEF ShownAnswerIsKept
=============================================================================
