----------------------------- MODULE Stream_proofs -----------------------------
(***************************************************************************)
(* Proofs about Stream for any answers, framings, chunk sizes and table     *)
(* sizes: that a message accepted from a whole response is the whole         *)
(* answer, and that one accepted from a broken response is a beginning of it.*)
(*                                                                           *)
(* What was sent and not yet read leads from the place of the client in the  *)
(* response to the place of the service (Aligned), until the connection      *)
(* breaks under the client (Lost) or it has read all it will read (Done);    *)
(* what it got is always the first k pieces of the body (Received), and the  *)
(* parser is where those pieces take it (ParserAt).                          *)
(***************************************************************************)
EXTENDS Stream, SequenceTheorems, WellFoundedInduction, TLAPS

-----------------------------------------------------------------------------
(* Induction and folds                                                          *)

LEMMA LeastOf ==
  ASSUME NEW T, T \subseteq Nat, T # {}
  PROVE  \E n \in T : \A m \in T : n <= m
<1>1. PICK n \in T : \A y \in T : <<y, n>> \notin OpToRel(<, Nat)
  <2> DEFINE R == OpToRel(<, Nat)
  <2>1. IsWellFoundedOn(R, Nat)
    BY NatLessThanWellFounded
  <2> HIDE DEF R
  <2>2. \E n \in T : \A y \in T : <<y, n>> \notin R
    BY <2>1, WFMin
  <2> QED BY <2>2 DEF R
<1>2. n \in Nat /\ \A m \in T : m \in Nat /\ ~ (m < n)
  BY <1>1 DEF OpToRel
<1>3. \A m \in T : n <= m
  BY <1>2
<1> QED BY <1>3

LEMMA SetInduction ==
  ASSUME NEW S, 0 \in S, \A n \in Nat : n \in S => n + 1 \in S
  PROVE  Nat \subseteq S
<1> SUFFICES ASSUME Nat \ S # {} PROVE FALSE
  OBVIOUS
<1>1. PICK n \in Nat \ S : \A m \in Nat \ S : n <= m
  BY LeastOf
<1>2. n - 1 \in Nat \ S
  BY <1>1
<1> QED BY <1>1, <1>2

\* Induction up to n.
LEMMA UpTo ==
  ASSUME NEW n \in Nat, NEW S, 0 \in S, \A k \in 1 .. n : k - 1 \in S => k \in S
  PROVE  \A k \in 0 .. n : k \in S
<1> DEFINE R == {k \in Nat : k <= n => k \in S}
<1>1. 0 \in R /\ \A k \in Nat : k \in R => k + 1 \in R
  <2>1. ASSUME NEW k \in Nat, k \in R, k + 1 <= n PROVE k + 1 \in S
    <3>1. k + 1 \in 1 .. n /\ (k + 1) - 1 = k /\ k <= n
      BY <2>1
    <3> QED BY <2>1, <3>1
  <2> QED BY <2>1
<1>2. Nat \subseteq R
  <2> HIDE DEF R
  <2> QED BY <1>1, SetInduction
<1> QED BY <1>2

LEMMA MaxOf ==
  ASSUME NEW n \in Nat, NEW s, s \subseteq 1 .. n, n \in s
  PROVE  Max(s) = n
<1>1. n \in s /\ \A y \in s : n >= y
  OBVIOUS
<1>2. \A x \in s : (\A y \in s : x >= y) => x = n
  OBVIOUS
<1> QED BY <1>1, <1>2 DEF Max

\* What a fold does with the next element: the parser with a piece, the merger
\* with an event, the reader of a body with a piece.
Apply(op, s, x) ==
  CASE op = "feed" -> sse_parser_feed(s, x)
    [] op = "merge" -> Receive(s, req.provider, x, MaxCalls)
    [] op = "read" -> ReadEvent(s, req.provider, x, MaxCalls)
    [] OTHER -> IF x.kind = "half" /\ x.half = 2 THEN Append(s, EventsOf[req][x.event]) ELSE s

Folds(f, op, base, seq, n) ==
  f = [s \in SUBSET (1 .. n) |-> IF s = {} THEN base ELSE Apply(op, f[s \ {Max(s)}], seq[Max(s)])]

\* Folds and recursive functions over a sequence exist, and do what they say.
LEMMA FoldExists ==
  ASSUME NEW op, NEW base, NEW seq
  PROVE  \A n \in Nat : \E f : Folds(f, op, base, seq, n)
<1> DEFINE S == {n \in Nat : \E f : Folds(f, op, base, seq, n)}
<1>1. 0 \in S
  <2> DEFINE f == [s \in SUBSET (1 .. 0) |-> base]
  <2>1. \A s \in SUBSET (1 .. 0) : s = {}
    OBVIOUS
  <2>2. f = [s \in SUBSET (1 .. 0) |-> IF s = {} THEN base ELSE Apply(op, f[s \ {Max(s)}], seq[Max(s)])]
    BY <2>1
  <2> HIDE DEF f
  <2> QED BY <2>2 DEF Folds
<1>2. ASSUME NEW n \in Nat, n \in S PROVE n + 1 \in S
  <2>1. PICK f : f = [s \in SUBSET (1 .. n) |-> IF s = {} THEN base ELSE Apply(op, f[s \ {Max(s)}], seq[Max(s)])]
    BY <1>2 DEF Folds
  <2>2. \A s \in SUBSET (1 .. n) : f[s] = IF s = {} THEN base ELSE Apply(op, f[s \ {Max(s)}], seq[Max(s)])
    BY <2>1, Zenon
  <2> DEFINE g == [s \in SUBSET (1 .. n + 1) |->
                     IF n + 1 \in s THEN Apply(op, f[s \ {n + 1}], seq[n + 1]) ELSE f[s]]
             h == [s \in SUBSET (1 .. n + 1) |->
                     IF s = {} THEN base ELSE Apply(op, g[s \ {Max(s)}], seq[Max(s)])]
  <2>3. \A s \in SUBSET (1 .. n + 1) : s \ {n + 1} \in SUBSET (1 .. n)
    OBVIOUS
  <2>4. \A s \in SUBSET (1 .. n + 1) : n + 1 \notin s => s \in SUBSET (1 .. n)
    OBVIOUS
  <2>5. ASSUME NEW s \in SUBSET (1 .. n + 1)
        PROVE g[s] = IF s = {} THEN base ELSE Apply(op, g[s \ {Max(s)}], seq[Max(s)])
    <3>1. CASE n + 1 \in s
      <4>1. Max(s) = n + 1
        <5>1. n + 1 \in Nat /\ s \subseteq 1 .. n + 1
          OBVIOUS
        <5> HIDE DEF g
        <5> QED BY <3>1, <5>1, MaxOf
      <4>2. s \ {n + 1} \in SUBSET (1 .. n + 1) /\ n + 1 \notin s \ {n + 1}
        OBVIOUS
      <4>3. g[s \ {n + 1}] = f[s \ {n + 1}]
        BY <4>2, Zenon
      <4>4. g[s] = Apply(op, f[s \ {n + 1}], seq[n + 1])
        BY <3>1, Zenon
      <4> HIDE DEF g
      <4> QED BY <3>1, <4>1, <4>3, <4>4
    <3>2. CASE n + 1 \notin s
      <4>1. s \in SUBSET (1 .. n)
        BY <3>2, <2>4
      <4>2. g[s] = f[s]
        BY <3>2, Zenon
      <4>3. CASE s = {}
        <5> HIDE DEF g
        <5> QED BY <4>1, <4>2, <4>3, <2>2
      <4>4. CASE s # {}
        <5>1. s \ {Max(s)} \in SUBSET (1 .. n + 1) /\ n + 1 \notin s \ {Max(s)}
          BY <3>2
        <5>2. g[s \ {Max(s)}] = f[s \ {Max(s)}]
          BY <5>1, Zenon
        <5> HIDE DEF g
        <5> QED BY <2>2, <4>1, <4>2, <4>4, <5>2
      <4> QED BY <4>3, <4>4
    <3> QED BY <3>1, <3>2
  <2>6. g = h
    <3>1. \A s \in SUBSET (1 .. n + 1) : g[s] = h[s]
      <4> HIDE DEF g
      <4> QED BY <2>5
    <3> QED BY <3>1, Zenon
  <2>7. Folds(g, op, base, seq, n + 1)
    <3> HIDE DEF g
    <3> QED BY <2>6 DEF Folds
  <2> QED BY <2>7
<1>3. Nat \subseteq S
  <2> HIDE DEF S
  <2> QED BY <1>1, <1>2, SetInduction
<1> QED BY <1>3

\* The steps of a fold, first to last.
Runs(h, op, base, seq, n) ==
  h[0] = base /\ \A j \in 1 .. n : h[j] = Apply(op, h[j - 1], seq[j])

LEMMA FoldRuns ==
  ASSUME NEW op, NEW base, NEW n \in Nat, NEW seq, NEW g, Folds(g, op, base, seq, n)
  PROVE  \E h : Runs(h, op, base, seq, n) /\ h[n] = g[1 .. n]
<1> DEFINE h == [j \in 0 .. n |-> g[1 .. j]]
<1>1. \A s \in SUBSET (1 .. n) : g[s] = IF s = {} THEN base ELSE Apply(op, g[s \ {Max(s)}], seq[Max(s)])
  BY Zenon DEF Folds
<1>2. h[0] = base
  <2>1. 1 .. 0 = {} /\ 1 .. 0 \in SUBSET (1 .. n)
    OBVIOUS
  <2>2. g[1 .. 0] = base
    BY <1>1, <2>1
  <2>3. h[0] = g[1 .. 0]
    OBVIOUS
  <2> HIDE DEF h
  <2> QED BY <2>2, <2>3
<1>3. ASSUME NEW j \in 1 .. n PROVE h[j] = Apply(op, h[j - 1], seq[j])
  <2>1. Max(1 .. j) = j
    <3>1. j \in Nat /\ 1 .. j \subseteq 1 .. j /\ j \in 1 .. j
      OBVIOUS
    <3> QED BY <3>1, MaxOf
  <2>2. 1 .. j \in SUBSET (1 .. n) /\ 1 .. j # {} /\ (1 .. j) \ {j} = 1 .. (j - 1)
    OBVIOUS
  <2>3. g[1 .. j] = Apply(op, g[1 .. (j - 1)], seq[j])
    BY <1>1, <2>1, <2>2
  <2>4. h[j] = g[1 .. j] /\ h[j - 1] = g[1 .. (j - 1)]
    OBVIOUS
  <2> HIDE DEF h
  <2> QED BY <2>3, <2>4
<1>4. h[n] = g[1 .. n]
  OBVIOUS
<1> HIDE DEF h
<1> QED BY <1>2, <1>3, <1>4 DEF Runs

\* The parser takes the pieces of a delivery one by one.
LEMMA FeedRuns ==
  ASSUME NEW S, NEW seq \in Seq(S), NEW s0
  PROVE  \E h : Runs(h, "feed", s0, seq, Len(seq)) /\ FoldLeft(sse_parser_feed, s0, seq) = h[Len(seq)]
<1> DEFINE n == Len(seq)
           D == SUBSET (1 .. n)
           G(g) == g = [s \in D |-> IF s = {} THEN s0 ELSE sse_parser_feed(g[s \ {Max(s)}], seq[Max(s)])]
           g0 == CHOOSE g : G(g)
<1>1. n \in Nat /\ DOMAIN seq = 1 .. n
  OBVIOUS
<1>2. FoldLeft(sse_parser_feed, s0, seq) = g0[1 .. n]
  BY <1>1 DEF FoldLeft, MapThenFoldSet
<1>3. \A f : Folds(f, "feed", s0, seq, n) <=> G(f)
  BY DEF Folds, Apply
<1>4. \E f : G(f)
  BY <1>1, <1>3, FoldExists
<1>5. G(g0)
  <2> HIDE DEF G
  <2> QED BY <1>4
<1>6. Folds(g0, "feed", s0, seq, n)
  <2> HIDE DEF G, g0
  <2> QED BY <1>3, <1>5
<1> HIDE DEF g0, G, n
<1>7. PICK h : Runs(h, "feed", s0, seq, n) /\ h[n] = g0[1 .. n]
  BY <1>1, <1>6, FoldRuns
<1> QED BY <1>2, <1>7 DEF n

LEMMA RunExists ==
  ASSUME NEW op, NEW base, NEW seq, NEW n \in Nat
  PROVE  \E h : Runs(h, op, base, seq, n)
BY FoldExists, FoldRuns

\* The same as a recursive function.
Chain(f, op, base, seq, n) ==
  f = [i \in 0 .. n |-> IF i = 0 THEN base ELSE Apply(op, f[i - 1], seq[i])]

LEMMA ChainExists ==
  ASSUME NEW op, NEW base, NEW seq, NEW n \in Nat
  PROVE  \E f : Chain(f, op, base, seq, n)
<1>1. PICK h : Runs(h, op, base, seq, n)
  BY RunExists
<1> DEFINE f == [i \in 0 .. n |-> h[i]]
           g == [i \in 0 .. n |-> IF i = 0 THEN base ELSE Apply(op, f[i - 1], seq[i])]
<1>2. ASSUME NEW i \in 0 .. n PROVE f[i] = IF i = 0 THEN base ELSE Apply(op, f[i - 1], seq[i])
  <2>1. CASE i = 0
    BY <1>1, <2>1 DEF Runs
  <2>2. CASE i # 0
    <3>1. i \in 1 .. n /\ i - 1 \in 0 .. n
      BY <2>2
    <3>2. h[i] = Apply(op, h[i - 1], seq[i])
      BY <1>1, <3>1 DEF Runs
    <3>3. f[i] = h[i] /\ f[i - 1] = h[i - 1]
      BY <3>1
    <3> HIDE DEF f
    <3> QED BY <2>2, <3>2, <3>3
  <2> QED BY <2>1, <2>2
<1>3. f = g
  BY <1>2
<1> HIDE DEF f
<1>4. Chain(f, op, base, seq, n)
  BY <1>3 DEF Chain
<1> QED BY <1>4

LEMMA ChainRuns ==
  ASSUME NEW op, NEW base, NEW seq, NEW n \in Nat, NEW f, Chain(f, op, base, seq, n)
  PROVE  Runs(f, op, base, seq, n)
<1>1. \A i \in 0 .. n : f[i] = IF i = 0 THEN base ELSE Apply(op, f[i - 1], seq[i])
  BY Zenon DEF Chain
<1> QED BY <1>1 DEF Runs

\* The body of a request that does not stream is read piece by piece.
LEMMA ParseRuns ==
  ASSUME NEW S, body \in Seq(S)
  PROVE  \E h : Runs(h, "parse", <<>>, body, Len(body)) /\ Parsed = h[Len(body)]
<1> DEFINE n == Len(body)
           G(f) == f = [i \in 0 .. n |->
                          IF i = 0 THEN <<>>
                          ELSE IF body[i].kind = "half" /\ body[i].half = 2
                            THEN Append(f[i - 1], EventsOf[req][body[i].event])
                          ELSE f[i - 1]]
           f0 == CHOOSE f : G(f)
<1>1. n \in Nat
  BY LenProperties
<1>2. Parsed = f0[n]
  BY Zenon DEF Parsed
<1>3. \A f : Chain(f, "parse", <<>>, body, n) <=> G(f)
  BY DEF Chain, Apply
<1>4. \E f : G(f)
  BY <1>1, <1>3, ChainExists
<1>5. G(f0)
  <2> HIDE DEF G
  <2> QED BY <1>4
<1>6. Chain(f0, "parse", <<>>, body, n)
  <2> HIDE DEF G, f0
  <2> QED BY <1>3, <1>5
<1> HIDE DEF f0, G
<1>8. Runs(f0, "parse", <<>>, body, n)
  BY <1>1, <1>6, ChainRuns
<1> QED BY <1>2, <1>8

-----------------------------------------------------------------------------
(* What the service sends                                                      *)

Usage == [prompt : Nat, completion : Nat]
CallPart == [id : STRING \cup {""}, name : STRING \cup {""}, args : Seq(STRING)]
Piece == [index : Int, call : CallPart]
Types == {"chunk", "[DONE]", "message_start", "message_delta", "message_stop",
          "content_block_start", "content_block_delta", "content_block_stop"}
BlockTypes == {"text", "thinking", "tool_use", "calls", "none"}
EventRecord == [type : Types, index : Int, btype : BlockTypes, text : Seq(STRING),
                calls : Seq(Piece), usage : Usage]

Flattening(f, seqs, n) == f = [i \in 1 .. n |-> IF i = 1 THEN seqs[i] ELSE f[i - 1] \o seqs[i]]

LEMMA FlatteningExists ==
  ASSUME NEW seqs
  PROVE  \A n \in Nat : \E f : Flattening(f, seqs, n)
<1> DEFINE S == {n \in Nat : \E f : Flattening(f, seqs, n)}
<1>1. 0 \in S
  <2> DEFINE f == [i \in 1 .. 0 |-> <<>>]
  <2>1. f = [i \in 1 .. 0 |-> IF i = 1 THEN seqs[i] ELSE f[i - 1] \o seqs[i]]
    OBVIOUS
  <2> HIDE DEF f
  <2> QED BY <2>1 DEF Flattening
<1>2. ASSUME NEW n \in Nat, n \in S PROVE n + 1 \in S
  <2>1. PICK f : f = [i \in 1 .. n |-> IF i = 1 THEN seqs[i] ELSE f[i - 1] \o seqs[i]]
    BY <1>2 DEF Flattening
  <2> DEFINE g == [i \in 1 .. n + 1 |-> IF i <= n THEN f[i] ELSE IF i = 1 THEN seqs[i] ELSE f[n] \o seqs[n + 1]]
             h == [i \in 1 .. n + 1 |-> IF i = 1 THEN seqs[i] ELSE g[i - 1] \o seqs[i]]
  <2>2. ASSUME NEW i \in 1 .. n + 1
        PROVE  g[i] = IF i = 1 THEN seqs[i] ELSE g[i - 1] \o seqs[i]
    <3>1. \A k \in 1 .. n : f[k] = IF k = 1 THEN seqs[k] ELSE f[k - 1] \o seqs[k]
      BY <2>1, Zenon
    <3>2. CASE i = 1 /\ i <= n
      <4>1. g[i] = f[i] /\ i \in 1 .. n
        BY <3>2
      <4> HIDE DEF g
      <4> QED BY <3>1, <3>2, <4>1
    <3>3. CASE i \in 2 .. n
      <4>1. g[i] = f[i] /\ g[i - 1] = f[i - 1] /\ i \in 1 .. n /\ i # 1
        BY <3>3
      <4> HIDE DEF g
      <4> QED BY <3>1, <4>1
    <3>4. CASE i = n + 1 /\ i # 1
      <4>1. n \in 1 .. n + 1 /\ n <= n /\ ~(n + 1 <= n) /\ n + 1 # 1 /\ (n + 1) - 1 = n
        BY <3>4
      <4>2. n + 1 \in 1 .. n + 1
        OBVIOUS
      <4>3. g[n + 1] = f[n] \o seqs[n + 1]
        BY <4>1, <4>2, Zenon
      <4>4. g[n] = f[n]
        BY <4>1, Zenon
      <4> HIDE DEF g
      <4> QED BY <3>4, <4>1, <4>3, <4>4
    <3>5. CASE i = n + 1 /\ i = 1
      BY <3>5
    <3> QED BY <3>2, <3>3, <3>4, <3>5
  <2>3. g = h
    BY <2>2
  <2> HIDE DEF g
  <2>4. Flattening(g, seqs, n + 1)
    BY <2>3 DEF Flattening
  <2> QED BY <2>4
<1>3. Nat \subseteq S
  <2> HIDE DEF S
  <2> QED BY <1>1, <1>2, SetInduction
<1> QED BY <1>3

\* Sequences put one behind the other, step by step.
LEMMA FlattenSteps ==
  ASSUME NEW S, NEW seqs \in Seq(Seq(S))
  PROVE  /\ Len(seqs) \in Nat /\ \A i \in 1 .. Len(seqs) : seqs[i] \in Seq(S)
         /\ Len(seqs) = 0 => FlattenSeq(seqs) = <<>>
         /\ Len(seqs) # 0 => \E f : /\ FlattenSeq(seqs) = f[Len(seqs)]
                                     /\ \A i \in 1 .. Len(seqs) :
                                          f[i] = IF i = 1 THEN seqs[i] ELSE f[i - 1] \o seqs[i]
<1> DEFINE n == Len(seqs)
           G(f) == f = [i \in 1 .. n |-> IF i = 1 THEN seqs[i] ELSE f[i - 1] \o seqs[i]]
           f0 == CHOOSE f : G(f)
<1>1. n \in Nat /\ \A i \in 1 .. n : seqs[i] \in Seq(S)
  OBVIOUS
<1>2. ASSUME n = 0 PROVE FlattenSeq(seqs) = <<>>
  <2>1. seqs = <<>>
    BY <1>2
  <2> QED BY <1>2, <2>1 DEF FlattenSeq
<1>3. ASSUME n # 0
      PROVE  \E f : /\ FlattenSeq(seqs) = f[n]
                    /\ \A i \in 1 .. n : f[i] = IF i = 1 THEN seqs[i] ELSE f[i - 1] \o seqs[i]
  <2>1. FlattenSeq(seqs) = f0[n]
    BY <1>3 DEF FlattenSeq
  <2>2. \E f : G(f)
    BY <1>1, FlatteningExists DEF Flattening
  <2>3. G(f0)
    <3> HIDE DEF G
    <3> QED BY <2>2
  <2>4. \A i \in 1 .. n : f0[i] = IF i = 1 THEN seqs[i] ELSE f0[i - 1] \o seqs[i]
    <3> HIDE DEF f0
    <3> QED BY <2>3, Zenon
  <2> HIDE DEF f0, G
  <2> QED BY <2>1, <2>4
<1> QED BY <1>1, <1>2, <1>3

LEMMA FlatSeq ==
  ASSUME NEW S, NEW seqs \in Seq(Seq(S))
  PROVE  FlattenSeq(seqs) \in Seq(S)
<1> DEFINE n == Len(seqs)
<1>1. n \in Nat /\ \A i \in 1 .. n : seqs[i] \in Seq(S)
  BY FlattenSteps
<1>2. CASE n = 0
  BY <1>2, FlattenSteps, EmptySeq
<1>3. CASE n # 0
  <2>1. PICK f : /\ FlattenSeq(seqs) = f[n]
                 /\ \A i \in 1 .. n : f[i] = IF i = 1 THEN seqs[i] ELSE f[i - 1] \o seqs[i]
    BY <1>3, FlattenSteps
  <2> HIDE DEF n
  <2> DEFINE T == {i \in 0 .. n : i = 0 \/ f[i] \in Seq(S)}
  <2>5. 0 \in T
    BY <1>1
  <2>6. \A k \in 1 .. n : k - 1 \in T => k \in T
    <3> SUFFICES ASSUME NEW k \in 1 .. n, k - 1 \in T PROVE f[k] \in Seq(S)
      BY <1>1
    <3>1. CASE k = 1
      BY <1>1, <2>1, <3>1
    <3>2. CASE k # 1
      <4>1. f[k - 1] \in Seq(S)
        BY <3>2, <1>1
      <4>2. f[k] = f[k - 1] \o seqs[k] /\ seqs[k] \in Seq(S)
        BY <1>1, <2>1, <3>2
      <4> QED BY <4>1, <4>2
    <3> QED BY <3>1, <3>2
  <2>7. n \in T
    <3> HIDE DEF T
    <3>1. \A k \in 0 .. n : k \in T
      BY <1>1, <2>5, <2>6, UpTo
    <3> QED BY <1>1, <3>1
  <2> QED BY <1>3, <2>1, <2>7
<1> QED BY <1>2, <1>3

LEMMA EachSeq ==
  ASSUME NEW text \in Seq(STRING), NEW type \in Types, NEW index \in Int, NEW btype \in BlockTypes
  PROVE  Each(text, type, index, btype) \in Seq(EventRecord)
<1>1. DOMAIN text = 1 .. Len(text) /\ Len(text) \in Nat
  OBVIOUS
<1>2. NoUsage \in Usage /\ <<>> \in Seq(Piece)
  BY DEF NoUsage, Usage
<1>3. \A i \in 1 .. Len(text) : <<text[i]>> \in Seq(STRING)
  OBVIOUS
<1>4. ASSUME NEW i \in 1 .. Len(text)
      PROVE  Event(type, index, btype, <<text[i]>>, <<>>, NoUsage) \in EventRecord
  <2>1. <<text[i]>> \in Seq(STRING)
    BY <1>3
  <2> DEFINE x == <<text[i]>>
  <2> HIDE DEF x
  <2>2. x \in Seq(STRING) => Event(type, index, btype, x, <<>>, NoUsage) \in EventRecord
    BY <1>2 DEF Event, EventRecord
  <2> QED BY <2>1, <2>2 DEF x
<1>5. Each(text, type, index, btype) = [i \in 1 .. Len(text) |-> Event(type, index, btype, <<text[i]>>, <<>>, NoUsage)]
  BY <1>1, Zenon DEF Each
<1>6. [i \in 1 .. Len(text) |-> Event(type, index, btype, <<text[i]>>, <<>>, NoUsage)] \in [1 .. Len(text) -> EventRecord]
  BY <1>4
<1>7. Each(text, type, index, btype) \in [1 .. Len(text) -> EventRecord]
  BY <1>5, <1>6
<1> DEFINE f == Each(text, type, index, btype)
           n == Len(text)
<1> HIDE DEF f, n
<1>8. n \in Nat /\ f \in [1 .. n -> EventRecord]
  BY <1>1, <1>7 DEF f, n
<1>9. f \in Seq(EventRecord)
  BY <1>8
<1> QED BY <1>9 DEF f

LEMMA EventInSet ==
  ASSUME NEW type \in Types, NEW index \in Int, NEW btype \in BlockTypes, NEW text \in Seq(STRING),
         NEW calls \in Seq(Piece), NEW usage \in Usage
  PROVE  Event(type, index, btype, text, calls, usage) \in EventRecord
BY DEF Event, EventRecord

LEMMA SomeUsage == NoUsage \in Usage /\ <<>> \in Seq(Piece) /\ <<>> \in Seq(STRING)
BY DEF NoUsage, Usage

LEMMA Words ==
  /\ "chunk" \in Types /\ "[DONE]" \in Types /\ "message_start" \in Types /\ "message_delta" \in Types
  /\ "message_stop" \in Types /\ "content_block_start" \in Types /\ "content_block_delta" \in Types
  /\ "content_block_stop" \in Types /\ -1 \in Int /\ 0 \in Int /\ 1 \in Int
  /\ "text" \in BlockTypes /\ "thinking" \in BlockTypes /\ "tool_use" \in BlockTypes
  /\ "calls" \in BlockTypes /\ "none" \in BlockTypes
BY DEF Types, BlockTypes

LEMMA OneSeq ==
  ASSUME NEW S, NEW x \in S
  PROVE  <<x>> \in Seq(S)
OBVIOUS

LEMMA TwoSeq ==
  ASSUME NEW S, NEW x \in S, NEW y \in S
  PROVE  <<x, y>> \in Seq(S)
OBVIOUS

LEMMA TwoConcat ==
  ASSUME NEW S, NEW x \in S, NEW y \in S
  PROVE  <<x>> \o <<y>> = <<x, y>>
<1> DEFINE u == <<x>>
           v == <<y>>
           z == u \o v
<1>1. u \in Seq(S) /\ v \in Seq(S) /\ Len(u) = 1 /\ Len(v) = 1 /\ u[1] = x /\ v[1] = y
  OBVIOUS
<1> HIDE DEF u, v
<1>2. z \in Seq(S) /\ Len(z) = 2 /\ z[1] = x /\ z[2] = y
  BY <1>1, ConcatProperties
<1> HIDE DEF z
<1>3. z = <<z[1], z[2]>>
  BY <1>2
<1>4. z = <<x, y>>
  BY <1>2, <1>3
<1> QED BY <1>4, Zenon DEF z, u, v

LEMMA FunSeq ==
  ASSUME NEW S, NEW n \in Nat, NEW f, f \in [1 .. n -> S]
  PROVE  f \in Seq(S) /\ Len(f) = n /\ DOMAIN f = 1 .. n
OBVIOUS

\* A call of an answer.
LEMMA CallParts ==
  ASSUME NEW call \in Calling
  PROVE  /\ call.id \in STRING /\ call.id # "" /\ call.name \in STRING /\ call.args \in Seq(STRING)
         /\ Len(call.args) \in Nat /\ DOMAIN call.args = 1 .. Len(call.args)
         /\ \A j \in 1 .. Len(call.args) - 1 : ~(call.args[j] = "}" /\ call.args[j + 1] = "{")
         /\ call = ToolCall(call.id, call.name, call.args)
<1>1. call \in [id : STRING \ {""}, name : STRING, args : Seq(STRING)] /\ Seamless(call.args)
  BY Zenon DEF Calling
<1>2. call \in [id : STRING \ {""}, name : STRING, args : Seq(STRING)]
  BY <1>1
<1>3. call.id \in STRING /\ call.id # "" /\ call.name \in STRING /\ call.args \in Seq(STRING)
  BY <1>2
<1>4. Len(call.args) \in Nat /\ DOMAIN call.args = 1 .. Len(call.args)
  <2> DEFINE w == call.args
  <2>1. w \in Seq(STRING)
    BY <1>3
  <2> HIDE DEF w
  <2>2. Len(w) \in Nat /\ DOMAIN w = 1 .. Len(w)
    BY <2>1
  <2> QED BY <2>2 DEF w
<1>5. call = ToolCall(call.id, call.name, call.args)
  BY <1>2 DEF ToolCall
<1>6. \A j \in 1 .. Len(call.args) - 1 : ~(call.args[j] = "}" /\ call.args[j + 1] = "{")
  BY <1>1, Zenon DEF Seamless
<1> QED BY <1>3, <1>4, <1>5, <1>6

\* The events of a call: the one that opens it and those of its arguments.
OpenAiPiece(i, c) == Event("chunk", -1, "calls", <<>>, <<[index |-> i, call |-> c]>>, NoUsage)
OpenAiRest(call, i) == [j \in 1 .. Len(call.args) |-> OpenAiPiece(i, ToolCall("", "", <<call.args[j]>>))]

\* The events of a call of an OpenAI-compatible service.
LEMMA OpenAiCallParts ==
  ASSUME NEW call \in Calling, NEW i \in Int
  PROVE  /\ OpenAiCall(call, i) = <<OpenAiPiece(i, ToolCall(call.id, call.name, <<>>))>> \o OpenAiRest(call, i)
         /\ <<OpenAiPiece(i, ToolCall(call.id, call.name, <<>>))>> \in Seq(EventRecord)
         /\ OpenAiRest(call, i) \in Seq(EventRecord) /\ Len(OpenAiRest(call, i)) = Len(call.args)
<1> DEFINE first == OpenAiPiece(i, ToolCall(call.id, call.name, <<>>))
           rest == OpenAiRest(call, i)
           n == Len(call.args)
<1>1. /\ call.id \in STRING /\ call.name \in STRING /\ call.args \in Seq(STRING)
      /\ n \in Nat /\ DOMAIN call.args = 1 .. n
  BY CallParts
<1>2. ASSUME NEW id \in STRING \cup {""}, NEW name \in STRING \cup {""}, NEW args \in Seq(STRING)
      PROVE  OpenAiPiece(i, ToolCall(id, name, args)) \in EventRecord
  <2> DEFINE x == [index |-> i, call |-> ToolCall(id, name, args)]
  <2>1. x \in Piece
    BY DEF Piece, ToolCall, CallPart
  <2> HIDE DEF x
  <2>2. <<x>> \in Seq(Piece)
    BY <2>1, OneSeq
  <2>3. Event("chunk", -1, "calls", <<>>, <<x>>, NoUsage) \in EventRecord
    BY <2>2, SomeUsage, EventInSet, Words
  <2> QED BY <2>3 DEF x, OpenAiPiece
<1>3. first \in EventRecord
  BY <1>1, <1>2, SomeUsage
<1>4. ASSUME NEW j \in 1 .. n PROVE OpenAiPiece(i, ToolCall("", "", <<call.args[j]>>)) \in EventRecord
  <2> DEFINE x == <<call.args[j]>>
  <2>1. x \in Seq(STRING)
    BY <1>1
  <2> HIDE DEF x
  <2>2. OpenAiPiece(i, ToolCall("", "", x)) \in EventRecord
    BY <1>2, <2>1
  <2> QED BY <2>2 DEF x
<1>5. rest \in [1 .. n -> EventRecord]
  BY <1>4 DEF OpenAiRest
<1>6. OpenAiCall(call, i) = <<first>> \o rest
  BY <1>1, Zenon DEF OpenAiCall, OpenAiPiece, OpenAiRest
<1> HIDE DEF rest, first
<1>7. rest \in Seq(EventRecord) /\ Len(rest) = n /\ <<first>> \in Seq(EventRecord)
  BY <1>1, <1>3, <1>5, FunSeq, OneSeq
<1> QED BY <1>6, <1>7 DEF rest, first

LEMMA OpenAiCallSeq ==
  ASSUME NEW call \in Calling, NEW i \in Int
  PROVE  OpenAiCall(call, i) \in Seq(EventRecord)
<1> DEFINE u == <<OpenAiPiece(i, ToolCall(call.id, call.name, <<>>))>>
           v == OpenAiRest(call, i)
<1>1. OpenAiCall(call, i) = u \o v /\ u \in Seq(EventRecord) /\ v \in Seq(EventRecord)
  BY OpenAiCallParts
<1> HIDE DEF u, v
<1> QED BY <1>1

\* The events of a block of Anthropic's.
LEMMA BlockParts ==
  ASSUME NEW i \in Int, NEW btype \in BlockTypes, NEW text \in Seq(STRING), NEW call \in Seq(Piece)
  PROVE  LET start == <<Event("content_block_start", i, btype, <<>>, call, NoUsage)>>
             each == Each(text, "content_block_delta", i, btype)
             stop == <<Event("content_block_stop", i, btype, <<>>, <<>>, NoUsage)>>
         IN  /\ Block(i, btype, text, call) = (start \o each) \o stop
             /\ start \in Seq(EventRecord) /\ each \in Seq(EventRecord) /\ stop \in Seq(EventRecord)
             /\ Block(i, btype, text, call) \in Seq(EventRecord)
<1> DEFINE a == <<Event("content_block_start", i, btype, <<>>, call, NoUsage)>>
           b == Each(text, "content_block_delta", i, btype)
           c == <<Event("content_block_stop", i, btype, <<>>, <<>>, NoUsage)>>
<1>1. a \in Seq(EventRecord)
  BY SomeUsage, EventInSet, Words, OneSeq
<1>2. b \in Seq(EventRecord)
  BY EachSeq, Words
<1>3. c \in Seq(EventRecord)
  BY SomeUsage, EventInSet, Words, OneSeq
<1> HIDE DEF a, b, c
<1>4. Block(i, btype, text, call) = (a \o b) \o c
  BY Zenon DEF Block, a, b, c
<1>5. (a \o b) \o c \in Seq(EventRecord)
  BY <1>1, <1>2, <1>3
<1> QED BY <1>1, <1>2, <1>3, <1>4, <1>5 DEF a, b, c

LEMMA AnswerParts ==
  ASSUME NEW r \in Requests
  PROVE  /\ r.answer.content \in Seq(STRING) /\ r.answer.reasoning \in Seq(STRING)
         /\ r.answer.calls \in Seq(Calling) /\ r.answer.usage \in Usage
         /\ r.streaming \in BOOLEAN /\ r.unasked \in BOOLEAN /\ (r.unasked => ~r.streaming)
BY RequestAssumption DEF Usage

\* What a service sends, part by part.
LEMMA OpenAiParts ==
  ASSUME NEW a, a.content \in Seq(STRING), a.reasoning \in Seq(STRING), a.calls \in Seq(Calling),
         a.usage \in Usage
  PROVE  LET x == Each(a.reasoning, "chunk", -1, "thinking")
             y == Each(a.content, "chunk", -1, "text")
             f == [i \in DOMAIN a.calls |-> OpenAiCall(a.calls[i], i - 1)]
             u == Event("chunk", -1, "none", <<>>, <<>>, a.usage)
             z == Event("[DONE]", -1, "none", <<>>, <<>>, NoUsage)
         IN  /\ OpenAiEvents(a) = ((x \o y) \o FlattenSeq(f)) \o (<<u>> \o <<z>>)
             /\ x \in Seq(EventRecord) /\ y \in Seq(EventRecord) /\ FlattenSeq(f) \in Seq(EventRecord)
             /\ f \in Seq(Seq(EventRecord)) /\ Len(f) = Len(a.calls)
             /\ \A n \in 1 .. Len(a.calls) : f[n] = OpenAiCall(a.calls[n], n - 1)
             /\ <<u>> \in Seq(EventRecord) /\ <<z>> \in Seq(EventRecord)
             /\ OpenAiEvents(a) \in Seq(EventRecord)
<1> DEFINE n == Len(a.calls)
           x == Each(a.reasoning, "chunk", -1, "thinking")
           y == Each(a.content, "chunk", -1, "text")
           f == [i \in DOMAIN a.calls |-> OpenAiCall(a.calls[i], i - 1)]
           u == Event("chunk", -1, "none", <<>>, <<>>, a.usage)
           z == Event("[DONE]", -1, "none", <<>>, <<>>, NoUsage)
<1>1. n \in Nat /\ DOMAIN a.calls = 1 .. n /\ \A i \in 1 .. n : a.calls[i] \in Calling
  OBVIOUS
<1>2. x \in Seq(EventRecord) /\ y \in Seq(EventRecord)
  BY EachSeq, Words
<1>3. ASSUME NEW i \in 1 .. n PROVE OpenAiCall(a.calls[i], i - 1) \in Seq(EventRecord)
  <2> DEFINE c == a.calls[i]
             k == i - 1
  <2>1. c \in Calling /\ k \in Int
    BY <1>1
  <2> HIDE DEF c, k
  <2>2. OpenAiCall(c, k) \in Seq(EventRecord)
    BY <2>1, OpenAiCallSeq
  <2> QED BY <2>2 DEF c, k
<1>4. f \in [1 .. n -> Seq(EventRecord)] /\ \A i \in 1 .. n : f[i] = OpenAiCall(a.calls[i], i - 1)
  BY <1>1, <1>3
<1>5. u \in EventRecord /\ z \in EventRecord
  BY SomeUsage, EventInSet, Words
<1>6. OpenAiEvents(a) = ((x \o y) \o FlattenSeq(f)) \o <<u, z>>
  BY Zenon DEF OpenAiEvents
<1> HIDE DEF x, y, u, z, f
<1>7. f \in Seq(Seq(EventRecord)) /\ Len(f) = n
  BY <1>1, <1>4, FunSeq
<1>8. FlattenSeq(f) \in Seq(EventRecord)
  BY <1>7, FlatSeq
<1>9. <<u>> \in Seq(EventRecord) /\ <<z>> \in Seq(EventRecord) /\ <<u, z>> = <<u>> \o <<z>>
  BY <1>5, OneSeq, TwoConcat
<1> DEFINE w == FlattenSeq(f)
           v == <<u>> \o <<z>>
<1>10. v \in Seq(EventRecord)
  BY <1>9, ConcatProperties
<1>11. OpenAiEvents(a) = ((x \o y) \o w) \o v
  BY <1>6, <1>9
<1> HIDE DEF w, v
<1>12. ((x \o y) \o w) \o v \in Seq(EventRecord)
  BY <1>2, <1>8, <1>10 DEF w
<1> QED BY <1>2, <1>4, <1>7, <1>8, <1>9, <1>11, <1>12 DEF x, y, u, z, f, w, v

LEMMA AnthropicParts ==
  ASSUME NEW a, a.content \in Seq(STRING), a.reasoning \in Seq(STRING), a.calls \in Seq(Calling),
         a.usage \in Usage
  PROVE  LET s == Event("message_start", -1, "none", <<>>, <<>>, [a.usage EXCEPT !.completion = 0])
             x == Block(0, "thinking", a.reasoning, <<>>)
             y == Block(1, "text", a.content, <<>>)
             f == [i \in DOMAIN a.calls |->
                     Block(i + 1, "tool_use", a.calls[i].args,
                           <<[index |-> i + 1, call |-> [a.calls[i] EXCEPT !.args = <<>>]]>>)]
             u == Event("message_delta", -1, "none", <<>>, <<>>, [a.usage EXCEPT !.prompt = 0])
             z == Event("message_stop", -1, "none", <<>>, <<>>, NoUsage)
         IN  /\ AnthropicEvents(a) = (((<<s>> \o x) \o y) \o FlattenSeq(f)) \o (<<u>> \o <<z>>)
             /\ <<s>> \in Seq(EventRecord)
             /\ x \in Seq(EventRecord) /\ y \in Seq(EventRecord) /\ FlattenSeq(f) \in Seq(EventRecord)
             /\ f \in Seq(Seq(EventRecord)) /\ Len(f) = Len(a.calls)
             /\ \A n \in 1 .. Len(a.calls) :
                  f[n] = Block(n + 1, "tool_use", a.calls[n].args,
                               <<[index |-> n + 1, call |-> [a.calls[n] EXCEPT !.args = <<>>]]>>)
             /\ <<u>> \in Seq(EventRecord) /\ <<z>> \in Seq(EventRecord)
             /\ AnthropicEvents(a) \in Seq(EventRecord)
<1> DEFINE n == Len(a.calls)
           s == Event("message_start", -1, "none", <<>>, <<>>, [a.usage EXCEPT !.completion = 0])
           x == Block(0, "thinking", a.reasoning, <<>>)
           y == Block(1, "text", a.content, <<>>)
           g(i) == Block(i + 1, "tool_use", a.calls[i].args,
                         <<[index |-> i + 1, call |-> [a.calls[i] EXCEPT !.args = <<>>]]>>)
           f == [i \in DOMAIN a.calls |-> g(i)]
           u == Event("message_delta", -1, "none", <<>>, <<>>, [a.usage EXCEPT !.prompt = 0])
           z == Event("message_stop", -1, "none", <<>>, <<>>, NoUsage)
<1>1. n \in Nat /\ DOMAIN a.calls = 1 .. n /\ \A i \in 1 .. n : a.calls[i] \in Calling
  OBVIOUS
<1>2. x \in Seq(EventRecord) /\ y \in Seq(EventRecord)
  BY SomeUsage, BlockParts, Words
<1>3. ASSUME NEW i \in 1 .. n PROVE g(i) \in Seq(EventRecord)
  <2> DEFINE c == a.calls[i]
  <2>1. c \in Calling
    BY <1>1
  <2> HIDE DEF c
  <2>2. /\ c.id \in STRING /\ c.name \in STRING /\ c.args \in Seq(STRING)
        /\ c = [id |-> c.id, name |-> c.name, args |-> c.args]
    BY <2>1, CallParts DEF ToolCall
  <2>3. [c EXCEPT !.args = <<>>] \in CallPart
    BY <2>2, SomeUsage DEF CallPart
  <2> DEFINE p == [index |-> i + 1, call |-> [c EXCEPT !.args = <<>>]]
  <2>4. p \in Piece
    BY <2>3 DEF Piece
  <2> HIDE DEF p
  <2>5. <<p>> \in Seq(Piece) /\ i + 1 \in Int
    BY <2>4, OneSeq
  <2>6. Block(i + 1, "tool_use", c.args, <<p>>) \in Seq(EventRecord)
    BY <2>2, <2>5, BlockParts, Words
  <2> QED BY <2>6 DEF p, c
<1>4. s \in EventRecord /\ u \in EventRecord /\ z \in EventRecord
  <2>1. [a.usage EXCEPT !.completion = 0] \in Usage /\ [a.usage EXCEPT !.prompt = 0] \in Usage
    BY DEF Usage
  <2> QED BY <2>1, SomeUsage, EventInSet, Words
<1>5. AnthropicEvents(a) = (((<<s>> \o x) \o y) \o FlattenSeq(f)) \o <<u, z>>
  BY Zenon DEF AnthropicEvents
<1> HIDE DEF s, x, y, u, z, g
<1>6. f \in [1 .. n -> Seq(EventRecord)] /\ \A i \in 1 .. n : f[i] = g(i)
  BY <1>1, <1>3
<1> HIDE DEF f
<1>7. f \in Seq(Seq(EventRecord)) /\ Len(f) = n
  BY <1>1, <1>6, FunSeq
<1>8. FlattenSeq(f) \in Seq(EventRecord)
  BY <1>7, FlatSeq
<1>9. /\ <<s>> \in Seq(EventRecord) /\ <<u>> \in Seq(EventRecord) /\ <<z>> \in Seq(EventRecord)
      /\ <<u, z>> = <<u>> \o <<z>>
  BY <1>4, OneSeq, TwoConcat
<1> DEFINE w == FlattenSeq(f)
           v == <<u>> \o <<z>>
           t == <<s>>
<1>10. v \in Seq(EventRecord) /\ t \in Seq(EventRecord)
  BY <1>9, ConcatProperties
<1>11. AnthropicEvents(a) = (((t \o x) \o y) \o w) \o v
  BY <1>5, <1>9
<1> HIDE DEF w, v, t
<1>12. (((t \o x) \o y) \o w) \o v \in Seq(EventRecord)
  BY <1>2, <1>8, <1>10 DEF w
<1> QED BY <1>2, <1>6, <1>7, <1>8, <1>9, <1>11, <1>12 DEF s, x, y, u, z, f, g, w, v, t

\* What a service streams is a sequence of events.
LEMMA EventsSeq ==
  ASSUME NEW r \in Requests
  PROVE  EventsOf[r] \in Seq(EventRecord)
<1> DEFINE a == r.answer
<1>1. /\ a.content \in Seq(STRING) /\ a.reasoning \in Seq(STRING) /\ a.calls \in Seq(Calling)
      /\ a.usage \in Usage
  BY AnswerParts
<1>2. EventsOf[r] = Events(r.provider, a)
  BY DEF EventsOf
<1> HIDE DEF a
<1>3. OpenAiEvents(a) \in Seq(EventRecord)
  BY <1>1, OpenAiParts
<1>4. AnthropicEvents(a) \in Seq(EventRecord)
  BY <1>1, AnthropicParts
<1> QED BY <1>2, <1>3, <1>4 DEF Events

HalfToken == [kind : {"half"}, event : Nat, half : {1, 2}]
Token == [kind : {"status", "header", "blank", "newline", "comment"}] \cup HalfToken
           \cup [kind : {"size"}, size : Nat]

Size(r) == Len(PiecesOf[r])
Count(r) == Len(EventsOf[r])
Base(r) == IF r.unasked THEN 0 ELSE 2
IsStream(r) == r.streaming \/ r.unasked

LEMMA Tokens ==
  /\ NL \in Token /\ Comment \in Token /\ \A e \in Nat, h \in {1, 2} : Half(e, h) \in Token
  /\ NL # Comment /\ \A e, h : Half(e, h) # NL /\ Half(e, h) # Comment
  /\ NL.kind = "newline" /\ Comment.kind = "comment"
  /\ \A e, h : Half(e, h).kind = "half" /\ Half(e, h).event = e /\ Half(e, h).half = h
BY DEF NL, Comment, Half, Token, HalfToken

\* The quarter of an event that piece i of them is.
LEMMA Quarters ==
  ASSUME NEW i \in Nat
  PROVE  /\ i \div 4 \in Nat /\ i % 4 \in 0 .. 3 /\ i = 4 * (i \div 4) + (i % 4)
         /\ ((i + 1) + 3) \div 4 = (i \div 4) + 1 /\ 1 + (((i + 1) - 1) % 4) = 1 + (i % 4)
         /\ (i + 1) \div 4 = (IF i % 4 = 3 THEN (i \div 4) + 1 ELSE i \div 4)
         /\ (i + 1) % 4 = (IF i % 4 = 3 THEN 0 ELSE (i % 4) + 1)
OBVIOUS

LEMMA EventPieces ==
  ASSUME NEW r \in Requests, NEW i \in 1 .. 4 * Count(r)
  PROVE  PiecesOfEvent((i + 3) \div 4)[1 + ((i - 1) % 4)] \in Token
<1>1. Count(r) \in Nat
  BY EventsSeq DEF Count
<1>2. (i + 3) \div 4 \in Nat /\ (i - 1) % 4 \in 0 .. 3
  BY <1>1
<1> DEFINE e == (i + 3) \div 4
           c == (i - 1) % 4
<1> HIDE DEF e, c
<1>3. e \in Nat /\ c \in 0 .. 3
  BY <1>2 DEF e, c
<1>4. PiecesOfEvent(e)[1 + c] \in {Half(e, 1), Half(e, 2), NL}
  BY <1>3 DEF PiecesOfEvent
<1>5. PiecesOfEvent(e)[1 + c] \in Token
  BY <1>3, <1>4, Tokens
<1> QED BY <1>5 DEF e, c

\* What a body is made of.
LEMMA PiecesShape ==
  ASSUME NEW r \in Requests
  PROVE  /\ PiecesOf[r] \in Seq(Token) /\ Size(r) \in Nat /\ Count(r) \in Nat
         /\ IsStream(r) =>
              /\ Size(r) = Base(r) + 4 * Count(r)
              /\ ~r.unasked => PiecesOf[r][1] = Comment /\ PiecesOf[r][2] = NL
              /\ \A i \in 0 .. 4 * Count(r) - 1 :
                   PiecesOf[r][Base(r) + i + 1] = PiecesOfEvent((i \div 4) + 1)[1 + (i % 4)]
<1>1. Count(r) \in Nat
  BY EventsSeq DEF Count
<1>2. CASE ~IsStream(r)
  <2>1. PiecesOf[r] = <<Half(0, 1), Half(0, 2)>>
    BY <1>2 DEF PiecesOf, IsStream
  <2>2. Half(0, 1) \in Token /\ Half(0, 2) \in Token
    BY Tokens
  <2>3. PiecesOf[r] \in Seq(Token)
    BY <2>1, <2>2, TwoSeq
  <2> QED BY <1>1, <1>2, <2>3 DEF Size
<1>3. CASE IsStream(r)
  <2> DEFINE n == 4 * Count(r)
             piece(i) == PiecesOfEvent((i + 3) \div 4)[1 + ((i - 1) % 4)]
             rest == [i \in 1 .. n |-> piece(i)]
             first == IF r.unasked THEN <<>> ELSE <<Comment, NL>>
  <2>1. PiecesOf[r] = first \o rest
    BY <1>3 DEF PiecesOf, IsStream, Count
  <2>2. n \in Nat
    BY <1>1
  <2>3. \A i \in 1 .. n : piece(i) \in Token
    BY EventPieces
  <2>4. rest \in [1 .. n -> Token]
    BY <2>3
  <2>5. first \in Seq(Token) /\ Len(first) = Base(r)
        /\ (~r.unasked => first[1] = Comment /\ first[2] = NL)
    BY Tokens DEF Base
  <2>6. \A i \in 0 .. n - 1 : rest[i + 1] = PiecesOfEvent((i \div 4) + 1)[1 + (i % 4)]
    <3> SUFFICES ASSUME NEW i \in 0 .. n - 1
                 PROVE  rest[i + 1] = PiecesOfEvent((i \div 4) + 1)[1 + (i % 4)]
      OBVIOUS
    <3>1. i \in Nat /\ i + 1 \in 1 .. n
      BY <2>2
    <3>2. rest[i + 1] = piece(i + 1)
      BY <3>1
    <3>3. ((i + 1) + 3) \div 4 = (i \div 4) + 1 /\ 1 + (((i + 1) - 1) % 4) = 1 + (i % 4)
      BY <3>1, Quarters
    <3>4. piece(i + 1) = PiecesOfEvent((i \div 4) + 1)[1 + (i % 4)]
      BY <3>3
    <3> HIDE DEF piece, rest
    <3> QED BY <3>2, <3>4
  <2> HIDE DEF piece, rest, first
  <2>7. rest \in Seq(Token) /\ Len(rest) = n
    BY <2>2, <2>4, FunSeq
  <2>8. PiecesOf[r] \in Seq(Token) /\ Size(r) = Base(r) + n
    <3>1. first \o rest \in Seq(Token) /\ Len(first \o rest) = Len(first) + Len(rest)
      BY <2>5, <2>7
    <3> QED BY <2>1, <2>5, <2>7, <3>1 DEF Size
  <2>9. Base(r) \in Nat /\ Base(r) + n \in Nat
    BY <2>2 DEF Base
  <2>10. ~r.unasked => PiecesOf[r][1] = Comment /\ PiecesOf[r][2] = NL
    <3> SUFFICES ASSUME ~r.unasked PROVE PiecesOf[r][1] = Comment /\ PiecesOf[r][2] = NL
      OBVIOUS
    <3>1. Len(first) = 2 /\ first[1] = Comment /\ first[2] = NL
      BY <2>5 DEF Base
    <3>2. (first \o rest)[1] = first[1] /\ (first \o rest)[2] = first[2]
      <4>1. \A i \in 1 .. Len(first) + Len(rest) :
              (first \o rest)[i] = IF i <= Len(first) THEN first[i] ELSE rest[i - Len(first)]
        BY <2>5, <2>7, ConcatProperties
      <4>2. /\ 1 \in 1 .. Len(first) + Len(rest) /\ 1 <= Len(first)
            /\ 2 \in 1 .. Len(first) + Len(rest) /\ 2 <= Len(first)
        BY <2>2, <2>7, <3>1
      <4> QED BY <4>1, <4>2
    <3> QED BY <2>1, <3>1, <3>2
  <2>11. \A i \in 0 .. n - 1 : PiecesOf[r][Base(r) + i + 1] = rest[i + 1]
    BY <2>1, <2>2, <2>5, <2>7, <2>9
  <2> QED BY <1>1, <2>2, <2>6, <2>8, <2>9, <2>10, <2>11
<1> QED BY <1>2, <1>3

-----------------------------------------------------------------------------
(* The merger                                                                  *)

\* From s to t through seq.
Goes(op, s, seq, t) == \E h : Runs(h, op, s, seq, Len(seq)) /\ h[Len(seq)] = t

LEMMA GoesNowhere ==
  ASSUME NEW op, NEW s
  PROVE  Goes(op, s, <<>>, s)
<1> DEFINE h == [j \in 0 .. 0 |-> s]
<1>1. h[0] = s /\ Len(<<>>) = 0 /\ 1 .. 0 = {}
  OBVIOUS
<1> HIDE DEF h
<1>2. Runs(h, op, s, <<>>, 0)
  BY <1>1 DEF Runs
<1> QED BY <1>1, <1>2 DEF Goes

\* Steps one by one, none, one, and two runs of steps one behind the other.
LEMMA GoesBy ==
  ASSUME NEW op, NEW seq, NEW n, Len(seq) = n, NEW h, \A j \in 1 .. n : h[j] = Apply(op, h[j - 1], seq[j])
  PROVE  Goes(op, h[0], seq, h[n])
<1>1. Runs(h, op, h[0], seq, n)
  BY Zenon DEF Runs
<1> QED BY <1>1, Zenon DEF Goes

LEMMA GoesOne ==
  ASSUME NEW op, NEW s, NEW x
  PROVE  Goes(op, s, <<x>>, Apply(op, s, x))
<1> DEFINE h == [j \in 0 .. 1 |-> IF j = 0 THEN s ELSE Apply(op, s, x)]
           w == <<x>>
<1>1. h[0] = s /\ h[1] = Apply(op, s, x) /\ Len(w) = 1 /\ w[1] = x
  OBVIOUS
<1> HIDE DEF h, w
<1>2. \A j \in 1 .. 1 : h[j] = Apply(op, h[j - 1], w[j])
  <2>1. \A j \in 1 .. 1 : j = 1 /\ j - 1 = 0
    OBVIOUS
  <2> QED BY <1>1, <2>1
<1>3. Goes(op, h[0], w, h[1])
  BY <1>1, <1>2, GoesBy
<1> QED BY <1>1, <1>3 DEF w

LEMMA GoesOn ==
  ASSUME NEW op, NEW S, NEW u \in Seq(S), NEW v \in Seq(S), NEW s, NEW t, NEW w,
         Goes(op, s, u, t), Goes(op, t, v, w)
  PROVE  Goes(op, s, u \o v, w)
<1> DEFINE m == Len(u)
           n == Len(v)
           q == u \o v
<1>1. /\ m \in Nat /\ n \in Nat /\ q \in Seq(S) /\ Len(q) = m + n
      /\ \A j \in 1 .. m : q[j] = u[j]
      /\ \A j \in 1 .. n : q[m + j] = v[j]
  OBVIOUS
<1>2. PICK f : f[0] = s /\ (\A j \in 1 .. m : f[j] = Apply(op, f[j - 1], u[j])) /\ f[m] = t
  BY Zenon DEF Goes, Runs
<1>3. PICK g : g[0] = t /\ (\A j \in 1 .. n : g[j] = Apply(op, g[j - 1], v[j])) /\ g[n] = w
  BY Zenon DEF Goes, Runs
<1> DEFINE h == [j \in 0 .. m + n |-> IF j <= m THEN f[j] ELSE g[j - m]]
<1> HIDE DEF m, n, q
<1>4. h[0] = s
  <2>1. 0 \in 0 .. m + n /\ 0 <= m
    BY <1>1
  <2> QED BY <1>2, <2>1, Zenon
<1>5. h[m + n] = w
  <2>1. m + n \in 0 .. m + n /\ (m + n) - m = n /\ (m + n <= m => n = 0 /\ m + n = m)
    BY <1>1
  <2>2. n = 0 => t = w
    BY <1>3
  <2> QED BY <1>2, <1>3, <2>1, <2>2
<1>6. ASSUME NEW j \in 1 .. m + n PROVE h[j] = Apply(op, h[j - 1], q[j])
  <2>1. CASE j <= m
    <3>1. j \in 1 .. m /\ h[j] = f[j] /\ h[j - 1] = f[j - 1]
      BY <1>1, <2>1
    <3> HIDE DEF h
    <3> QED BY <1>1, <1>2, <3>1
  <2>2. CASE j > m
    <3> DEFINE i == j - m
    <3>1. i \in 1 .. n /\ m + i = j /\ h[j] = g[i]
      BY <1>1, <2>2
    <3>2. h[j - 1] = g[i - 1]
      <4>1. CASE i = 1
        BY <1>1, <1>2, <1>3, <4>1
      <4>2. CASE i # 1
        <5>1. j - 1 \in 0 .. m + n /\ ~(j - 1 <= m) /\ (j - 1) - m = i - 1
          BY <1>1, <3>1, <4>2
        <5> QED BY <5>1
      <4> QED BY <4>1, <4>2
    <3>3. g[i] = Apply(op, g[i - 1], v[i]) /\ q[j] = v[i]
      <4> HIDE DEF i, h
      <4>1. q[m + i] = v[i]
        BY <1>1, <3>1, Zenon
      <4> QED BY <1>3, <3>1, <4>1
    <3> HIDE DEF h, i
    <3> QED BY <3>1, <3>2, <3>3
  <2> QED BY <1>1, <2>1, <2>2
<1> HIDE DEF h
<1>7. Goes(op, h[0], q, h[m + n])
  BY <1>1, <1>6, GoesBy
<1> QED BY <1>4, <1>5, <1>7 DEF q

\* It goes nowhere else.
LEMMA GoesTo ==
  ASSUME NEW op, NEW s, NEW S, NEW seq \in Seq(S), NEW t, Goes(op, s, seq, t),
         NEW h, Runs(h, op, s, seq, Len(seq))
  PROVE  h[Len(seq)] = t
<1> DEFINE n == Len(seq)
<1>1. n \in Nat
  OBVIOUS
<1>2. PICK f : f[0] = s /\ (\A j \in 1 .. n : f[j] = Apply(op, f[j - 1], seq[j])) /\ f[n] = t
  BY Zenon DEF Goes, Runs
<1>3. h[0] = s /\ \A j \in 1 .. n : h[j] = Apply(op, h[j - 1], seq[j])
  BY Zenon DEF Runs
<1> HIDE DEF n
<1> DEFINE T == {j \in 0 .. n : h[j] = f[j]}
<1>4. 0 \in T
  BY <1>1, <1>2, <1>3
<1>5. ASSUME NEW j \in 1 .. n, j - 1 \in T PROVE j \in T
  BY <1>1, <1>2, <1>3, <1>5
<1>6. n \in T
  <2> HIDE DEF T
  <2>1. \A j \in 0 .. n : j \in T
    BY <1>1, <1>4, <1>5, UpTo
  <2> QED BY <1>1, <2>1
<1> QED BY <1>2, <1>6 DEF n

St(x, y, slots, v) == [content |-> x, reasoning |-> y, slots |-> slots, usage |-> v]
Put(op, slots, idx, call) ==
  IF op = "merge" THEN MergeCall(slots, idx, call, MaxCalls) ELSE MergePiece(slots, idx, call, MaxCalls)

\* The merger's loop over the calls of one event, of which there is one at most.
LEMMA MergesOne ==
  ASSUME NEW slots, NEW d, NEW c, d.calls \in {<<>>, <<c>>}, NEW raw, raw \in Nat \/ d.calls = <<>>
  PROVE  MergeCalls(slots, d, raw, MaxCalls)
           = IF d.calls = <<>> THEN slots ELSE MergeCall(slots, raw, c, MaxCalls)
<1> DEFINE n == Len(d.calls)
           idx(i) == IF raw >= 0 /\ n = 1 THEN raw ELSE IF n > 1 THEN i - 1 ELSE 0
           G(f) == f = [i \in 0 .. n |-> IF i = 0 THEN slots
                                         ELSE MergeCall(f[i - 1], idx(i), d.calls[i], MaxCalls)]
           f0 == CHOOSE f : G(f)
           f1 == [i \in 0 .. n |-> IF i = 0 THEN slots ELSE MergeCall(slots, raw, c, MaxCalls)]
<1>1. n = (IF d.calls = <<>> THEN 0 ELSE 1) /\ (d.calls # <<>> => d.calls[1] = c)
  <2>1. Len(<<>>) = 0 /\ Len(<<c>>) = 1 /\ <<c>>[1] = c
    OBVIOUS
  <2>2. d.calls = <<>> \/ (d.calls # <<>> /\ d.calls = <<c>>)
    OBVIOUS
  <2>3. CASE d.calls = <<>>
    BY <2>1, <2>3
  <2>4. CASE d.calls # <<>> /\ d.calls = <<c>>
    BY <2>1, <2>4
  <2> QED BY <2>2, <2>3, <2>4
<1>2. MergeCalls(slots, d, raw, MaxCalls) = f0[n]
  BY Zenon DEF MergeCalls
<1>3. d.calls # <<>> => idx(1) = raw
  BY <1>1
<1> HIDE DEF n, idx
<1>4. \A i \in 0 .. n : i # 0 => i = 1 /\ n = 1 /\ d.calls # <<>> /\ i - 1 = 0
  BY <1>1
<1>5. G(f1)
  <2>1. f1[0] = slots
    BY <1>1
  <2> DEFINE g == [i \in 0 .. n |-> IF i = 0 THEN slots
                                     ELSE MergeCall(f1[i - 1], idx(i), d.calls[i], MaxCalls)]
  <2>2. \A i \in 0 .. n : f1[i] = IF i = 0 THEN slots ELSE MergeCall(slots, raw, c, MaxCalls)
    OBVIOUS
  <2> HIDE DEF f1
  <2>3. ASSUME NEW i \in 0 .. n
        PROVE  f1[i] = IF i = 0 THEN slots ELSE MergeCall(f1[i - 1], idx(i), d.calls[i], MaxCalls)
    BY <1>1, <1>3, <1>4, <2>1, <2>2
  <2>4. f1 = g
    BY <2>3 DEF f1
  <2> QED BY <2>4
<1>6. G(f0)
  <2> HIDE DEF G, f1
  <2> QED BY <1>5
<1> HIDE DEF f0
<1>7. \A i \in 0 .. n : f0[i] = IF i = 0 THEN slots ELSE MergeCall(f0[i - 1], idx(i), d.calls[i], MaxCalls)
  BY <1>6, Zenon
<1> HIDE DEF G
<1>8. CASE d.calls = <<>>
  BY <1>1, <1>2, <1>7, <1>8
<1>9. CASE d.calls # <<>>
  <2>1. n = 1 /\ f0[0] = slots /\ f0[1] = MergeCall(f0[0], idx(1), d.calls[1], MaxCalls)
    BY <1>1, <1>7, <1>9
  <2> QED BY <1>1, <1>2, <1>3, <1>9, <2>1
<1> QED BY <1>8, <1>9

LEMMA MergesOnePiece ==
  ASSUME NEW slots, NEW d, NEW c, d.calls \in {<<>>, <<c>>}, NEW raw, raw \in Nat \/ d.calls = <<>>
  PROVE  MergePieces(slots, d, raw, MaxCalls)
           = IF d.calls = <<>> THEN slots ELSE MergePiece(slots, raw, c, MaxCalls)
<1> DEFINE n == Len(d.calls)
           idx(i) == IF raw >= 0 THEN raw ELSE i - 1
           G(f) == f = [i \in 0 .. n |-> IF i = 0 THEN slots
                                         ELSE MergePiece(f[i - 1], idx(i), d.calls[i], MaxCalls)]
           f0 == CHOOSE f : G(f)
           f1 == [i \in 0 .. n |-> IF i = 0 THEN slots ELSE MergePiece(slots, raw, c, MaxCalls)]
<1>1. n = (IF d.calls = <<>> THEN 0 ELSE 1) /\ (d.calls # <<>> => d.calls[1] = c)
  <2>1. Len(<<>>) = 0 /\ Len(<<c>>) = 1 /\ <<c>>[1] = c
    OBVIOUS
  <2>2. d.calls = <<>> \/ (d.calls # <<>> /\ d.calls = <<c>>)
    OBVIOUS
  <2>3. CASE d.calls = <<>>
    BY <2>1, <2>3
  <2>4. CASE d.calls # <<>> /\ d.calls = <<c>>
    BY <2>1, <2>4
  <2> QED BY <2>2, <2>3, <2>4
<1>2. MergePieces(slots, d, raw, MaxCalls) = f0[n]
  BY Zenon DEF MergePieces
<1>3. d.calls # <<>> => idx(1) = raw
  BY <1>1
<1> HIDE DEF n, idx
<1>4. \A i \in 0 .. n : i # 0 => i = 1 /\ n = 1 /\ d.calls # <<>> /\ i - 1 = 0
  BY <1>1
<1>5. G(f1)
  <2>1. f1[0] = slots
    BY <1>1
  <2> DEFINE g == [i \in 0 .. n |-> IF i = 0 THEN slots
                                     ELSE MergePiece(f1[i - 1], idx(i), d.calls[i], MaxCalls)]
  <2>2. \A i \in 0 .. n : f1[i] = IF i = 0 THEN slots ELSE MergePiece(slots, raw, c, MaxCalls)
    OBVIOUS
  <2> HIDE DEF f1
  <2>3. ASSUME NEW i \in 0 .. n
        PROVE  f1[i] = IF i = 0 THEN slots ELSE MergePiece(f1[i - 1], idx(i), d.calls[i], MaxCalls)
    BY <1>1, <1>3, <1>4, <2>1, <2>2
  <2>4. f1 = g
    BY <2>3 DEF f1
  <2> QED BY <2>4
<1>6. G(f0)
  <2> HIDE DEF G, f1
  <2> QED BY <1>5
<1> HIDE DEF f0
<1>7. \A i \in 0 .. n : f0[i] = IF i = 0 THEN slots ELSE MergePiece(f0[i - 1], idx(i), d.calls[i], MaxCalls)
  BY <1>6, Zenon
<1> HIDE DEF G
<1>8. CASE d.calls = <<>>
  BY <1>1, <1>2, <1>7, <1>8
<1>9. CASE d.calls # <<>>
  <2>1. n = 1 /\ f0[0] = slots /\ f0[1] = MergePiece(f0[0], idx(1), d.calls[1], MaxCalls)
    BY <1>1, <1>7, <1>9
  <2> QED BY <1>1, <1>2, <1>3, <1>9, <2>1
<1> QED BY <1>8, <1>9

\* What the reasoning and the usage of an event do to those so far.
Reasoned(op, b, y) == IF op = "merge" THEN b \o y ELSE b
Metered(op, u, v) ==
  IF op = "merge" THEN [prompt |-> Positive(u.prompt, v.prompt), completion |-> Positive(u.completion, v.completion)]
  ELSE v

\* An event that brings text, reasoning or usage.
LEMMA EventAdds ==
  ASSUME NEW op \in {"merge", "read"}, NEW e, NEW x, NEW y, NEW u,
         parse_chunk(req.provider, e) = <<Message(x, y, <<>>, u)>>,
         NEW a, NEW b, NEW slots, NEW v
  PROVE  Apply(op, St(a, b, slots, v), e)
           = St(a \o x, Reasoned(op, b, y), slots, Metered(op, u, v))
<1> DEFINE d == Message(x, y, <<>>, u)
           raw == raw_tool_index(e)
           s == St(a, b, slots, v)
<1>1. d.content = x /\ d.reasoning = y /\ d.calls = <<>> /\ d.usage = u
  BY DEF Message
<1>2. s.content = a /\ s.reasoning = b /\ s.slots = slots /\ s.usage = v
  BY DEF St
<1>3. parse_chunk(req.provider, e) = <<d>> /\ <<d>> # <<>> /\ <<d>>[1] = d
  OBVIOUS
<1> HIDE DEF d, raw, s
<1>4. MergeCalls(slots, d, raw, MaxCalls) = slots /\ MergePieces(slots, d, raw, MaxCalls) = slots
  BY <1>1, MergesOne, MergesOnePiece
<1>5. CASE op = "merge"
  <2>1. Apply(op, s, e) = Receive(s, req.provider, e, MaxCalls)
    BY <1>5 DEF Apply
  <2>2. Receive(s, req.provider, e, MaxCalls)
          = [content   |-> a \o x,
             reasoning |-> b \o y,
             usage     |-> [prompt     |-> Positive(u.prompt, v.prompt),
                            completion |-> Positive(u.completion, v.completion)],
             slots     |-> MergeCalls(slots, d, raw, MaxCalls)]
    BY <1>1, <1>2, <1>3 DEF Receive, raw
  <2> QED BY <1>4, <1>5, <2>1, <2>2 DEF St, Metered, Reasoned, s
<1>6. CASE op = "read"
  <2>1. Apply(op, s, e) = ReadEvent(s, req.provider, e, MaxCalls)
    BY <1>6 DEF Apply
  <2>2. ReadEvent(s, req.provider, e, MaxCalls)
          = [s EXCEPT !.content = a \o x, !.slots = MergePieces(slots, d, raw, MaxCalls)]
    BY <1>1, <1>2, <1>3 DEF ReadEvent, raw
  <2> QED BY <1>4, <1>6, <2>1, <2>2 DEF St, Metered, Reasoned, s
<1> QED BY <1>5, <1>6

\* An event about a call.
LEMMA EventCalls ==
  ASSUME NEW op \in {"merge", "read"}, NEW e, NEW c,
         parse_chunk(req.provider, e) = <<Message(<<>>, <<>>, <<c>>, NoUsage)>>, raw_tool_index(e) \in Nat,
         NEW a \in Seq(STRING), NEW b \in Seq(STRING), NEW slots, NEW v \in Usage
  PROVE  Apply(op, St(a, b, slots, v), e) = St(a, b, Put(op, slots, raw_tool_index(e), c), v)
<1> DEFINE d == Message(<<>>, <<>>, <<c>>, NoUsage)
           raw == raw_tool_index(e)
           s == St(a, b, slots, v)
<1>1. d.content = <<>> /\ d.reasoning = <<>> /\ d.calls = <<c>> /\ d.usage = NoUsage /\ <<c>> # <<>>
  BY DEF Message
<1>2. s.content = a /\ s.reasoning = b /\ s.slots = slots /\ s.usage = v
  BY DEF St
<1>3. parse_chunk(req.provider, e) = <<d>> /\ <<d>> # <<>> /\ <<d>>[1] = d
  OBVIOUS
<1>4. a \o <<>> = a /\ b \o <<>> = b
  OBVIOUS
<1>5. [prompt |-> Positive(NoUsage.prompt, v.prompt),
       completion |-> Positive(NoUsage.completion, v.completion)] = v
  BY DEF Usage, NoUsage, Positive
<1>9. raw \in Nat
  OBVIOUS
<1> HIDE DEF d, raw, s
<1>6. /\ MergeCalls(slots, d, raw, MaxCalls) = MergeCall(slots, raw, c, MaxCalls)
      /\ MergePieces(slots, d, raw, MaxCalls) = MergePiece(slots, raw, c, MaxCalls)
  <2>1. d.calls \in {<<>>, <<c>>} /\ d.calls # <<>>
    BY <1>1
  <2> QED BY <1>9, <2>1, MergesOne, MergesOnePiece
<1>7. CASE op = "merge"
  <2>1. Apply(op, s, e) = Receive(s, req.provider, e, MaxCalls)
    BY <1>7 DEF Apply
  <2>2. Receive(s, req.provider, e, MaxCalls)
          = [content   |-> a \o <<>>,
             reasoning |-> b \o <<>>,
             usage     |-> [prompt     |-> Positive(NoUsage.prompt, v.prompt),
                            completion |-> Positive(NoUsage.completion, v.completion)],
             slots     |-> MergeCalls(slots, d, raw, MaxCalls)]
    BY <1>1, <1>2, <1>3 DEF Receive, raw
  <2> QED BY <1>4, <1>5, <1>6, <1>7, <2>1, <2>2 DEF St, Put, s, raw
<1>8. CASE op = "read"
  <2>1. Apply(op, s, e) = ReadEvent(s, req.provider, e, MaxCalls)
    BY <1>8 DEF Apply
  <2>2. ReadEvent(s, req.provider, e, MaxCalls)
          = [s EXCEPT !.content = a \o <<>>, !.slots = MergePieces(slots, d, raw, MaxCalls)]
    BY <1>1, <1>2, <1>3 DEF ReadEvent, raw
  <2> QED BY <1>4, <1>6, <1>8, <2>1, <2>2 DEF St, Put, s, raw
<1> QED BY <1>7, <1>8

\* How many of n calls have a slot.
Slotted(n) == IF n < MaxCalls THEN n ELSE MaxCalls

\* The slots behind n calls; and behind q pieces of the arguments of the n-th.
Full(calls, off, n) == [j \in 1 .. Slotted(n) |-> [index |-> j + off, call |-> calls[j]]]
Partial(c, q) == ToolCall(c.id, c.name, SubSeq(c.args, 1, q))
Filling(calls, off, n, q) ==
  [j \in 1 .. Slotted(n) |-> [index |-> j + off, call |-> IF j = n THEN Partial(calls[j], q) ELSE calls[j]]]

LEMMA PartialEnds ==
  ASSUME NEW c \in Calling
  PROVE  /\ Partial(c, Len(c.args)) = c /\ Partial(c, 0) = ToolCall(c.id, c.name, <<>>)
         /\ c \in CallPart /\ \A q \in 0 .. Len(c.args) : Partial(c, q) \in CallPart
<1> DEFINE w == c.args
<1>1. /\ c.id \in STRING /\ c.name \in STRING /\ w \in Seq(STRING) /\ Len(w) \in Nat
      /\ c = ToolCall(c.id, c.name, w)
  BY CallParts
<1> HIDE DEF w
<1>2. SubSeq(w, 1, Len(w)) = w /\ SubSeq(w, 1, 0) = <<>>
  BY <1>1
<1>3. \A q \in 0 .. Len(w) : SubSeq(w, 1, q) \in Seq(STRING)
  BY <1>1
<1>4. \A q \in 0 .. Len(w) : ToolCall(c.id, c.name, SubSeq(w, 1, q)) \in CallPart
  BY <1>1, <1>3 DEF ToolCall, CallPart
<1>5. c \in CallPart
  <2>1. Len(w) \in 0 .. Len(w)
    BY <1>1
  <2>2. ToolCall(c.id, c.name, w) \in CallPart
    BY <1>2, <1>4, <2>1
  <2> QED BY <1>1, <2>2
<1> QED BY <1>1, <1>2, <1>4, <1>5 DEF Partial, w

\* The slots are a sequence.
LEMMA SlotsSeq ==
  ASSUME NEW calls \in Seq(Calling), NEW n \in 0 .. Len(calls), NEW off \in Int
  PROVE  /\ Slotted(n) \in Nat /\ Slotted(n) <= n
         /\ Full(calls, off, n) \in Seq(Piece) /\ Len(Full(calls, off, n)) = Slotted(n)
         /\ DOMAIN Full(calls, off, n) = 1 .. Slotted(n)
<1>1. Slotted(n) \in Nat /\ Slotted(n) <= n /\ n \in Nat /\ n <= Len(calls)
  BY RequestAssumption DEF Slotted
<1>2. ASSUME NEW j \in 1 .. Slotted(n) PROVE [index |-> j + off, call |-> calls[j]] \in Piece
  <2>1. calls[j] \in Calling
    BY <1>1
  <2> QED BY <2>1, PartialEnds DEF Piece
<1>3. Full(calls, off, n) \in [1 .. Slotted(n) -> Piece]
  BY <1>2 DEF Full
<1> QED BY <1>1, <1>3, FunSeq

\* The last piece of the arguments completes the call.
LEMMA FillingEnds ==
  ASSUME NEW calls \in Seq(Calling), NEW n \in 1 .. Len(calls), NEW off \in Int
  PROVE  Filling(calls, off, n, Len(calls[n].args)) = Full(calls, off, n)
<1>1. calls[n] \in Calling
  OBVIOUS
<1>2. Partial(calls[n], Len(calls[n].args)) = calls[n]
  BY <1>1, PartialEnds
<1>3. \A j \in 1 .. Slotted(n) :
        (IF j = n THEN Partial(calls[j], Len(calls[n].args)) ELSE calls[j]) = calls[j]
  BY <1>2
<1> QED BY <1>3 DEF Filling, Full

\* The event that opens a call takes a slot, if there is one.
LEMMA FillOpens ==
  ASSUME NEW op \in {"merge", "read"}, NEW calls \in Seq(Calling), NEW n \in 1 .. Len(calls), NEW off \in Int
  PROVE  Put(op, Full(calls, off, n - 1), n + off, ToolCall(calls[n].id, calls[n].name, <<>>))
           = Filling(calls, off, n, 0)
<1> DEFINE s == Full(calls, off, n - 1)
           m == Slotted(n - 1)
           c == ToolCall(calls[n].id, calls[n].name, <<>>)
           new == [index |-> n + off, call |-> c]
<1>1. n - 1 \in 0 .. Len(calls) /\ n \in Nat /\ MaxCalls \in Nat
  BY RequestAssumption
<1>2. m \in Nat /\ m <= n - 1 /\ s \in Seq(Piece) /\ Len(s) = m /\ DOMAIN s = 1 .. m
  BY <1>1, SlotsSeq
<1>3. \A j \in 1 .. m : s[j] = [index |-> j + off, call |-> calls[j]]
  BY DEF Full
<1>4. calls[n] \in Calling /\ Partial(calls[n], 0) = c
  BY PartialEnds
<1> HIDE DEF s, c, m
<1>5. {j \in DOMAIN s : s[j].index = n + off} = {}
  BY <1>1, <1>2, <1>3
<1>6. Put(op, s, n + off, c) = IF m < MaxCalls THEN Append(s, new) ELSE s
  <2> DEFINE idx == n + off
  <2>1. {j \in DOMAIN s : s[j].index = idx} = {}
    BY <1>5
  <2> HIDE DEF idx
  <2> QED BY <1>2, <2>1 DEF Put, MergeCall, MergePiece, new, idx
<1>7. CASE n <= MaxCalls
  <2>1. m = n - 1 /\ Slotted(n) = n /\ m < MaxCalls
    BY <1>1, <1>7 DEF Slotted, m
  <2>2. Append(s, new) = [j \in 1 .. n |-> IF j = n THEN new ELSE s[j]]
    BY <1>1, <1>2, <2>1
  <2>3. \A j \in 1 .. n : (IF j = n THEN new ELSE s[j])
                            = [index |-> j + off, call |-> IF j = n THEN Partial(calls[j], 0) ELSE calls[j]]
    BY <1>1, <1>3, <1>4, <2>1
  <2>4. Append(s, new) = Filling(calls, off, n, 0)
    BY <2>1, <2>2, <2>3 DEF Filling
  <2> QED BY <1>6, <2>1, <2>4 DEF s, c
<1>8. CASE n > MaxCalls
  <2>1. m = MaxCalls /\ Slotted(n) = m /\ ~(m < MaxCalls) /\ \A j \in 1 .. m : j # n
    BY <1>1, <1>8 DEF Slotted, m
  <2>2. s = Filling(calls, off, n, 0)
    BY <2>1 DEF Filling, Full, s, m
  <2> QED BY <1>6, <2>1, <2>2 DEF s, c
<1> QED BY <1>1, <1>7, <1>8

\* A piece of the arguments goes to the end of those that came before it.
LEMMA JoinsPiece ==
  ASSUME NEW c \in Calling, NEW q \in 1 .. Len(c.args)
  PROVE  /\ JoinArgs(SubSeq(c.args, 1, q - 1), <<c.args[q]>>) = SubSeq(c.args, 1, q)
         /\ SubSeq(c.args, 1, q - 1) \o <<c.args[q]>> = SubSeq(c.args, 1, q)
<1> DEFINE w == c.args
           u == SubSeq(w, 1, q - 1)
           v == <<w[q]>>
<1>1. w \in Seq(STRING) /\ Len(w) \in Nat
  BY CallParts
<1>7. \A j \in 1 .. Len(w) - 1 : ~(w[j] = "}" /\ w[j + 1] = "{")
  BY CallParts
<1>2. q \in 1 .. Len(w)
  OBVIOUS
<1> HIDE DEF w
<1>5. /\ w[q] \in STRING /\ q - 1 \in Nat /\ q - 1 < Len(w) /\ (q - 1) + 1 = q
      /\ (q # 1 => q - 1 \in 1 .. Len(w) - 1)
  BY <1>1, <1>2
<1>6. u \in Seq(STRING) /\ Len(u) = q - 1 /\ \A j \in 1 .. q - 1 : u[j] = w[j]
  BY <1>1, <1>5
<1>3. u \o v = SubSeq(w, 1, q)
  <2> DEFINE e == q - 1
  <2>1. e \in Nat /\ e < Len(w) /\ e + 1 = q
    BY <1>5
  <2> HIDE DEF e
  <2>2. Append(SubSeq(w, 1, e), w[e + 1]) = SubSeq(w, 1, e + 1)
    BY <1>1, <2>1
  <2>3. Append(u, w[q]) = SubSeq(w, 1, q)
    BY <2>1, <2>2 DEF e
  <2>4. Append(u, w[q]) = u \o <<w[q]>>
    <3> HIDE DEF u
    <3> QED BY <1>5, <1>6, AppendIsConcat
  <2> QED BY <2>3, <2>4
<1>4. JoinArgs(u, v) = u \o v
  <2>1. ASSUME u # <<>>, Last(u) = "}", Head(v) = "{" PROVE FALSE
    <3>1. q # 1
      <4> HIDE DEF u
      <4>1. Len(u) # 0
        BY <1>6, <2>1, EmptySeq
      <4> QED BY <1>6, <4>1
    <3>2. q - 1 \in 1 .. Len(w) - 1 /\ (q - 1) + 1 = q
      BY <1>5, <3>1
    <3>3. Last(u) = w[q - 1]
      <4> HIDE DEF u
      <4>1. q - 1 \in 1 .. q - 1
        BY <3>2
      <4> QED BY <1>6, <4>1 DEF Last
    <3>4. Head(v) = w[q]
      OBVIOUS
    <3> QED BY <1>7, <2>1, <3>2, <3>3, <3>4
  <2> HIDE DEF u, v
  <2> QED BY <2>1, Zenon DEF JoinArgs
<1> QED BY <1>3, <1>4 DEF w

\* The merger does that with the slot of the call, if the call has one.
LEMMA FillGoesOn ==
  ASSUME NEW op \in {"merge", "read"}, NEW calls \in Seq(Calling), NEW n \in 1 .. Len(calls), NEW off \in Int,
         NEW q \in 1 .. Len(calls[n].args)
  PROVE  Put(op, Filling(calls, off, n, q - 1), n + off, ToolCall("", "", <<calls[n].args[q]>>))
           = Filling(calls, off, n, q)
<1> DEFINE s == Filling(calls, off, n, q - 1)
           m == Slotted(n)
           a == calls[n]
           c == ToolCall("", "", <<a.args[q]>>)
           idx == n + off
           old == Partial(a, q - 1)
<1>1. n \in 0 .. Len(calls) /\ n \in Nat /\ MaxCalls \in Nat /\ a \in Calling
  BY RequestAssumption
<1>2. m \in Nat /\ m <= n /\ (m = n \/ m = MaxCalls)
  BY <1>1, SlotsSeq DEF Slotted
<1>3. /\ \A j \in 1 .. m : s[j] = [index |-> j + off, call |-> IF j = n THEN Partial(calls[j], q - 1) ELSE calls[j]]
      /\ DOMAIN s = 1 .. m
  BY DEF Filling
<1>4. Len(s) = m
  BY <1>2, <1>3 DEF Filling
<1>5. JoinArgs(old.args, c.args) = SubSeq(a.args, 1, q) /\ old.args \o c.args = SubSeq(a.args, 1, q)
  <2>1. old.args = SubSeq(a.args, 1, q - 1) /\ c.args = <<a.args[q]>>
    BY DEF Partial, ToolCall
  <2> QED BY <1>1, <2>1, JoinsPiece
<1>6. Latest(c.id, old.id) = a.id /\ Latest(c.name, old.name) = a.name
  BY DEF Latest, Partial, ToolCall
<1> HIDE DEF s, m, a, c, idx, old
<1>7. CASE m < n
  <2>1. {j \in DOMAIN s : s[j].index = idx} = {}
    BY <1>1, <1>2, <1>3, <1>7 DEF idx
  <2>2. Put(op, s, idx, c) = s
    BY <1>2, <1>4, <1>7, <2>1 DEF Put, MergeCall, MergePiece
  <2>3. \A j \in 1 .. m : j # n
    BY <1>1, <1>2, <1>7
  <2>4. s = Filling(calls, off, n, q)
    BY <2>3 DEF Filling, s, m
  <2> QED BY <2>2, <2>4 DEF s, c, idx, a
<1>8. CASE m = n
  <2> DEFINE mine == {j \in DOMAIN s : s[j].index = idx}
             new == ToolCall(a.id, a.name, SubSeq(a.args, 1, q))
             t == [j \in 1 .. m |-> IF j = n THEN [index |-> idx, call |-> new] ELSE s[j]]
  <2>1. mine = {n} /\ n \in 1 .. m
    BY <1>1, <1>2, <1>3, <1>8 DEF idx
  <2>2. s[n] = [index |-> idx, call |-> old]
    BY <1>3, <2>1 DEF idx, old, a
  <2> HIDE DEF mine, new
  <2>3. (CHOOSE k \in mine : \A l \in mine : k <= l) = n
    BY <1>1, <2>1
  <2>4. MergeCall(s, idx, c, MaxCalls) = t
    <3>1. MergeCall(s, idx, c, MaxCalls)
            = [s EXCEPT ![n].call = ToolCall(Latest(c.id, old.id), Latest(c.name, old.name),
                                             JoinArgs(old.args, c.args))]
      <4>1. mine # {} /\ s[n].call = old
        BY <2>1, <2>2
      <4> QED BY <2>3, <4>1 DEF MergeCall, mine
    <3>2. MergeCall(s, idx, c, MaxCalls) = [s EXCEPT ![n].call = new]
      BY <1>5, <1>6, <3>1 DEF new
    <3>3. [s EXCEPT ![n].call = new] = [j \in 1 .. m |-> IF j = n THEN [s[n] EXCEPT !.call = new] ELSE s[j]]
      BY <1>3, <2>1
    <3>4. [s[n] EXCEPT !.call = new] = [index |-> idx, call |-> new]
      BY <2>2
    <3> QED BY <3>2, <3>3, <3>4
  <2>5. MergePiece(s, idx, c, MaxCalls) = t
    <3>1. MergePiece(s, idx, c, MaxCalls)
            = [j \in DOMAIN s |-> IF j \in mine
                 THEN [s[j] EXCEPT !.call = ToolCall(Latest(c.id, s[j].call.id), Latest(c.name, s[j].call.name),
                                                     s[j].call.args \o c.args)]
                 ELSE s[j]]
      <4>1. mine # {}
        BY <2>1
      <4> QED BY <4>1 DEF MergePiece, mine
    <3>2. [s[n] EXCEPT !.call = ToolCall(Latest(c.id, s[n].call.id), Latest(c.name, s[n].call.name),
                                          s[n].call.args \o c.args)] = [index |-> idx, call |-> new]
      <4>1. s[n].call = old
        BY <2>2
      <4>2. ToolCall(Latest(c.id, s[n].call.id), Latest(c.name, s[n].call.name), s[n].call.args \o c.args) = new
        BY <1>5, <1>6, <4>1 DEF new
      <4> HIDE DEF new
      <4> QED BY <2>2, <4>2
    <3> QED BY <1>3, <2>1, <3>1, <3>2
  <2>6. t = Filling(calls, off, n, q)
    <3>1. Partial(calls[n], q) = new
      BY DEF Partial, new, a
    <3>2. \A j \in 1 .. m : (IF j = n THEN [index |-> idx, call |-> new] ELSE s[j])
            = [index |-> j + off, call |-> IF j = n THEN Partial(calls[j], q) ELSE calls[j]]
      BY <1>3, <3>1 DEF idx
    <3> QED BY <3>2 DEF Filling, m
  <2>7. Put(op, s, idx, c) = t
    BY <2>4, <2>5 DEF Put
  <2> QED BY <2>6, <2>7 DEF s, c, idx, a
<1> QED
  <2>1. m < n \/ m = n
    BY <1>1, <1>2
  <2> QED BY <2>1, <1>7, <1>8

LEMMA EventParts ==
  ASSUME NEW type, NEW index, NEW btype, NEW text, NEW calls, NEW usage
  PROVE  LET e == Event(type, index, btype, text, calls, usage)
         IN  /\ e.type = type /\ e.index = index /\ e.btype = btype /\ e.text = text
             /\ e.calls = calls /\ e.usage = usage
BY DEF Event

LEMMA CallsOf ==
  ASSUME NEW e, NEW i, NEW c
  PROVE  /\ e.calls = <<>> => Calls(e) = <<>>
         /\ e.calls = <<[index |-> i, call |-> c]>> => Calls(e) = <<c>> /\ e.calls # <<>> /\ e.calls[1].index = i
<1>1. ASSUME e.calls = <<>> PROVE Calls(e) = <<>>
  BY <1>1 DEF Calls
<1>2. ASSUME e.calls = <<[index |-> i, call |-> c]>>
      PROVE  Calls(e) = <<c>> /\ e.calls # <<>> /\ e.calls[1].index = i
  <2> DEFINE x == [index |-> i, call |-> c]
             w == <<x>>
  <2>1. w[1] = x /\ DOMAIN w = 1 .. 1 /\ x.call = c /\ x.index = i /\ w # <<>>
    OBVIOUS
  <2>2. e.calls = w
    BY <1>2
  <2> HIDE DEF w, x
  <2>3. Calls(e) = [k \in 1 .. 1 |-> c]
    <3>1. \A k \in 1 .. 1 : w[k].call = c
      BY <2>1
    <3>2. Calls(e) = [k \in 1 .. 1 |-> w[k].call]
      BY <2>1, <2>2 DEF Calls
    <3> QED BY <3>1, <3>2
  <2>4. [k \in 1 .. 1 |-> c] = <<c>>
    OBVIOUS
  <2> QED BY <2>1, <2>2, <2>3, <2>4
<1> QED BY <1>1, <1>2

\* What deepseek.c sees in an event.
LEMMA OpenAiSees ==
  ASSUME req.provider # "anthropic", NEW t, NEW u, NEW i \in Nat, NEW c
  PROVE  /\ parse_chunk(req.provider, Event("chunk", -1, "text", t, <<>>, u)) = <<Message(t, <<>>, <<>>, u)>>
         /\ parse_chunk(req.provider, Event("chunk", -1, "thinking", t, <<>>, u)) = <<Message(<<>>, t, <<>>, u)>>
         /\ parse_chunk(req.provider, Event("chunk", -1, "none", <<>>, <<>>, u)) = <<Message(<<>>, <<>>, <<>>, u)>>
         /\ parse_chunk(req.provider, Event("[DONE]", -1, "none", <<>>, <<>>, u)) = <<>>
         /\ LET e == Event("chunk", -1, "calls", <<>>, <<[index |-> i, call |-> c]>>, u)
            IN  parse_chunk(req.provider, e) = <<Message(<<>>, <<>>, <<c>>, u)>> /\ raw_tool_index(e) = i
<1>1. \A e : parse_chunk(req.provider, e) = deepseek_parse_chunk(e)
  BY DEF parse_chunk
<1>2. parse_chunk(req.provider, Event("chunk", -1, "text", t, <<>>, u)) = <<Message(t, <<>>, <<>>, u)>>
  <2> DEFINE e == Event("chunk", -1, "text", t, <<>>, u)
  <2>1. e.type = "chunk" /\ e.btype = "text" /\ e.text = t /\ e.calls = <<>> /\ e.usage = u
    BY EventParts
  <2> HIDE DEF e
  <2>2. Calls(e) = <<>>
    BY <2>1, CallsOf
  <2> QED BY <1>1, <2>1, <2>2 DEF deepseek_parse_chunk, e
<1>3. parse_chunk(req.provider, Event("chunk", -1, "thinking", t, <<>>, u)) = <<Message(<<>>, t, <<>>, u)>>
  <2> DEFINE e == Event("chunk", -1, "thinking", t, <<>>, u)
  <2>1. e.type = "chunk" /\ e.btype = "thinking" /\ e.text = t /\ e.calls = <<>> /\ e.usage = u
    BY EventParts
  <2> HIDE DEF e
  <2>2. Calls(e) = <<>>
    BY <2>1, CallsOf
  <2> QED BY <1>1, <2>1, <2>2 DEF deepseek_parse_chunk, e
<1>4. parse_chunk(req.provider, Event("chunk", -1, "none", <<>>, <<>>, u)) = <<Message(<<>>, <<>>, <<>>, u)>>
  <2> DEFINE e == Event("chunk", -1, "none", <<>>, <<>>, u)
  <2>1. e.type = "chunk" /\ e.btype = "none" /\ e.calls = <<>> /\ e.usage = u
    BY EventParts
  <2> HIDE DEF e
  <2>2. Calls(e) = <<>>
    BY <2>1, CallsOf
  <2> QED BY <1>1, <2>1, <2>2 DEF deepseek_parse_chunk, e
<1>5. parse_chunk(req.provider, Event("[DONE]", -1, "none", <<>>, <<>>, u)) = <<>>
  <2> DEFINE e == Event("[DONE]", -1, "none", <<>>, <<>>, u)
  <2>1. e.type = "[DONE]"
    BY EventParts
  <2> HIDE DEF e
  <2> QED BY <1>1, <2>1 DEF deepseek_parse_chunk, e
<1>6. LET e == Event("chunk", -1, "calls", <<>>, <<[index |-> i, call |-> c]>>, u)
      IN  parse_chunk(req.provider, e) = <<Message(<<>>, <<>>, <<c>>, u)>> /\ raw_tool_index(e) = i
  <2> DEFINE e == Event("chunk", -1, "calls", <<>>, <<[index |-> i, call |-> c]>>, u)
  <2>1. /\ e.type = "chunk" /\ e.btype = "calls" /\ e.usage = u /\ e.index = -1
        /\ e.calls = <<[index |-> i, call |-> c]>>
    BY EventParts
  <2> HIDE DEF e
  <2>2. Calls(e) = <<c>> /\ e.calls # <<>> /\ e.calls[1].index = i
    BY <2>1, CallsOf
  <2>3. parse_chunk(req.provider, e) = <<Message(<<>>, <<>>, <<c>>, u)>>
    BY <1>1, <2>1, <2>2 DEF deepseek_parse_chunk
  <2>4. raw_tool_index(e) = i
    BY <2>1, <2>2 DEF raw_tool_index
  <2> QED BY <2>3, <2>4 DEF e
<1> QED BY <1>2, <1>3, <1>4, <1>5, <1>6

\* What anthropic.c sees in an event.
LEMMA AnthropicSees ==
  ASSUME req.provider = "anthropic", NEW t, NEW u, NEW i \in Nat, NEW c,
         NEW type \in {"content_block_start", "content_block_delta"}
  PROVE  /\ parse_chunk(req.provider, Event(type, i, "text", t, <<>>, NoUsage))
              = <<Message(t, <<>>, <<>>, NoUsage)>>
         /\ parse_chunk(req.provider, Event(type, i, "thinking", t, <<>>, NoUsage))
              = <<Message(<<>>, t, <<>>, NoUsage)>>
         /\ \A b : parse_chunk(req.provider, Event("content_block_stop", i, b, <<>>, <<>>, NoUsage))
                     = <<Message(<<>>, <<>>, <<>>, NoUsage)>>
         /\ \A x \in {"message_start", "message_delta"} :
              parse_chunk(req.provider, Event(x, -1, "none", <<>>, <<>>, u)) = <<Message(<<>>, <<>>, <<>>, u)>>
         /\ parse_chunk(req.provider, Event("message_stop", -1, "none", <<>>, <<>>, NoUsage))
              = <<Message(<<>>, <<>>, <<>>, NoUsage)>>
         /\ LET e == Event("content_block_start", i, "tool_use", <<>>, <<[index |-> i, call |-> c]>>, NoUsage)
            IN  parse_chunk(req.provider, e) = <<Message(<<>>, <<>>, <<c>>, NoUsage)>> /\ raw_tool_index(e) = i
         /\ LET e == Event("content_block_delta", i, "tool_use", t, <<>>, NoUsage)
            IN  /\ parse_chunk(req.provider, e) = <<Message(<<>>, <<>>, <<ToolCall("", "", t)>>, NoUsage)>>
                /\ raw_tool_index(e) = i
<1>1. \A e : parse_chunk(req.provider, e) = anthropic_parse_chunk(e)
  BY DEF parse_chunk
<1>2. ASSUME NEW b \in {"text", "thinking"}
      PROVE  parse_chunk(req.provider, Event(type, i, b, t, <<>>, NoUsage))
               = <<Message(IF b = "text" THEN t ELSE <<>>, IF b = "thinking" THEN t ELSE <<>>, <<>>, NoUsage)>>
  <2> DEFINE e == Event(type, i, b, t, <<>>, NoUsage)
  <2>1. e.type = type /\ e.btype = b /\ e.text = t /\ e.calls = <<>> /\ e.usage = NoUsage
    BY EventParts
  <2> HIDE DEF e
  <2>2. Calls(e) = <<>>
    BY <2>1, CallsOf
  <2> QED BY <1>1, <2>1, <2>2 DEF anthropic_parse_chunk, e
<1>3. ASSUME NEW b
      PROVE  parse_chunk(req.provider, Event("content_block_stop", i, b, <<>>, <<>>, NoUsage))
               = <<Message(<<>>, <<>>, <<>>, NoUsage)>>
  <2> DEFINE e == Event("content_block_stop", i, b, <<>>, <<>>, NoUsage)
  <2>1. e.type = "content_block_stop"
    BY EventParts
  <2> HIDE DEF e
  <2> QED BY <1>1, <2>1 DEF anthropic_parse_chunk, e
<1>4. ASSUME NEW x \in {"message_start", "message_delta"}
      PROVE  parse_chunk(req.provider, Event(x, -1, "none", <<>>, <<>>, u)) = <<Message(<<>>, <<>>, <<>>, u)>>
  <2> DEFINE e == Event(x, -1, "none", <<>>, <<>>, u)
  <2>1. e.type = x /\ e.usage = u
    BY EventParts
  <2> HIDE DEF e
  <2> QED BY <1>1, <2>1 DEF anthropic_parse_chunk, e
<1>5. parse_chunk(req.provider, Event("message_stop", -1, "none", <<>>, <<>>, NoUsage))
        = <<Message(<<>>, <<>>, <<>>, NoUsage)>>
  <2> DEFINE e == Event("message_stop", -1, "none", <<>>, <<>>, NoUsage)
  <2>1. e.type = "message_stop"
    BY EventParts
  <2> HIDE DEF e
  <2> QED BY <1>1, <2>1 DEF anthropic_parse_chunk, e
<1>6. LET e == Event("content_block_start", i, "tool_use", <<>>, <<[index |-> i, call |-> c]>>, NoUsage)
      IN  parse_chunk(req.provider, e) = <<Message(<<>>, <<>>, <<c>>, NoUsage)>> /\ raw_tool_index(e) = i
  <2> DEFINE e == Event("content_block_start", i, "tool_use", <<>>, <<[index |-> i, call |-> c]>>, NoUsage)
  <2>1. /\ e.type = "content_block_start" /\ e.btype = "tool_use" /\ e.index = i
        /\ e.calls = <<[index |-> i, call |-> c]>>
    BY EventParts
  <2> HIDE DEF e
  <2>2. Calls(e) = <<c>>
    BY <2>1, CallsOf
  <2>3. parse_chunk(req.provider, e) = <<Message(<<>>, <<>>, <<c>>, NoUsage)>>
    BY <1>1, <2>1, <2>2 DEF anthropic_parse_chunk
  <2>4. raw_tool_index(e) = i
    BY <2>1 DEF raw_tool_index
  <2> QED BY <2>3, <2>4 DEF e
<1>7. LET e == Event("content_block_delta", i, "tool_use", t, <<>>, NoUsage)
      IN  /\ parse_chunk(req.provider, e) = <<Message(<<>>, <<>>, <<ToolCall("", "", t)>>, NoUsage)>>
          /\ raw_tool_index(e) = i
  <2> DEFINE e == Event("content_block_delta", i, "tool_use", t, <<>>, NoUsage)
  <2>1. e.type = "content_block_delta" /\ e.btype = "tool_use" /\ e.index = i /\ e.text = t
    BY EventParts
  <2> HIDE DEF e
  <2>2. parse_chunk(req.provider, e) = <<Message(<<>>, <<>>, <<ToolCall("", "", t)>>, NoUsage)>>
    BY <1>1, <2>1 DEF anthropic_parse_chunk
  <2>3. raw_tool_index(e) = i
    BY <2>1 DEF raw_tool_index
  <2> QED BY <2>2, <2>3 DEF e
<1>8. /\ parse_chunk(req.provider, Event(type, i, "text", t, <<>>, NoUsage)) = <<Message(t, <<>>, <<>>, NoUsage)>>
      /\ parse_chunk(req.provider, Event(type, i, "thinking", t, <<>>, NoUsage))
           = <<Message(<<>>, t, <<>>, NoUsage)>>
  BY <1>2
<1> QED BY <1>3, <1>4, <1>5, <1>6, <1>7, <1>8

LEMMA UsageKept ==
  ASSUME NEW op, NEW v \in Usage
  PROVE  Metered(op, NoUsage, v) = v
BY DEF Metered, Usage, NoUsage, Positive

LEMMA PrefixGrows ==
  ASSUME NEW S, NEW w \in Seq(S), NEW j \in 1 .. Len(w)
  PROVE  /\ SubSeq(w, 1, j - 1) \o <<w[j]>> = SubSeq(w, 1, j)
         /\ SubSeq(w, 1, j) \in Seq(S) /\ SubSeq(w, 1, j - 1) \in Seq(S)
<1> DEFINE e == j - 1
<1>1. e \in Nat /\ e < Len(w) /\ e + 1 = j /\ w[j] \in S
  OBVIOUS
<1> HIDE DEF e
<1>2. Append(SubSeq(w, 1, e), w[e + 1]) = SubSeq(w, 1, e + 1)
  BY <1>1
<1>3. SubSeq(w, 1, e) \in Seq(S) /\ SubSeq(w, 1, j) \in Seq(S)
  BY <1>1
<1>4. Append(SubSeq(w, 1, e), w[j]) = SubSeq(w, 1, e) \o <<w[j]>>
  BY <1>1, <1>3, AppendIsConcat
<1> QED BY <1>1, <1>2, <1>3, <1>4 DEF e

LEMMA EachParts ==
  ASSUME NEW text \in Seq(STRING), NEW type, NEW index, NEW btype
  PROVE  /\ Len(text) \in Nat /\ Len(Each(text, type, index, btype)) = Len(text)
         /\ \A j \in 1 .. Len(text) :
              Each(text, type, index, btype)[j] = Event(type, index, btype, <<text[j]>>, <<>>, NoUsage)
<1> DEFINE n == Len(text)
           f == [j \in 1 .. n |-> Event(type, index, btype, <<text[j]>>, <<>>, NoUsage)]
<1>1. DOMAIN text = 1 .. n /\ n \in Nat
  OBVIOUS
<1>2. Each(text, type, index, btype) = f
  BY <1>1, Zenon DEF Each
<1> HIDE DEF n
<1>3. Len(f) = n /\ \A j \in 1 .. n : f[j] = Event(type, index, btype, <<text[j]>>, <<>>, NoUsage)
  BY <1>1
<1> QED BY <1>1, <1>2, <1>3 DEF n

Thought(op, w) == IF op = "merge" THEN w ELSE <<>>

\* The reasoning arrives piece by piece; a body that is read has no use for it.
LEMMA ThinkingRuns ==
  ASSUME NEW op \in {"merge", "read"}, NEW w \in Seq(STRING), NEW type, NEW index,
         \A t : parse_chunk(req.provider, Event(type, index, "thinking", t, <<>>, NoUsage))
                  = <<Message(<<>>, t, <<>>, NoUsage)>>,
         NEW a \in Seq(STRING), NEW slots, NEW v \in Usage
  PROVE  Goes(op, St(a, <<>>, slots, v), Each(w, type, index, "thinking"),
              St(a, Thought(op, w), slots, v))
<1> DEFINE n == Len(w)
           seq == Each(w, type, index, "thinking")
           b(j) == Thought(op, SubSeq(w, 1, j))
           h == [j \in 0 .. n |-> St(a, b(j), slots, v)]
<1>1. n \in Nat /\ Len(seq) = n
  BY EachParts
<1>2. \A j \in 1 .. n : seq[j] = Event(type, index, "thinking", <<w[j]>>, <<>>, NoUsage)
  BY EachParts
<1> HIDE DEF seq
<1>3. ASSUME NEW j \in 1 .. n PROVE h[j] = Apply(op, h[j - 1], seq[j])
  <2> DEFINE t == <<w[j]>>
             e == Event(type, index, "thinking", t, <<>>, NoUsage)
  <2>1. parse_chunk(req.provider, e) = <<Message(<<>>, t, <<>>, NoUsage)>>
    OBVIOUS
  <2>2. h[j] = St(a, b(j), slots, v) /\ h[j - 1] = St(a, b(j - 1), slots, v)
    BY <1>1
  <2>3. SubSeq(w, 1, j - 1) \o t = SubSeq(w, 1, j) /\ a \o <<>> = a
    BY PrefixGrows
  <2>4. seq[j] = e
    BY <1>2
  <2> HIDE DEF h, t, e
  <2> DEFINE c == b(j - 1)
             x == <<>>
  <2>7. Reasoned(op, c, t) = b(j)
    BY <2>3 DEF Reasoned, Thought
  <2> HIDE DEF b, c, x
  <2>5. Apply(op, St(a, c, slots, v), e) = St(a \o x, Reasoned(op, c, t), slots, Metered(op, NoUsage, v))
    <3>1. parse_chunk(req.provider, e) = <<Message(x, t, <<>>, NoUsage)>>
      BY <2>1 DEF x
    <3> QED BY <3>1, EventAdds
  <2>6. Apply(op, St(a, b(j - 1), slots, v), e) = St(a, b(j), slots, v)
    BY <2>3, <2>5, <2>7, UsageKept DEF c, x
  <2> QED BY <2>2, <2>4, <2>6
<1>4. h[0] = St(a, b(0), slots, v) /\ h[n] = St(a, b(n), slots, v)
  BY <1>1
<1>5. SubSeq(w, 1, 0) = <<>> /\ SubSeq(w, 1, n) = w
  OBVIOUS
<1> HIDE DEF h, n
<1>6. Goes(op, h[0], seq, h[n])
  BY <1>1, <1>3, GoesBy
<1>7. b(0) = <<>> /\ b(n) = Thought(op, w)
  BY <1>5 DEF Thought
<1> HIDE DEF b
<1> QED BY <1>4, <1>6, <1>7 DEF seq

\* So does the text.
LEMMA TextRuns ==
  ASSUME NEW op \in {"merge", "read"}, NEW w \in Seq(STRING), NEW type, NEW index,
         \A t : parse_chunk(req.provider, Event(type, index, "text", t, <<>>, NoUsage))
                  = <<Message(t, <<>>, <<>>, NoUsage)>>,
         NEW b \in Seq(STRING), NEW slots, NEW v \in Usage
  PROVE  Goes(op, St(<<>>, b, slots, v), Each(w, type, index, "text"), St(w, b, slots, v))
<1> DEFINE n == Len(w)
           seq == Each(w, type, index, "text")
           h == [j \in 0 .. n |-> St(SubSeq(w, 1, j), b, slots, v)]
<1>1. n \in Nat /\ Len(seq) = n
  BY EachParts
<1>2. \A j \in 1 .. n : seq[j] = Event(type, index, "text", <<w[j]>>, <<>>, NoUsage)
  BY EachParts
<1> HIDE DEF seq
<1>3. ASSUME NEW j \in 1 .. n PROVE h[j] = Apply(op, h[j - 1], seq[j])
  <2> DEFINE t == <<w[j]>>
             e == Event(type, index, "text", t, <<>>, NoUsage)
  <2>1. parse_chunk(req.provider, e) = <<Message(t, <<>>, <<>>, NoUsage)>>
    OBVIOUS
  <2>2. h[j] = St(SubSeq(w, 1, j), b, slots, v) /\ h[j - 1] = St(SubSeq(w, 1, j - 1), b, slots, v)
    BY <1>1
  <2>3. SubSeq(w, 1, j - 1) \o t = SubSeq(w, 1, j) /\ b \o <<>> = b
    BY PrefixGrows
  <2>4. seq[j] = e
    BY <1>2
  <2> HIDE DEF h, t, e
  <2>5. Apply(op, St(SubSeq(w, 1, j - 1), b, slots, v), e)
          = St(SubSeq(w, 1, j - 1) \o t, Reasoned(op, b, <<>>), slots, Metered(op, NoUsage, v))
    BY <2>1, EventAdds
  <2>6. Apply(op, St(SubSeq(w, 1, j - 1), b, slots, v), e) = St(SubSeq(w, 1, j), b, slots, v)
    BY <2>3, <2>5, UsageKept DEF Reasoned
  <2> QED BY <2>2, <2>4, <2>6
<1>4. h[0] = St(SubSeq(w, 1, 0), b, slots, v) /\ h[n] = St(SubSeq(w, 1, n), b, slots, v)
  BY <1>1
<1>5. SubSeq(w, 1, 0) = <<>> /\ SubSeq(w, 1, n) = w
  OBVIOUS
<1> HIDE DEF h, n
<1>6. Goes(op, h[0], seq, h[n])
  BY <1>1, <1>3, GoesBy
<1> QED BY <1>4, <1>5, <1>6 DEF seq

\* An event that brings nothing but usage, or not even that.
LEMMA EventMeters ==
  ASSUME NEW op \in {"merge", "read"}, NEW e, NEW u,
         parse_chunk(req.provider, e) = <<Message(<<>>, <<>>, <<>>, u)>>,
         NEW a \in Seq(STRING), NEW b \in Seq(STRING), NEW slots, NEW v
  PROVE  Goes(op, St(a, b, slots, v), <<e>>,
              St(a, b, slots, Metered(op, u, v)))
<1> DEFINE s == St(a, b, slots, v)
           w == Metered(op, u, v)
<1>1. a \o <<>> = a /\ b \o <<>> = b
  OBVIOUS
<1>2. Apply(op, s, e) = St(a \o <<>>, Reasoned(op, b, <<>>), slots, w)
  <2> DEFINE x == <<>>
  <2>1. parse_chunk(req.provider, e) = <<Message(x, x, <<>>, u)>>
    OBVIOUS
  <2> HIDE DEF x
  <2>2. Apply(op, St(a, b, slots, v), e) = St(a \o x, Reasoned(op, b, x), slots, Metered(op, u, v))
    BY <2>1, EventAdds
  <2> QED BY <2>2 DEF x
<1> HIDE DEF w, s
<1>3. Apply(op, s, e) = St(a, b, slots, w)
  BY <1>1, <1>2 DEF Reasoned
<1>4. Goes(op, s, <<e>>, Apply(op, s, e))
  BY GoesOne
<1> QED BY <1>3, <1>4 DEF s, w

LEMMA EventIdles ==
  ASSUME NEW op \in {"merge", "read"}, NEW e,
         parse_chunk(req.provider, e) = <<Message(<<>>, <<>>, <<>>, NoUsage)>>,
         NEW a \in Seq(STRING), NEW b \in Seq(STRING), NEW slots, NEW v \in Usage
  PROVE  Goes(op, St(a, b, slots, v), <<e>>, St(a, b, slots, v))
<1>1. Metered(op, NoUsage, v) = v
  BY UsageKept
<1>2. Goes(op, St(a, b, slots, v), <<e>>, St(a, b, slots, Metered(op, NoUsage, v)))
  BY EventMeters
<1> QED BY <1>1, <1>2

\* The program sees in e that c belongs to the call with index i.
Brings(e, c, i) ==
  parse_chunk(req.provider, e) = <<Message(<<>>, <<>>, <<c>>, NoUsage)>> /\ raw_tool_index(e) = i

BringsAll(seq, args, i) ==
  Len(seq) = Len(args) /\ \A q \in 1 .. Len(args) : Brings(seq[q], ToolCall("", "", <<args[q]>>), i)

\* A call is opened.
LEMMA OpeningRuns ==
  ASSUME NEW op \in {"merge", "read"}, NEW calls \in Seq(Calling), NEW n \in 1 .. Len(calls), NEW off \in Int,
         NEW e, Brings(e, ToolCall(calls[n].id, calls[n].name, <<>>), n + off), n + off \in Nat,
         NEW a \in Seq(STRING), NEW b \in Seq(STRING), NEW v \in Usage
  PROVE  Goes(op, St(a, b, Full(calls, off, n - 1), v), <<e>>, St(a, b, Filling(calls, off, n, 0), v))
<1> DEFINE c == ToolCall(calls[n].id, calls[n].name, <<>>)
           s == Full(calls, off, n - 1)
           idx == n + off
<1>1. parse_chunk(req.provider, e) = <<Message(<<>>, <<>>, <<c>>, NoUsage)>> /\ raw_tool_index(e) = idx /\ idx \in Nat
  BY DEF Brings
<1>2. Put(op, s, idx, c) = Filling(calls, off, n, 0)
  BY FillOpens
<1> HIDE DEF c, s, idx
<1>3. Apply(op, St(a, b, s, v), e) = St(a, b, Put(op, s, idx, c), v)
  BY <1>1, EventCalls
<1>4. Goes(op, St(a, b, s, v), <<e>>, Apply(op, St(a, b, s, v), e))
  BY GoesOne
<1> QED BY <1>2, <1>3, <1>4 DEF s

\* Its arguments arrive.
LEMMA ArgumentsRun ==
  ASSUME NEW op \in {"merge", "read"}, NEW calls \in Seq(Calling), NEW n \in 1 .. Len(calls), NEW off \in Int,
         NEW seq, BringsAll(seq, calls[n].args, n + off), n + off \in Nat,
         NEW a \in Seq(STRING), NEW b \in Seq(STRING), NEW v \in Usage
  PROVE  Goes(op, St(a, b, Filling(calls, off, n, 0), v), seq, St(a, b, Full(calls, off, n), v))
<1> DEFINE m == Len(calls[n].args)
           h == [q \in 0 .. m |-> St(a, b, Filling(calls, off, n, q), v)]
           idx == n + off
<1>6. calls[n] \in Calling
  OBVIOUS
<1>1. m \in Nat /\ Len(seq) = m /\ calls[n] \in Calling
  BY <1>6, CallParts DEF BringsAll
<1>2. ASSUME NEW q \in 1 .. m PROVE h[q] = Apply(op, h[q - 1], seq[q])
  <2> DEFINE c == ToolCall("", "", <<calls[n].args[q]>>)
             s == Filling(calls, off, n, q - 1)
             e == seq[q]
  <2>8. Brings(e, c, idx)
    <3> HIDE DEF idx
    <3> QED BY DEF BringsAll, idx
  <2>1. parse_chunk(req.provider, e) = <<Message(<<>>, <<>>, <<c>>, NoUsage)>> /\ raw_tool_index(e) = idx
    <3> HIDE DEF c, e, idx
    <3> QED BY <2>8 DEF Brings
  <2>2. Put(op, s, idx, c) = Filling(calls, off, n, q)
    BY FillGoesOn
  <2>3. h[q] = St(a, b, Filling(calls, off, n, q), v) /\ h[q - 1] = St(a, b, s, v)
    BY <1>1
  <2>4. idx \in Nat
    OBVIOUS
  <2> HIDE DEF c, s, e, idx, h
  <2>6. raw_tool_index(e) \in Nat
    BY <2>1, <2>4
  <2>7. Apply(op, St(a, b, s, v), e) = St(a, b, Put(op, s, raw_tool_index(e), c), v)
    BY <2>1, <2>6, EventCalls
  <2>5. Apply(op, St(a, b, s, v), e) = St(a, b, Put(op, s, idx, c), v)
    BY <2>1, <2>7
  <2> QED BY <2>2, <2>3, <2>5 DEF e
<1>3. h[0] = St(a, b, Filling(calls, off, n, 0), v) /\ h[m] = St(a, b, Filling(calls, off, n, m), v)
  BY <1>1
<1>4. Filling(calls, off, n, m) = Full(calls, off, n)
  BY FillingEnds
<1> HIDE DEF h, m
<1>5. Goes(op, h[0], seq, h[m])
  BY <1>1, <1>2, GoesBy
<1> QED BY <1>3, <1>4, <1>5

\* So a call goes into its slot, from a service of either protocol.
LEMMA OpenAiCallRuns ==
  ASSUME req.provider # "anthropic", NEW op \in {"merge", "read"}, NEW calls \in Seq(Calling),
         NEW n \in 1 .. Len(calls), NEW a \in Seq(STRING), NEW b \in Seq(STRING), NEW v \in Usage
  PROVE  Goes(op, St(a, b, Full(calls, -1, n - 1), v), OpenAiCall(calls[n], n - 1),
              St(a, b, Full(calls, -1, n), v))
<1> DEFINE call == calls[n]
           i == n - 1
           first == OpenAiPiece(i, ToolCall(call.id, call.name, <<>>))
           rest == OpenAiRest(call, i)
           m == Len(call.args)
<1>1. call \in Calling /\ i \in Nat /\ i \in Int /\ n + (-1) = i /\ -1 \in Int
  OBVIOUS
<1>2. m \in Nat /\ DOMAIN call.args = 1 .. m
  BY <1>1, CallParts
<1>3. /\ OpenAiCall(call, i) = <<first>> \o rest /\ Len(rest) = m
      /\ <<first>> \in Seq(EventRecord) /\ rest \in Seq(EventRecord)
  BY <1>1, OpenAiCallParts
<1>4. ASSUME NEW c
      PROVE  Brings(OpenAiPiece(i, c), c, i)
  <2> HIDE DEF i
  <2> QED BY <1>1, OpenAiSees DEF OpenAiPiece, Brings
<1>5. \A j \in 1 .. m : rest[j] = OpenAiPiece(i, ToolCall("", "", <<call.args[j]>>))
  BY DEF OpenAiRest
<1>6. Goes(op, St(a, b, Full(calls, -1, n - 1), v), <<first>>, St(a, b, Filling(calls, -1, n, 0), v))
  <2>1. Brings(first, ToolCall(call.id, call.name, <<>>), i)
    BY <1>4
  <2> HIDE DEF first
  <2> QED BY <1>1, <2>1, OpeningRuns
<1>7. Goes(op, St(a, b, Filling(calls, -1, n, 0), v), rest, St(a, b, Full(calls, -1, n), v))
  <2>1. \A q \in 1 .. m : Brings(rest[q], ToolCall("", "", <<call.args[q]>>), i)
    <3> HIDE DEF rest, m
    <3> QED BY <1>4, <1>5
  <2>2. BringsAll(rest, call.args, i)
    <3> HIDE DEF rest
    <3> QED BY <1>3, <2>1 DEF BringsAll
  <2> HIDE DEF rest
  <2> QED BY <1>1, <2>2, ArgumentsRun
<1> HIDE DEF first, rest
<1>8. Goes(op, St(a, b, Full(calls, -1, n - 1), v), <<first>> \o rest, St(a, b, Full(calls, -1, n), v))
  BY <1>3, <1>6, <1>7, GoesOn
<1> QED BY <1>3, <1>8

LEMMA AnthropicCallRuns ==
  ASSUME req.provider = "anthropic", NEW op \in {"merge", "read"}, NEW calls \in Seq(Calling),
         NEW n \in 1 .. Len(calls), NEW a \in Seq(STRING), NEW b \in Seq(STRING), NEW v \in Usage
  PROVE  Goes(op, St(a, b, Full(calls, 1, n - 1), v),
              Block(n + 1, "tool_use", calls[n].args,
                    <<[index |-> n + 1, call |-> [calls[n] EXCEPT !.args = <<>>]]>>),
              St(a, b, Full(calls, 1, n), v))
<1> DEFINE call == calls[n]
           i == n + 1
           c == ToolCall(call.id, call.name, <<>>)
           p == <<[index |-> i, call |-> c]>>
           e == Event("content_block_start", i, "tool_use", <<>>, p, NoUsage)
           seq == Each(call.args, "content_block_delta", i, "tool_use")
           z == Event("content_block_stop", i, "tool_use", <<>>, <<>>, NoUsage)
<1>1. call \in Calling /\ i \in Nat /\ i \in Int /\ 1 \in Int
  OBVIOUS
<1>2. call.args \in Seq(STRING) /\ [call EXCEPT !.args = <<>>] = c
  <2>1. call.args \in Seq(STRING) /\ call = [id |-> call.id, name |-> call.name, args |-> call.args]
    BY <1>1, CallParts DEF ToolCall
  <2> HIDE DEF call
  <2>2. [call EXCEPT !.args = <<>>] = [id |-> call.id, name |-> call.name, args |-> <<>>]
    BY <2>1
  <2> QED BY <2>1, <2>2 DEF ToolCall
<1>3. p \in Seq(Piece)
  <2>1. c \in CallPart
    BY <1>1, CallParts, SomeUsage DEF CallPart, ToolCall
  <2> HIDE DEF c, i
  <2>2. [index |-> i, call |-> c] \in Piece
    BY <1>1, <2>1 DEF Piece
  <2> QED BY <2>2, OneSeq
<1>4. /\ Block(i, "tool_use", call.args, p) = (<<e>> \o seq) \o <<z>>
      /\ <<e>> \in Seq(EventRecord) /\ seq \in Seq(EventRecord) /\ <<z>> \in Seq(EventRecord)
  <2> HIDE DEF p, i, call
  <2> QED BY <1>1, <1>2, <1>3, BlockParts, Words
<1>5. Goes(op, St(a, b, Full(calls, 1, n - 1), v), <<e>>, St(a, b, Filling(calls, 1, n, 0), v))
  <2>1. Brings(e, c, i)
    <3> HIDE DEF c, i
    <3> QED BY <1>1, AnthropicSees DEF Brings
  <2> HIDE DEF e
  <2> QED BY <1>1, <2>1, OpeningRuns
<1>6. Goes(op, St(a, b, Filling(calls, 1, n, 0), v), seq, St(a, b, Full(calls, 1, n), v))
  <2> DEFINE m == Len(call.args)
  <2>1. Len(seq) = m /\ \A q \in 1 .. m : seq[q] = Event("content_block_delta", i, "tool_use", <<call.args[q]>>, <<>>, NoUsage)
    <3> HIDE DEF call, i
    <3> QED BY <1>2, EachParts
  <2>2. ASSUME NEW t
        PROVE  Brings(Event("content_block_delta", i, "tool_use", t, <<>>, NoUsage), ToolCall("", "", t), i)
    <3> HIDE DEF i
    <3> QED BY <1>1, AnthropicSees DEF Brings
  <2>3. BringsAll(seq, call.args, i)
    <3> HIDE DEF seq, i, call
    <3> QED BY <2>1, <2>2 DEF BringsAll
  <2> HIDE DEF seq
  <2> QED BY <1>1, <2>3, ArgumentsRun
<1>7. Goes(op, St(a, b, Full(calls, 1, n), v), <<z>>, St(a, b, Full(calls, 1, n), v))
  <2>1. parse_chunk(req.provider, z) = <<Message(<<>>, <<>>, <<>>, NoUsage)>>
    <3> HIDE DEF i
    <3> QED BY <1>1, AnthropicSees
  <2> HIDE DEF z
  <2> QED BY <2>1, EventIdles
<1> HIDE DEF e, seq, z
<1>8. <<e>> \o seq \in Seq(EventRecord)
  BY <1>4
<1>9. Goes(op, St(a, b, Full(calls, 1, n - 1), v), <<e>> \o seq, St(a, b, Full(calls, 1, n), v))
  BY <1>4, <1>5, <1>6, GoesOn
<1>10. Goes(op, St(a, b, Full(calls, 1, n - 1), v), (<<e>> \o seq) \o <<z>>, St(a, b, Full(calls, 1, n), v))
  BY <1>4, <1>7, <1>8, <1>9, GoesOn
<1> QED BY <1>2, <1>4, <1>10

\* One call behind the other.
LEMMA CallsRun ==
  ASSUME NEW op, NEW calls \in Seq(Calling), NEW off, NEW f \in Seq(Seq(EventRecord)), Len(f) = Len(calls),
         NEW a, NEW b, NEW v,
         \A n \in 1 .. Len(calls) : Goes(op, St(a, b, Full(calls, off, n - 1), v), f[n], St(a, b, Full(calls, off, n), v))
  PROVE  Goes(op, St(a, b, <<>>, v), FlattenSeq(f), St(a, b, Full(calls, off, Len(calls)), v))
<1> DEFINE n == Len(calls)
           s(k) == St(a, b, Full(calls, off, k), v)
<1>1. n \in Nat /\ Len(f) = n /\ \A i \in 1 .. n : f[i] \in Seq(EventRecord)
  BY FlattenSteps
<1>2. s(0) = St(a, b, <<>>, v)
  <2>1. Slotted(0) = 0
    <3>1. MaxCalls \in Nat
      BY RequestAssumption
    <3> QED BY <3>1 DEF Slotted
  <2>2. Full(calls, off, 0) = <<>>
    BY <2>1 DEF Full
  <2> QED BY <2>2
<1>3. \A k \in 1 .. n : Goes(op, s(k - 1), f[k], s(k))
  OBVIOUS
<1> HIDE DEF n, s
<1>4. CASE n = 0
  <2>1. FlattenSeq(f) = <<>>
    BY <1>1, <1>4, FlattenSteps
  <2>2. Goes(op, s(0), <<>>, s(n))
    BY <1>4, GoesNowhere
  <2> QED BY <1>2, <2>1, <2>2 DEF n, s
<1>5. CASE n # 0
  <2>1. PICK g : /\ FlattenSeq(f) = g[n]
                 /\ \A i \in 1 .. n : g[i] = IF i = 1 THEN f[i] ELSE g[i - 1] \o f[i]
    BY <1>1, <1>5, FlattenSteps
  <2> DEFINE T == {k \in 0 .. n : k = 0 \/ (g[k] \in Seq(EventRecord) /\ Goes(op, s(0), g[k], s(k)))}
  <2>2. 0 \in T
    BY <1>1
  <2>3. ASSUME NEW k \in 1 .. n, k - 1 \in T PROVE k \in T
    <3>1. Goes(op, s(k - 1), f[k], s(k)) /\ f[k] \in Seq(EventRecord)
      BY <1>1, <1>3
    <3>2. CASE k = 1
      <4>1. g[k] = f[k] /\ s(k - 1) = s(0)
        BY <2>1, <3>2
      <4>2. g[k] \in Seq(EventRecord) /\ Goes(op, s(0), g[k], s(k))
        BY <3>1, <4>1
      <4> QED BY <1>1, <4>2
    <3>3. CASE k # 1
      <4>6. k - 1 # 0
        BY <1>1, <3>3
      <4>7. g[k] = g[k - 1] \o f[k]
        BY <2>1, <3>3, Zenon
      <4>1. g[k] = g[k - 1] \o f[k] /\ k - 1 # 0
        BY <4>6, <4>7
      <4>2. g[k - 1] \in Seq(EventRecord) /\ Goes(op, s(0), g[k - 1], s(k - 1))
        BY <2>3, <4>1
      <4>3. Goes(op, s(0), g[k - 1] \o f[k], s(k))
        BY <3>1, <4>2, GoesOn
      <4>4. g[k - 1] \o f[k] \in Seq(EventRecord)
        BY <3>1, <4>2, ConcatProperties
      <4>5. g[k] \in Seq(EventRecord) /\ Goes(op, s(0), g[k], s(k))
        BY <4>1, <4>3, <4>4, Zenon
      <4> QED BY <1>1, <4>5
    <3> QED BY <3>2, <3>3
  <2>4. n \in T
    <3> HIDE DEF T
    <3>1. \A k \in 0 .. n : k \in T
      BY <1>1, <2>2, <2>3, UpTo
    <3> QED BY <1>1, <3>1
  <2>5. Goes(op, s(0), g[n], s(n))
    BY <1>5, <2>4
  <2> QED BY <1>2, <2>1, <2>5 DEF n, s
<1> QED BY <1>4, <1>5

\* The usage of a whole answer; a body that is read has no use for it.
Spent(op, u) == IF op = "merge" THEN u ELSE NoUsage

\* A whole answer has been received.
WholeOf(op, a, off) ==
  St(a.content, Thought(op, a.reasoning), Full(a.calls, off, Len(a.calls)), Spent(op, a.usage))

\* The usage comes in one event, or in two that bring a half each.
LEMMA SpentUsage ==
  ASSUME NEW op, NEW u \in Usage
  PROVE  /\ Spent(op, u) \in Usage /\ NoUsage \in Usage
         /\ Metered(op, u, NoUsage) = Spent(op, u)
         /\ [u EXCEPT !.completion = 0] \in Usage
         /\ Metered(op, [u EXCEPT !.prompt = 0], Spent(op, [u EXCEPT !.completion = 0])) = Spent(op, u)
<1>1. CASE op = "merge"
  BY <1>1 DEF Spent, Metered, Usage, NoUsage, Positive
<1>2. CASE op # "merge"
  BY <1>2 DEF Spent, Metered, Usage, NoUsage, Positive
<1> QED BY <1>1, <1>2

LEMMA EventSkips ==
  ASSUME NEW op \in {"merge", "read"}, NEW e, parse_chunk(req.provider, e) = <<>>, NEW s
  PROVE  Goes(op, s, <<e>>, s)
<1>1. Apply(op, s, e) = s
  <2>1. CASE op = "merge"
    BY <2>1 DEF Apply, Receive
  <2>2. CASE op = "read"
    BY <2>2 DEF Apply, ReadEvent
  <2> QED BY <2>1, <2>2
<1>2. Goes(op, s, <<e>>, Apply(op, s, e))
  BY GoesOne
<1> QED BY <1>1, <1>2

LEMMA ThoughtSeq ==
  ASSUME NEW op, NEW w \in Seq(STRING)
  PROVE  Thought(op, w) \in Seq(STRING)
<1>1. CASE op = "merge"
  BY <1>1 DEF Thought
<1>2. CASE op # "merge"
  BY <1>2, EmptySeq DEF Thought
<1> QED BY <1>1, <1>2

\* The whole stream of an answer, as an OpenAI-compatible service sends it.
LEMMA OpenAiRuns ==
  ASSUME req.provider # "anthropic", NEW op \in {"merge", "read"}, NEW a,
         a.content \in Seq(STRING), a.reasoning \in Seq(STRING), a.calls \in Seq(Calling), a.usage \in Usage
  PROVE  Goes(op, NothingYet, OpenAiEvents(a), WholeOf(op, a, -1))
<1> DEFINE x == Each(a.reasoning, "chunk", -1, "thinking")
           y == Each(a.content, "chunk", -1, "text")
           f == [i \in DOMAIN a.calls |-> OpenAiCall(a.calls[i], i - 1)]
           u == Event("chunk", -1, "none", <<>>, <<>>, a.usage)
           z == Event("[DONE]", -1, "none", <<>>, <<>>, NoUsage)
           c == a.content
           w == a.reasoning
           calls == a.calls
           v == a.usage
           none == <<>>
           b == Thought(op, w)
           full == Full(calls, -1, Len(calls))
<1>1. /\ OpenAiEvents(a) = ((x \o y) \o FlattenSeq(f)) \o (<<u>> \o <<z>>)
      /\ x \in Seq(EventRecord) /\ y \in Seq(EventRecord) /\ FlattenSeq(f) \in Seq(EventRecord)
      /\ f \in Seq(Seq(EventRecord)) /\ Len(f) = Len(calls)
      /\ \A n \in 1 .. Len(calls) : f[n] = OpenAiCall(calls[n], n - 1)
      /\ <<u>> \in Seq(EventRecord) /\ <<z>> \in Seq(EventRecord)
  BY OpenAiParts
<1>2. c \in Seq(STRING) /\ w \in Seq(STRING) /\ calls \in Seq(Calling) /\ v \in Usage /\ 0 \in Nat
  OBVIOUS
<1>3. none \in Seq(STRING) /\ b \in Seq(STRING) /\ NoUsage \in Usage
  BY <1>2, ThoughtSeq, SpentUsage, EmptySeq
<1>4. WholeOf(op, a, -1) = St(c, b, full, Spent(op, v))
  BY DEF WholeOf
<1>5. NothingYet = St(none, none, none, NoUsage)
  BY DEF NothingYet, St
<1> HIDE DEF f, full, c, w, calls, v
<1>6. Goes(op, St(none, none, none, NoUsage), x, St(none, b, none, NoUsage))
  <2>1. \A t : parse_chunk(req.provider, Event("chunk", -1, "thinking", t, <<>>, NoUsage))
                 = <<Message(<<>>, t, <<>>, NoUsage)>>
    BY <1>2, OpenAiSees
  <2>2. Goes(op, St(none, <<>>, none, NoUsage), Each(w, "chunk", -1, "thinking"),
             St(none, Thought(op, w), none, NoUsage))
    <3> HIDE DEF none
    <3> QED BY <1>2, <1>3, <2>1, ThinkingRuns
  <2> QED BY <2>2 DEF w
<1>7. Goes(op, St(none, b, none, NoUsage), y, St(c, b, none, NoUsage))
  <2>1. \A t : parse_chunk(req.provider, Event("chunk", -1, "text", t, <<>>, NoUsage))
                 = <<Message(t, <<>>, <<>>, NoUsage)>>
    BY <1>2, OpenAiSees
  <2>2. Goes(op, St(<<>>, b, none, NoUsage), Each(c, "chunk", -1, "text"), St(c, b, none, NoUsage))
    <3> HIDE DEF none, b
    <3> QED BY <1>2, <1>3, <2>1, TextRuns
  <2> QED BY <2>2 DEF c
<1>8. Goes(op, St(c, b, none, NoUsage), FlattenSeq(f), St(c, b, full, NoUsage))
  <2> HIDE DEF b
  <2>1. ASSUME NEW n \in 1 .. Len(calls)
        PROVE  Goes(op, St(c, b, Full(calls, -1, n - 1), NoUsage), f[n], St(c, b, Full(calls, -1, n), NoUsage))
    <3>1. Goes(op, St(c, b, Full(calls, -1, n - 1), NoUsage), OpenAiCall(calls[n], n - 1),
               St(c, b, Full(calls, -1, n), NoUsage))
      BY <1>2, <1>3, OpenAiCallRuns
    <3> QED BY <1>1, <3>1
  <2>2. f \in Seq(Seq(EventRecord)) /\ Len(f) = Len(calls)
    BY <1>1
  <2> QED BY <1>2, <2>1, <2>2, CallsRun DEF full
<1>9. Goes(op, St(c, b, full, NoUsage), <<u>>, St(c, b, full, Spent(op, v)))
  <2>1. parse_chunk(req.provider, u) = <<Message(<<>>, <<>>, <<>>, v)>>
    BY <1>2, OpenAiSees DEF v
  <2> HIDE DEF u, b
  <2>2. Goes(op, St(c, b, full, NoUsage), <<u>>, St(c, b, full, Metered(op, v, NoUsage)))
    BY <1>2, <1>3, <2>1, EventMeters
  <2> QED BY <1>2, <2>2, SpentUsage
<1>10. Goes(op, St(c, b, full, Spent(op, v)), <<z>>, St(c, b, full, Spent(op, v)))
  <2>1. parse_chunk(req.provider, z) = <<>>
    BY <1>2, OpenAiSees
  <2> HIDE DEF z
  <2> QED BY <2>1, EventSkips
<1> DEFINE g == FlattenSeq(f)
           p == <<u>>
           q == <<z>>
           s0 == St(none, none, none, NoUsage)
           s1 == St(none, b, none, NoUsage)
           s2 == St(c, b, none, NoUsage)
           s3 == St(c, b, full, NoUsage)
           s4 == St(c, b, full, Spent(op, v))
<1>11. /\ x \in Seq(EventRecord) /\ y \in Seq(EventRecord) /\ g \in Seq(EventRecord)
       /\ p \in Seq(EventRecord) /\ q \in Seq(EventRecord)
  BY <1>1
<1>12. /\ Goes(op, s0, x, s1) /\ Goes(op, s1, y, s2) /\ Goes(op, s2, g, s3) /\ Goes(op, s3, p, s4)
       /\ Goes(op, s4, q, s4)
  BY <1>6, <1>7, <1>8, <1>9, <1>10
<1>13. OpenAiEvents(a) = ((x \o y) \o g) \o (p \o q)
  BY <1>1
<1> HIDE DEF x, y, g, p, q, s0, s1, s2, s3, s4
<1>14. Goes(op, s0, x \o y, s2) /\ x \o y \in Seq(EventRecord)
  BY <1>11, <1>12, GoesOn
<1>15. Goes(op, s3, p \o q, s4) /\ p \o q \in Seq(EventRecord)
  BY <1>11, <1>12, GoesOn
<1> DEFINE xy == x \o y
           pq == p \o q
<1>18. xy \in Seq(EventRecord) /\ Goes(op, s0, xy, s2) /\ pq \in Seq(EventRecord) /\ Goes(op, s3, pq, s4)
  BY <1>14, <1>15
<1> HIDE DEF xy, pq
<1>16. Goes(op, s0, xy \o g, s3) /\ xy \o g \in Seq(EventRecord)
  BY <1>11, <1>12, <1>18, GoesOn
<1>19. Goes(op, s0, (xy \o g) \o pq, s4)
  BY <1>18, <1>16, GoesOn
<1>17. Goes(op, s0, ((x \o y) \o g) \o (p \o q), s4)
  BY <1>19 DEF xy, pq
<1> QED BY <1>4, <1>5, <1>13, <1>17 DEF s0, s4

\* A block of text or of thinking.
LEMMA BlockRuns ==
  ASSUME req.provider = "anthropic", NEW op \in {"merge", "read"}, NEW i \in Nat,
         NEW btype \in {"text", "thinking"}, NEW text \in Seq(STRING),
         NEW a \in Seq(STRING), NEW b \in Seq(STRING), NEW c \in Seq(STRING), NEW d \in Seq(STRING),
         NEW slots, NEW v \in Usage,
         Goes(op, St(a, b, slots, v), Each(text, "content_block_delta", i, btype), St(c, d, slots, v))
  PROVE  Goes(op, St(a, b, slots, v), Block(i, btype, text, <<>>), St(c, d, slots, v))
<1> DEFINE e == Event("content_block_start", i, btype, <<>>, <<>>, NoUsage)
           seq == Each(text, "content_block_delta", i, btype)
           z == Event("content_block_stop", i, btype, <<>>, <<>>, NoUsage)
           s == St(a, b, slots, v)
           t == St(c, d, slots, v)
<1>1. /\ Block(i, btype, text, <<>>) = (<<e>> \o seq) \o <<z>>
      /\ <<e>> \in Seq(EventRecord) /\ seq \in Seq(EventRecord) /\ <<z>> \in Seq(EventRecord)
  <2>1. i \in Int /\ btype \in BlockTypes
    BY DEF BlockTypes
  <2> QED BY <2>1, SomeUsage, BlockParts
<1>2. Goes(op, s, <<e>>, s)
  <2> DEFINE none == <<>>
  <2>1. parse_chunk(req.provider, e) = <<Message(<<>>, <<>>, <<>>, NoUsage)>>
    <3> DEFINE type == "content_block_start"
    <3>1. type \in {"content_block_start", "content_block_delta"}
      OBVIOUS
    <3>2. CASE btype = "text"
      <4>1. parse_chunk(req.provider, Event(type, i, "text", none, <<>>, NoUsage)) = <<Message(none, <<>>, <<>>, NoUsage)>>
        <5> HIDE DEF none, type
        <5> QED BY <3>1, AnthropicSees
      <4> QED BY <3>2, <4>1
    <3>3. CASE btype = "thinking"
      <4>1. parse_chunk(req.provider, Event(type, i, "thinking", none, <<>>, NoUsage)) = <<Message(<<>>, none, <<>>, NoUsage)>>
        <5> HIDE DEF none, type
        <5> QED BY <3>1, AnthropicSees
      <4> QED BY <3>3, <4>1
    <3> QED BY <3>2, <3>3
  <2> HIDE DEF e
  <2> QED BY <2>1, EventIdles
<1>3. Goes(op, t, <<z>>, t)
  <2>1. parse_chunk(req.provider, z) = <<Message(<<>>, <<>>, <<>>, NoUsage)>>
    BY AnthropicSees
  <2> HIDE DEF z
  <2> QED BY <2>1, EventIdles
<1>4. Goes(op, s, seq, t)
  OBVIOUS
<1> DEFINE p == <<e>>
           q == <<z>>
<1>5. /\ Block(i, btype, text, <<>>) = (p \o seq) \o q
      /\ p \in Seq(EventRecord) /\ seq \in Seq(EventRecord) /\ q \in Seq(EventRecord)
      /\ Goes(op, s, p, s) /\ Goes(op, s, seq, t) /\ Goes(op, t, q, t)
  BY <1>1, <1>2, <1>3, <1>4
<1> HIDE DEF p, q, seq, s, t
<1>6. Goes(op, s, p \o seq, t) /\ p \o seq \in Seq(EventRecord)
  BY <1>5, GoesOn
<1>7. Goes(op, s, (p \o seq) \o q, t)
  <2> DEFINE pp == p \o seq
  <2>1. pp \in Seq(EventRecord) /\ Goes(op, s, pp, t)
    BY <1>6
  <2> HIDE DEF pp
  <2>2. Goes(op, s, pp \o q, t)
    BY <1>5, <2>1, GoesOn
  <2> QED BY <2>2 DEF pp
<1> QED BY <1>5, <1>7 DEF s, t

\* The whole stream of an answer, as Anthropic's service sends it.
LEMMA AnthropicRuns ==
  ASSUME req.provider = "anthropic", NEW op \in {"merge", "read"}, NEW a,
         a.content \in Seq(STRING), a.reasoning \in Seq(STRING), a.calls \in Seq(Calling), a.usage \in Usage
  PROVE  Goes(op, NothingYet, AnthropicEvents(a), WholeOf(op, a, 1))
<1> DEFINE s == Event("message_start", -1, "none", <<>>, <<>>, [a.usage EXCEPT !.completion = 0])
           x == Block(0, "thinking", a.reasoning, <<>>)
           y == Block(1, "text", a.content, <<>>)
           block(n) == Block(n + 1, "tool_use", a.calls[n].args,
                             <<[index |-> n + 1, call |-> [a.calls[n] EXCEPT !.args = <<>>]]>>)
           f == [i \in DOMAIN a.calls |->
                   Block(i + 1, "tool_use", a.calls[i].args,
                         <<[index |-> i + 1, call |-> [a.calls[i] EXCEPT !.args = <<>>]]>>)]
           u == Event("message_delta", -1, "none", <<>>, <<>>, [a.usage EXCEPT !.prompt = 0])
           z == Event("message_stop", -1, "none", <<>>, <<>>, NoUsage)
           c == a.content
           w == a.reasoning
           calls == a.calls
           v == a.usage
           v1 == Spent(op, [v EXCEPT !.completion = 0])
           v2 == Spent(op, v)
           none == <<>>
           b == Thought(op, w)
           full == Full(calls, 1, Len(calls))
           start == "content_block_start"
           delta == "content_block_delta"
<1>1. /\ AnthropicEvents(a) = (((<<s>> \o x) \o y) \o FlattenSeq(f)) \o (<<u>> \o <<z>>)
      /\ <<s>> \in Seq(EventRecord)
      /\ x \in Seq(EventRecord) /\ y \in Seq(EventRecord) /\ FlattenSeq(f) \in Seq(EventRecord)
      /\ f \in Seq(Seq(EventRecord)) /\ Len(f) = Len(calls)
      /\ \A n \in 1 .. Len(calls) : f[n] = block(n)
      /\ <<u>> \in Seq(EventRecord) /\ <<z>> \in Seq(EventRecord)
  BY AnthropicParts
<1>2. /\ c \in Seq(STRING) /\ w \in Seq(STRING) /\ calls \in Seq(Calling) /\ v \in Usage
      /\ 0 \in Nat /\ 1 \in Nat
  OBVIOUS
<1>3. /\ none \in Seq(STRING) /\ b \in Seq(STRING) /\ NoUsage \in Usage /\ v1 \in Usage /\ v2 \in Usage
      /\ Metered(op, [v EXCEPT !.completion = 0], NoUsage) = v1 /\ Metered(op, [v EXCEPT !.prompt = 0], v1) = v2
  <2>1. none \in Seq(STRING)
    BY EmptySeq
  <2>2. b \in Seq(STRING)
    BY <1>2, ThoughtSeq
  <2> HIDE DEF none, b
  <2>3. [v EXCEPT !.completion = 0] \in Usage /\ v2 \in Usage /\ NoUsage \in Usage
        /\ Metered(op, [v EXCEPT !.prompt = 0], v1) = v2
    BY <1>2, SpentUsage
  <2> DEFINE k == [v EXCEPT !.completion = 0]
  <2> HIDE DEF k
  <2>4. Metered(op, k, NoUsage) = Spent(op, k) /\ Spent(op, k) \in Usage
    <3>1. k \in Usage
      BY <2>3 DEF k
    <3> QED BY <3>1, SpentUsage
  <2> QED BY <2>1, <2>2, <2>3, <2>4 DEF k
<1>4. WholeOf(op, a, 1) = St(c, b, full, v2)
  BY DEF WholeOf
<1>5. NothingYet = St(none, none, none, NoUsage)
  BY DEF NothingYet, St
<1>6. ASSUME NEW t, NEW i \in Nat, NEW bt \in {"text", "thinking"}
      PROVE  parse_chunk(req.provider, Event(delta, i, bt, t, <<>>, NoUsage))
               = <<Message(IF bt = "text" THEN t ELSE <<>>, IF bt = "thinking" THEN t ELSE <<>>, <<>>, NoUsage)>>
  <2>1. delta \in {"content_block_start", "content_block_delta"}
    OBVIOUS
  <2> HIDE DEF delta
  <2>2. CASE bt = "text"
    BY <2>1, <2>2, AnthropicSees
  <2>3. CASE bt = "thinking"
    BY <2>1, <2>3, AnthropicSees
  <2> QED BY <2>2, <2>3
<1>7. ASSUME NEW k, NEW type \in {"message_start", "message_delta"}
      PROVE  parse_chunk(req.provider, Event(type, -1, "none", <<>>, <<>>, k)) = <<Message(<<>>, <<>>, <<>>, k)>>
  <2>1. start \in {"content_block_start", "content_block_delta"}
    OBVIOUS
  <2> HIDE DEF start
  <2> QED BY <1>2, <2>1, AnthropicSees
<1>8. parse_chunk(req.provider, z) = <<Message(<<>>, <<>>, <<>>, NoUsage)>>
  <2>1. start \in {"content_block_start", "content_block_delta"}
    OBVIOUS
  <2> HIDE DEF start
  <2> QED BY <1>2, <2>1, AnthropicSees
<1> HIDE DEF f, full, c, w, calls, v, v1, v2, start, delta
<1>9. Goes(op, St(none, none, none, NoUsage), <<s>>, St(none, none, none, v1))
  <2> DEFINE k == [v EXCEPT !.completion = 0]
  <2>1. parse_chunk(req.provider, s) = <<Message(<<>>, <<>>, <<>>, k)>>
    BY <1>7 DEF v
  <2> HIDE DEF k, s, none
  <2>2. Goes(op, St(none, none, none, NoUsage), <<s>>, St(none, none, none, Metered(op, k, NoUsage)))
    BY <1>3, <2>1, EventMeters
  <2> QED BY <1>3, <2>2 DEF k
<1>10. Goes(op, St(none, none, none, v1), x, St(none, b, none, v1))
  <2>1. \A t : parse_chunk(req.provider, Event(delta, 0, "thinking", t, <<>>, NoUsage))
                 = <<Message(<<>>, t, <<>>, NoUsage)>>
    BY <1>2, <1>6
  <2>2. Goes(op, St(none, <<>>, none, v1), Each(w, delta, 0, "thinking"), St(none, Thought(op, w), none, v1))
    <3> HIDE DEF none
    <3> QED BY <1>2, <1>3, <2>1, ThinkingRuns
  <2>3. Goes(op, St(none, none, none, v1), Each(w, "content_block_delta", 0, "thinking"), St(none, b, none, v1))
    BY <2>2 DEF delta
  <2> HIDE DEF none, b
  <2>4. Goes(op, St(none, none, none, v1), Block(0, "thinking", w, <<>>), St(none, b, none, v1))
    BY <1>2, <1>3, <2>3, BlockRuns
  <2> QED BY <2>4 DEF w
<1>11. Goes(op, St(none, b, none, v1), y, St(c, b, none, v1))
  <2>1. \A t : parse_chunk(req.provider, Event(delta, 1, "text", t, <<>>, NoUsage))
                 = <<Message(t, <<>>, <<>>, NoUsage)>>
    BY <1>2, <1>6
  <2>2. Goes(op, St(<<>>, b, none, v1), Each(c, delta, 1, "text"), St(c, b, none, v1))
    <3> HIDE DEF none, b
    <3> QED BY <1>2, <1>3, <2>1, TextRuns
  <2>3. Goes(op, St(none, b, none, v1), Each(c, "content_block_delta", 1, "text"), St(c, b, none, v1))
    BY <2>2 DEF delta
  <2> HIDE DEF none, b
  <2>4. Goes(op, St(none, b, none, v1), Block(1, "text", c, <<>>), St(c, b, none, v1))
    BY <1>2, <1>3, <2>3, BlockRuns
  <2> QED BY <2>4 DEF c
<1>12. Goes(op, St(c, b, none, v1), FlattenSeq(f), St(c, b, full, v1))
  <2> HIDE DEF b
  <2>1. ASSUME NEW n \in 1 .. Len(calls)
        PROVE  Goes(op, St(c, b, Full(calls, 1, n - 1), v1), f[n], St(c, b, Full(calls, 1, n), v1))
    <3>1. Goes(op, St(c, b, Full(calls, 1, n - 1), v1),
               Block(n + 1, "tool_use", calls[n].args,
                     <<[index |-> n + 1, call |-> [calls[n] EXCEPT !.args = <<>>]]>>),
               St(c, b, Full(calls, 1, n), v1))
      BY <1>2, <1>3, AnthropicCallRuns
    <3>2. f[n] = block(n)
      BY <1>1
    <3> QED BY <3>1, <3>2, Zenon DEF calls
  <2>2. f \in Seq(Seq(EventRecord)) /\ Len(f) = Len(calls)
    BY <1>1
  <2> HIDE DEF none
  <2>3. Goes(op, St(c, b, <<>>, v1), FlattenSeq(f), St(c, b, Full(calls, 1, Len(calls)), v1))
    BY <1>2, <2>1, <2>2, CallsRun
  <2> QED BY <2>3 DEF full, none
<1>13. Goes(op, St(c, b, full, v1), <<u>>, St(c, b, full, v2))
  <2> DEFINE k == [v EXCEPT !.prompt = 0]
  <2>1. parse_chunk(req.provider, u) = <<Message(<<>>, <<>>, <<>>, k)>>
    BY <1>7 DEF v
  <2> HIDE DEF k, u, b
  <2>2. Goes(op, St(c, b, full, v1), <<u>>, St(c, b, full, Metered(op, k, v1)))
    BY <1>2, <1>3, <2>1, EventMeters
  <2> QED BY <1>3, <2>2 DEF k
<1>14. Goes(op, St(c, b, full, v2), <<z>>, St(c, b, full, v2))
  <2> HIDE DEF z, b
  <2> QED BY <1>2, <1>3, <1>8, EventIdles
<1> DEFINE g == FlattenSeq(f)
           o == <<s>>
           p == <<u>>
           q == <<z>>
           s0 == St(none, none, none, NoUsage)
           s1 == St(none, none, none, v1)
           s2 == St(none, b, none, v1)
           s3 == St(c, b, none, v1)
           s4 == St(c, b, full, v1)
           s5 == St(c, b, full, v2)
<1>15. /\ o \in Seq(EventRecord) /\ x \in Seq(EventRecord) /\ y \in Seq(EventRecord) /\ g \in Seq(EventRecord)
       /\ p \in Seq(EventRecord) /\ q \in Seq(EventRecord)
  BY <1>1
<1>16. /\ Goes(op, s0, o, s1) /\ Goes(op, s1, x, s2) /\ Goes(op, s2, y, s3) /\ Goes(op, s3, g, s4)
       /\ Goes(op, s4, p, s5) /\ Goes(op, s5, q, s5)
  BY <1>9, <1>10, <1>11, <1>12, <1>13, <1>14
<1>17. AnthropicEvents(a) = (((o \o x) \o y) \o g) \o (p \o q)
  BY <1>1
<1> HIDE DEF x, y, g, o, p, q, s0, s1, s2, s3, s4, s5
<1> DEFINE ox == o \o x
           oxy == ox \o y
           oxyg == oxy \o g
           pq == p \o q
<1>18. ox \in Seq(EventRecord) /\ Goes(op, s0, ox, s2) /\ pq \in Seq(EventRecord) /\ Goes(op, s4, pq, s5)
  BY <1>15, <1>16, GoesOn
<1> HIDE DEF ox, pq
<1>19. oxy \in Seq(EventRecord) /\ Goes(op, s0, oxy, s3)
  BY <1>15, <1>16, <1>18, GoesOn
<1> HIDE DEF oxy
<1>20. oxyg \in Seq(EventRecord) /\ Goes(op, s0, oxyg, s4)
  BY <1>15, <1>16, <1>19, GoesOn
<1> HIDE DEF oxyg
<1>21. Goes(op, s0, oxyg \o pq, s5)
  BY <1>18, <1>20, GoesOn
<1> QED BY <1>4, <1>5, <1>17, <1>21 DEF s0, s5, ox, oxy, oxyg, pq

\* The stream of the request, whichever protocol it speaks.
LEMMA StreamGoes ==
  ASSUME req \in Requests, NEW op \in {"merge", "read"}
  PROVE  \E off \in Int : Goes(op, NothingYet, EventsOf[req], WholeOf(op, req.answer, off))
<1> DEFINE a == req.answer
<1>1. /\ a.content \in Seq(STRING) /\ a.reasoning \in Seq(STRING) /\ a.calls \in Seq(Calling)
      /\ a.usage \in Usage
  BY AnswerParts
<1>2. EventsOf[req] = Events(req.provider, a) /\ -1 \in Int /\ 1 \in Int
  BY DEF EventsOf
<1> HIDE DEF a
<1>3. CASE req.provider = "anthropic"
  <2>1. EventsOf[req] = AnthropicEvents(a)
    BY <1>2, <1>3 DEF Events
  <2>2. Goes(op, NothingYet, AnthropicEvents(a), WholeOf(op, a, 1))
    BY <1>1, <1>3, AnthropicRuns
  <2> QED BY <1>2, <2>1, <2>2 DEF a
<1>4. CASE req.provider # "anthropic"
  <2>1. EventsOf[req] = OpenAiEvents(a)
    BY <1>2, <1>4 DEF Events
  <2>2. Goes(op, NothingYet, OpenAiEvents(a), WholeOf(op, a, -1))
    BY <1>1, <1>4, OpenAiRuns
  <2> QED BY <1>2, <2>1, <2>2 DEF a
<1> QED BY <1>3, <1>4

\* What is kept of the slots: all of them have an id.
LEMMA CollectsRoom ==
  ASSUME NEW calls \in Seq(Calling), NEW off \in Int, NEW x, NEW y, NEW v
  PROVE  Collected(St(x, y, Full(calls, off, Len(calls)), v)) = Message(x, y, Room(calls), v)
<1> DEFINE n == Len(calls)
           m == Slotted(n)
           slots == Full(calls, off, n)
           s == St(x, y, slots, v)
           room == Room(calls)
           G(f) == f = [i \in 0 .. Len(s.slots) |->
                          IF i = 0 THEN <<>>
                          ELSE IF s.slots[i].call.id # "" THEN Append(f[i - 1], s.slots[i].call)
                          ELSE f[i - 1]]
           f0 == CHOOSE f : G(f)
           f1 == [i \in 0 .. m |-> SubSeq(room, 1, i)]
<1>1. n \in Nat /\ m \in Nat /\ m <= n /\ Len(slots) = m /\ n \in 0 .. n
  <2>1. n \in Nat /\ n \in 0 .. Len(calls)
    OBVIOUS
  <2> HIDE DEF n
  <2> QED BY <2>1, SlotsSeq DEF n
<1>2. s.slots = slots /\ s.content = x /\ s.reasoning = y /\ s.usage = v
  BY DEF St
<1>3. Collected(s) = Message(x, y, f0[Len(s.slots)], v)
  BY <1>2, Zenon DEF Collected
<1>4. \A i \in 1 .. m : slots[i] = [index |-> i + off, call |-> calls[i]]
  BY DEF Full
<1>5. room \in Seq(Calling) /\ Len(room) = m /\ \A i \in 1 .. m : room[i] = calls[i]
  <2>1. room = SubSeq(calls, 1, m)
    BY Zenon DEF Room, Slotted
  <2> HIDE DEF room, m
  <2> QED BY <1>1, <2>1
<1>6. \A i \in 1 .. m : /\ slots[i].call.id # "" /\ slots[i].call = room[i]
  <2> SUFFICES ASSUME NEW i \in 1 .. m PROVE slots[i].call.id # "" /\ slots[i].call = room[i]
    OBVIOUS
  <2> DEFINE c == calls[i]
  <2>1. c \in Calling
    BY <1>1
  <2> HIDE DEF c
  <2>2. c.id # ""
    BY <2>1, CallParts
  <2>3. slots[i].call = c /\ room[i] = c
    <3> HIDE DEF slots, room, m
    <3>1. slots[i] = [index |-> i + off, call |-> calls[i]] /\ room[i] = calls[i]
      BY <1>4, <1>5
    <3>2. slots[i].call = calls[i]
      <4> DEFINE p == slots[i]
                 k == i + off
      <4>1. p = [index |-> k, call |-> c]
        BY <3>1 DEF c
      <4> HIDE DEF p, k
      <4>2. p.call = c
        BY <4>1
      <4> QED BY <4>2 DEF p, c
    <3> QED BY <3>1, <3>2 DEF c
  <2> QED BY <2>2, <2>3
<1>7. /\ SubSeq(room, 1, 0) = <<>> /\ SubSeq(room, 1, m) = room
      /\ \A i \in 1 .. m : Append(SubSeq(room, 1, i - 1), room[i]) = SubSeq(room, 1, i)
  <2> HIDE DEF room, m
  <2>1. SubSeq(room, 1, 0) = <<>> /\ SubSeq(room, 1, m) = room
    BY <1>5
  <2>2. ASSUME NEW i \in 1 .. m PROVE Append(SubSeq(room, 1, i - 1), room[i]) = SubSeq(room, 1, i)
    <3> DEFINE e == i - 1
    <3>1. e \in Nat /\ e < Len(room) /\ e + 1 = i
      BY <1>1, <1>5
    <3> HIDE DEF e
    <3>2. Append(SubSeq(room, 1, e), room[e + 1]) = SubSeq(room, 1, e + 1)
      BY <1>5, <3>1
    <3> QED BY <3>1, <3>2 DEF e
  <2> QED BY <2>1, <2>2
<1> HIDE DEF room, m, slots, s
<1>8. G(f1)
  <2> DEFINE g == [i \in 0 .. Len(s.slots) |->
                     IF i = 0 THEN <<>>
                     ELSE IF s.slots[i].call.id # "" THEN Append(f1[i - 1], s.slots[i].call)
                     ELSE f1[i - 1]]
  <2>1. \A i \in 0 .. m : f1[i] = SubSeq(room, 1, i)
    OBVIOUS
  <2>2. \A i \in 1 .. m : i - 1 \in 0 .. m /\ i # 0
    BY <1>1
  <2>3. DOMAIN f1 = 0 .. m /\ Len(s.slots) = m
    BY <1>1, <1>2
  <2>4. ASSUME NEW i \in 0 .. m
        PROVE  f1[i] = IF i = 0 THEN <<>>
                       ELSE IF s.slots[i].call.id # "" THEN Append(f1[i - 1], s.slots[i].call)
                       ELSE f1[i - 1]
    <3> HIDE DEF f1
    <3>1. CASE i = 0
      BY <1>7, <2>1, <3>1
    <3>2. CASE i # 0
      <4>1. i \in 1 .. m
        BY <1>1, <3>2
      <4>2. slots[i].call.id # "" /\ slots[i].call = room[i] /\ i - 1 \in 0 .. m
        BY <1>6, <2>2, <4>1
      <4>3. f1[i - 1] = SubSeq(room, 1, i - 1) /\ f1[i] = SubSeq(room, 1, i)
        BY <2>1, <4>2
      <4>4. f1[i] = Append(f1[i - 1], slots[i].call)
        BY <1>7, <4>1, <4>2, <4>3
      <4> QED BY <1>2, <3>2, <4>2, <4>4
    <3> QED BY <3>1, <3>2
  <2>5. f1 = g
    BY <2>3, <2>4
  <2> QED BY <2>5
<1>9. G(f0)
  <2> HIDE DEF G, f1
  <2> QED BY <1>8
<1> HIDE DEF f0, f1
<1>10. Len(s.slots) = m
  BY <1>1, <1>2
<1>11. \A i \in 0 .. m : f0[i] = IF i = 0 THEN <<>>
                                 ELSE IF s.slots[i].call.id # "" THEN Append(f0[i - 1], s.slots[i].call)
                                 ELSE f0[i - 1]
  BY <1>9, <1>10, Zenon
<1> HIDE DEF G
<1> DEFINE T == {i \in 0 .. m : f0[i] = SubSeq(room, 1, i)}
<1>12. 0 \in T
  <2>1. 0 \in 0 .. m
    BY <1>1
  <2>2. f0[0] = <<>>
    BY <1>11, <2>1, Zenon
  <2>3. f0[0] = SubSeq(room, 1, 0)
    BY <1>7, <2>2, Zenon
  <2> QED BY <2>1, <2>3
<1>13. ASSUME NEW i \in 1 .. m, i - 1 \in T PROVE i \in T
  <2>1. f0[i - 1] = SubSeq(room, 1, i - 1) /\ i \in 0 .. m /\ i # 0
    BY <1>1, <1>13
  <2>2. slots[i].call.id # "" /\ slots[i].call = room[i]
    BY <1>6
  <2>3. f0[i] = Append(f0[i - 1], slots[i].call)
    BY <1>2, <1>11, <2>1, <2>2
  <2>4. f0[i] = SubSeq(room, 1, i)
    BY <1>7, <2>1, <2>2, <2>3
  <2> QED BY <2>1, <2>4
<1>14. f0[m] = room
  <2>1. \A i \in 0 .. m : i \in T
    <3> HIDE DEF T
    <3> QED BY <1>1, <1>12, <1>13, UpTo
  <2>2. m \in T
    BY <1>1, <2>1
  <2> QED BY <1>7, <2>2
<1> QED BY <1>3, <1>10, <1>14 DEF s, slots, room

\* An answer received whole is what was expected.
LEMMA CollectsWhole ==
  ASSUME req \in Requests, NEW off \in Int
  PROVE  /\ req.streaming => Collected(WholeOf("merge", req.answer, off)) = Expected(req)
         /\ req.unasked => Collected(WholeOf("read", req.answer, off)) = Expected(req)
<1> DEFINE a == req.answer
           calls == a.calls
<1>1. calls \in Seq(Calling) /\ (req.unasked => ~req.streaming)
  BY AnswerParts
<1> HIDE DEF calls
<1>2. \A x, y, v : Collected(St(x, y, Full(calls, off, Len(calls)), v)) = Message(x, y, Room(calls), v)
  BY <1>1, CollectsRoom
<1>3. WholeOf("merge", a, off) = St(a.content, a.reasoning, Full(calls, off, Len(calls)), a.usage)
  BY DEF WholeOf, Thought, Spent, calls
<1>4. WholeOf("read", a, off) = St(a.content, <<>>, Full(calls, off, Len(calls)), NoUsage)
  <2>1. "read" # "merge"
    OBVIOUS
  <2> QED BY <2>1 DEF WholeOf, Thought, Spent, calls
<1>5. Collected(WholeOf("merge", a, off)) = Message(a.content, a.reasoning, Room(calls), a.usage)
  BY <1>2, <1>3
<1>6. Collected(WholeOf("read", a, off)) = Message(a.content, <<>>, Room(calls), NoUsage)
  BY <1>2, <1>4
<1> QED BY <1>1, <1>5, <1>6 DEF Expected, calls

\* The merger makes of a whole stream what was expected.
LEMMA StreamMerges ==
  ASSUME req \in Requests, req.streaming, NEW h,
         Runs(h, "merge", NothingYet, EventsOf[req], Len(EventsOf[req]))
  PROVE  Collected(h[Len(EventsOf[req])]) = Expected(req)
<1> DEFINE seq == EventsOf[req]
<1>1. PICK off \in Int : Goes("merge", NothingYet, seq, WholeOf("merge", req.answer, off))
  BY StreamGoes
<1>2. seq \in Seq(EventRecord)
  BY EventsSeq
<1>3. Runs(h, "merge", NothingYet, seq, Len(seq))
  OBVIOUS
<1> HIDE DEF seq
<1>4. h[Len(seq)] = WholeOf("merge", req.answer, off)
  BY <1>1, <1>2, <1>3, GoesTo
<1>5. Collected(WholeOf("merge", req.answer, off)) = Expected(req)
  BY CollectsWhole
<1> QED BY <1>4, <1>5 DEF seq

\* So does the reader of a body that turns out to be a stream.
LEMMA BodyReads ==
  ASSUME req \in Requests, req.unasked
  PROVE  agent_parse_response_body(req.provider, EventsOf[req], MaxCalls) = Expected(req)
<1> DEFINE seq == EventsOf[req]
           n == Len(seq)
           G(f) == f = [i \in 0 .. n |-> IF i = 0 THEN NothingYet
                                         ELSE ReadEvent(f[i - 1], req.provider, seq[i], MaxCalls)]
           f0 == CHOOSE f : G(f)
<1>1. PICK off \in Int : Goes("read", NothingYet, seq, WholeOf("read", req.answer, off))
  BY StreamGoes
<1>2. seq \in Seq(EventRecord)
  BY EventsSeq
<1> HIDE DEF seq
<1>3. n \in Nat
  BY <1>2
<1>4. agent_parse_response_body(req.provider, seq, MaxCalls) = Collected(f0[n])
  BY Zenon DEF agent_parse_response_body
<1>5. \A f : Chain(f, "read", NothingYet, seq, n) <=> G(f)
  <2>1. \A s, x : Apply("read", s, x) = ReadEvent(s, req.provider, x, MaxCalls)
    BY DEF Apply
  <2> QED BY <2>1, Zenon DEF Chain
<1>6. \E f : G(f)
  <2> HIDE DEF G, n
  <2> QED BY <1>3, <1>5, ChainExists
<1>7. G(f0)
  <2> HIDE DEF G
  <2> QED BY <1>6
<1> HIDE DEF G, f0
<1>8. Chain(f0, "read", NothingYet, seq, n)
  BY <1>5, <1>7
<1>9. Runs(f0, "read", NothingYet, seq, n)
  BY <1>3, <1>8, ChainRuns
<1>10. f0[Len(seq)] = WholeOf("read", req.answer, off)
  BY <1>1, <1>2, <1>9, GoesTo
<1>11. Collected(WholeOf("read", req.answer, off)) = Expected(req)
  BY CollectsWhole
<1> QED BY <1>4, <1>10, <1>11 DEF seq

\* A body that is no stream is read whole or not at all.
LEMMA WholeReads ==
  ASSUME req \in Requests, ~req.streaming, ~req.unasked,
         parse_response(req.provider, req.answer, FALSE) # <<>>
  PROVE  parse_response(req.provider, req.answer, FALSE) = <<Expected(req)>>
<1> DEFINE a == req.answer
<1>1. Expected(req) = Message(a.content, a.reasoning, a.calls, a.usage)
  BY DEF Expected
<1>2. /\ a.kind \in {"answer", "error", "empty"}
      /\ a.kind = "empty" => a.content = <<>> /\ a.reasoning = <<>> /\ a.calls = <<>> /\ a.usage = NoUsage
  BY RequestAssumption
<1> HIDE DEF a
<1>3. CASE a.kind = "answer"
  BY <1>1, <1>3 DEF parse_response, anthropic_parse_response, deepseek_parse_response, a
<1>4. CASE a.kind = "error"
  BY <1>4 DEF parse_response, anthropic_parse_response, deepseek_parse_response, a
<1>5. CASE a.kind = "empty"
  BY <1>1, <1>2, <1>5 DEF parse_response, anthropic_parse_response, deepseek_parse_response, a
<1> QED BY <1>2, <1>3, <1>4, <1>5

-----------------------------------------------------------------------------
(* The parser                                                                  *)

\* The merger, event by event.
IsMerging(r, h) ==
  /\ h[0] = NothingYet
  /\ \A j \in 1 .. Count(r) : h[j] = Receive(h[j - 1], r.provider, EventsOf[r][j], MaxCalls)
  /\ r.streaming => Collected(h[Count(r)]) = Expected(r)
Merging(r) == CHOOSE h : IsMerging(r, h)

\* It makes of a whole stream what was expected.
LEMMA MergingIs ==
  ASSUME req \in Requests
  PROVE  IsMerging(req, Merging(req))
<1>1. \E h : IsMerging(req, h)
  <2>1. Len(EventsOf[req]) \in Nat
    BY EventsSeq
  <2>2. PICK h : Runs(h, "merge", NothingYet, EventsOf[req], Len(EventsOf[req]))
    BY <2>1, RunExists
  <2>3. req.streaming => Collected(h[Len(EventsOf[req])]) = Expected(req)
    BY <2>2, StreamMerges
  <2>4. \A j, s, x : Apply("merge", s, x) = Receive(s, req.provider, x, MaxCalls)
    BY DEF Apply
  <2>5. IsMerging(req, h)
    BY <2>2, <2>3, <2>4, Zenon DEF IsMerging, Runs, Count
  <2> QED BY <2>5
<1> QED BY <1>1, Zenon DEF Merging

\* The parser behind e events and c pieces of the next one.
Quarter(r, e, c) ==
  [line   |-> IF c = 1 THEN <<Half(e + 1, 1)>>
              ELSE IF c = 2 THEN <<Half(e + 1, 1), Half(e + 1, 2)>> ELSE <<>>,
   data   |-> IF c = 3 THEN <<Half(e + 1, 1), Half(e + 1, 2)>> ELSE <<>>,
   rx     |-> Merging(r)[e],
   events |-> [i \in 1 .. e |-> i]]

\* The parser behind k pieces of a stream.
ParserAt(r, k) ==
  IF k < 2 THEN [line |-> IF k = 1 THEN <<Comment>> ELSE <<>>, data |-> <<>>,
                 rx |-> NothingYet, events |-> <<>>]
  ELSE Quarter(r, (k - 2) \div 4, (k - 2) % 4)

\* One piece of an event takes the parser on by a quarter of it.
LEMMA FeedQuarter ==
  ASSUME req \in Requests, NEW e \in Nat, e < Count(req), NEW c \in 0 .. 3
  PROVE  sse_parser_feed(Quarter(req, e, c), PiecesOfEvent(e + 1)[1 + c])
           = IF c = 3 THEN Quarter(req, e + 1, 0) ELSE Quarter(req, e, c + 1)
<1> DEFINE m == Merging(req)
           s == Quarter(req, e, c)
           a == Half(e + 1, 1)
           b == Half(e + 1, 2)
           ev == [i \in 1 .. e |-> i]
<1>0. Count(req) \in Nat /\ e + 1 \in 1 .. Count(req)
  BY EventsSeq DEF Count
<1>1. a # NL /\ b # NL /\ a.kind = "half" /\ a.event = e + 1
  BY Tokens
<1>2. CASE c = 0
  <2>1. s = [line |-> <<>>, data |-> <<>>, rx |-> m[e], events |-> ev]
    BY <1>2 DEF Quarter
  <2>2. Quarter(req, e, c + 1) = [line |-> <<a>>, data |-> <<>>, rx |-> m[e], events |-> ev]
    BY <1>2 DEF Quarter
  <2>3. PiecesOfEvent(e + 1)[1 + c] = a
    BY <1>2 DEF PiecesOfEvent
  <2> HIDE DEF s, a, m, ev
  <2>4. sse_parser_feed(s, a) = [line |-> <<a>>, data |-> <<>>, rx |-> m[e], events |-> ev]
    BY <1>1, <2>1 DEF sse_parser_feed
  <2> QED BY <1>2, <2>2, <2>3, <2>4 DEF s
<1>3. CASE c = 1
  <2>1. s = [line |-> <<a>>, data |-> <<>>, rx |-> m[e], events |-> ev]
    BY <1>3 DEF Quarter
  <2>2. Quarter(req, e, c + 1) = [line |-> <<a, b>>, data |-> <<>>, rx |-> m[e], events |-> ev]
    BY <1>3 DEF Quarter
  <2>3. PiecesOfEvent(e + 1)[1 + c] = b
    BY <1>3 DEF PiecesOfEvent
  <2> HIDE DEF s, a, b, m, ev
  <2>4. sse_parser_feed(s, b) = [line |-> <<a, b>>, data |-> <<>>, rx |-> m[e], events |-> ev]
    BY <1>1, <2>1 DEF sse_parser_feed
  <2> QED BY <1>3, <2>2, <2>3, <2>4 DEF s
<1>4. CASE c = 2
  <2>1. s = [line |-> <<a, b>>, data |-> <<>>, rx |-> m[e], events |-> ev]
    BY <1>4 DEF Quarter
  <2>2. Quarter(req, e, c + 1) = [line |-> <<>>, data |-> <<a, b>>, rx |-> m[e], events |-> ev]
    BY <1>4 DEF Quarter
  <2>3. PiecesOfEvent(e + 1)[1 + c] = NL
    BY <1>4 DEF PiecesOfEvent
  <2> HIDE DEF s, a, b, m, ev
  <2>4. s.line # <<>> /\ Head(s.line).kind # "comment"
    BY <1>1, <2>1
  <2>5. process_line(s) = [s EXCEPT !.data = @ \o s.line, !.line = <<>>]
    BY <2>4, Zenon DEF process_line
  <2>6. <<>> \o <<a, b>> = <<a, b>>
    OBVIOUS
  <2>7. process_line(s) = [line |-> <<>>, data |-> <<a, b>>, rx |-> m[e], events |-> ev]
    BY <2>1, <2>5, <2>6
  <2>8. sse_parser_feed(s, NL) = process_line(s)
    BY DEF sse_parser_feed
  <2> QED BY <1>4, <2>2, <2>3, <2>7, <2>8 DEF s
<1>5. CASE c = 3
  <2>1. s = [line |-> <<>>, data |-> <<a, b>>, rx |-> m[e], events |-> ev]
    BY <1>5 DEF Quarter
  <2>2. Quarter(req, e + 1, 0) = [line |-> <<>>, data |-> <<>>, rx |-> m[e + 1],
                                  events |-> [i \in 1 .. e + 1 |-> i]]
    BY DEF Quarter
  <2>3. PiecesOfEvent(e + 1)[1 + c] = NL
    BY <1>5 DEF PiecesOfEvent
  <2>4. m[e + 1] = Receive(m[e], req.provider, EventsOf[req][e + 1], MaxCalls)
    <3>1. (e + 1) - 1 = e
      OBVIOUS
    <3>2. \A j \in 1 .. Count(req) : m[j] = Receive(m[j - 1], req.provider, EventsOf[req][j], MaxCalls)
      BY MergingIs DEF IsMerging
    <3> QED BY <1>0, <3>1, <3>2
  <2>5. Append(ev, e + 1) = [i \in 1 .. e + 1 |-> i]
    OBVIOUS
  <2> HIDE DEF s, a, b, m, ev
  <2>6. s.line = <<>> /\ s.data # <<>> /\ s.data[1].event = e + 1
    BY <1>1, <2>1
  <2>7. process_line(s) = dispatch_event(s)
    BY <2>6, Zenon DEF process_line
  <2>8. dispatch_event(s) = [s EXCEPT !.data = <<>>, !.events = Append(@, e + 1),
                     !.rx = Receive(@, req.provider, EventsOf[req][e + 1], MaxCalls)]
    BY <2>6 DEF dispatch_event
  <2>9. dispatch_event(s) = [line |-> <<>>, data |-> <<>>, rx |-> m[e + 1], events |-> Append(ev, e + 1)]
    BY <2>1, <2>4, <2>8
  <2>10. sse_parser_feed(s, NL) = process_line(s)
    BY DEF sse_parser_feed
  <2> QED BY <1>5, <2>2, <2>3, <2>5, <2>7, <2>9, <2>10 DEF s
<1> QED BY <1>2, <1>3, <1>4, <1>5

\* One piece takes the parser from k to k + 1.
LEMMA FeedPiece ==
  ASSUME req \in Requests, req.streaming, NEW k \in 0 .. Size(req) - 1
  PROVE  sse_parser_feed(ParserAt(req, k), PiecesOf[req][k + 1]) = ParserAt(req, k + 1)
<1>1. ~req.unasked /\ IsStream(req) /\ Base(req) = 2
  BY RequestAssumption DEF IsStream, Base
<1>2. /\ Size(req) = 2 + 4 * Count(req) /\ Count(req) \in Nat
      /\ PiecesOf[req][1] = Comment /\ PiecesOf[req][2] = NL
      /\ \A i \in 0 .. 4 * Count(req) - 1 :
           PiecesOf[req][2 + i + 1] = PiecesOfEvent((i \div 4) + 1)[1 + (i % 4)]
  BY <1>1, PiecesShape
<1>3. CASE k = 0
  <2>1. ParserAt(req, k) = [line |-> <<>>, data |-> <<>>, rx |-> NothingYet, events |-> <<>>]
    BY <1>3 DEF ParserAt
  <2>2. ParserAt(req, k + 1) = [line |-> <<Comment>>, data |-> <<>>, rx |-> NothingYet, events |-> <<>>]
    BY <1>3 DEF ParserAt
  <2>3. PiecesOf[req][k + 1] = Comment /\ Comment # NL
    BY <1>2, <1>3, Tokens
  <2> QED BY <2>1, <2>2, <2>3 DEF sse_parser_feed
<1>4. CASE k = 1
  <2> DEFINE s == ParserAt(req, k)
  <2>1. s = [line |-> <<Comment>>, data |-> <<>>, rx |-> NothingYet, events |-> <<>>]
    BY <1>4 DEF ParserAt
  <2>2. ParserAt(req, k + 1) = [line |-> <<>>, data |-> <<>>, rx |-> NothingYet, events |-> <<>>]
    <3>1. ParserAt(req, 2) = Quarter(req, 0, 0)
      BY DEF ParserAt
    <3>2. Merging(req)[0] = NothingYet
      BY MergingIs DEF IsMerging
    <3>3. [i \in 1 .. 0 |-> i] = <<>>
      OBVIOUS
    <3> QED BY <1>4, <3>1, <3>2, <3>3 DEF Quarter
  <2>3. PiecesOf[req][k + 1] = NL
    BY <1>2, <1>4
  <2> HIDE DEF s
  <2>4. s.line # <<>> /\ Head(s.line).kind = "comment"
    BY <2>1, Tokens
  <2>5. process_line(s) = [s EXCEPT !.line = <<>>]
    BY <2>4, Zenon DEF process_line
  <2>6. sse_parser_feed(s, NL) = process_line(s)
    BY DEF sse_parser_feed
  <2>7. sse_parser_feed(s, NL) = [line |-> <<>>, data |-> <<>>, rx |-> NothingYet, events |-> <<>>]
    BY <2>1, <2>5, <2>6
  <2> QED BY <2>2, <2>3, <2>7 DEF s
<1>5. CASE k >= 2
  <2> DEFINE i == k - 2
             e == i \div 4
             c == i % 4
  <2>1. i \in Nat /\ i \in 0 .. 4 * Count(req) - 1 /\ k = 2 + i /\ 2 + i + 1 = k + 1 /\ (k + 1) - 2 = i + 1
    BY <1>2, <1>5
  <2>2. /\ e \in Nat /\ c \in 0 .. 3 /\ i = 4 * e + c
        /\ (i + 1) \div 4 = (IF c = 3 THEN e + 1 ELSE e)
        /\ (i + 1) % 4 = (IF c = 3 THEN 0 ELSE c + 1)
    BY <2>1, Quarters
  <2>3. ParserAt(req, k) = Quarter(req, e, c)
    BY <1>5 DEF ParserAt
  <2>4. ParserAt(req, k + 1) = Quarter(req, (i + 1) \div 4, (i + 1) % 4)
    BY <1>5, <2>1 DEF ParserAt
  <2>5. PiecesOf[req][k + 1] = PiecesOfEvent(e + 1)[1 + c]
    BY <1>2, <2>1
  <2> HIDE DEF e, c
  <2>6. e < Count(req)
    BY <1>2, <2>1, <2>2
  <2>7. sse_parser_feed(Quarter(req, e, c), PiecesOfEvent(e + 1)[1 + c])
           = IF c = 3 THEN Quarter(req, e + 1, 0) ELSE Quarter(req, e, c + 1)
    BY <2>2, <2>6, FeedQuarter
  <2> QED BY <2>2, <2>3, <2>4, <2>5, <2>7
<1> QED BY <1>3, <1>4, <1>5

\* So a run of pieces takes it from k to where the run ends.
LEMMA FeedPieces ==
  ASSUME req \in Requests, req.streaming, NEW seq \in Seq(Token), NEW k \in Nat,
         k + Len(seq) <= Size(req), \A j \in 1 .. Len(seq) : seq[j] = PiecesOf[req][k + j]
  PROVE  FoldLeft(sse_parser_feed, ParserAt(req, k), seq) = ParserAt(req, k + Len(seq))
<1> DEFINE n == Len(seq)
           s0 == ParserAt(req, k)
<1>1. n \in Nat /\ Size(req) \in Nat
  BY PiecesShape
<1> HIDE DEF s0
<1>2. PICK h : Runs(h, "feed", s0, seq, n) /\ FoldLeft(sse_parser_feed, s0, seq) = h[n]
  BY FeedRuns
<1> DEFINE T == {j \in 0 .. n : h[j] = ParserAt(req, k + j)}
<1>3. 0 \in T
  <2>1. h[0] = s0 /\ k + 0 = k
    BY <1>2 DEF Runs
  <2> QED BY <1>1, <2>1 DEF s0
<1>4. ASSUME NEW j \in 1 .. n, j - 1 \in T PROVE j \in T
  <2>1. h[j] = Apply("feed", h[j - 1], seq[j])
    BY <1>2 DEF Runs
  <2>2. h[j] = sse_parser_feed(h[j - 1], seq[j])
    BY <2>1 DEF Apply
  <2> DEFINE i == k + (j - 1)
  <2>3. i \in 0 .. Size(req) - 1 /\ i + 1 = k + j
    BY <1>1
  <2>4. h[j - 1] = ParserAt(req, i) /\ seq[j] = PiecesOf[req][i + 1]
    BY <1>4, <2>3
  <2> HIDE DEF i
  <2>5. sse_parser_feed(ParserAt(req, i), PiecesOf[req][i + 1]) = ParserAt(req, i + 1)
    BY <2>3, FeedPiece
  <2> QED BY <2>2, <2>3, <2>4, <2>5
<1>5. n \in T
  <2> HIDE DEF T
  <2>1. \A j \in 0 .. n : j \in T
    BY <1>1, <1>3, <1>4, UpTo
  <2> QED BY <1>1, <2>1
<1> QED BY <1>2, <1>5 DEF s0

LEMMA PrefixAppend ==
  ASSUME NEW S, NEW s \in Seq(S), NEW e \in Nat, e < Len(s)
  PROVE  Append(SubSeq(s, 1, e), s[e + 1]) = SubSeq(s, 1, e + 1)
OBVIOUS

\* What is read of a body that turns out to be a stream: its events, up to the
\* last whole data line.
LEMMA ParsedEvents ==
  ASSUME req \in Requests, req.unasked, NEW k \in 0 .. Size(req),
         body = SubSeq(PiecesOf[req], 1, k)
  PROVE  /\ (k + 2) \div 4 \in 0 .. Count(req)
         /\ Parsed = SubSeq(EventsOf[req], 1, (k + 2) \div 4)
<1> DEFINE E == EventsOf[req]
           P == PiecesOf[req]
<1>0. IsStream(req) /\ Base(req) = 0
  BY DEF IsStream, Base
<1>1. /\ E \in Seq(EventRecord) /\ Len(E) = Count(req) /\ Count(req) \in Nat
      /\ P \in Seq(Token) /\ Len(P) = Size(req) /\ Size(req) = 4 * Count(req)
  BY <1>0, PiecesShape, EventsSeq DEF Count, Size
<1>2. \A i \in 0 .. 4 * Count(req) - 1 : P[i + 1] = PiecesOfEvent((i \div 4) + 1)[1 + (i % 4)]
  <2>1. \A i \in 0 .. 4 * Count(req) - 1 : P[Base(req) + i + 1] = PiecesOfEvent((i \div 4) + 1)[1 + (i % 4)]
    BY <1>0, PiecesShape
  <2>2. \A i \in 0 .. 4 * Count(req) - 1 : Base(req) + i + 1 = i + 1
    BY <1>0, <1>1
  <2> QED BY <2>1, <2>2
<1> HIDE DEF E, P
<1>3. /\ body \in Seq(Token) /\ Len(body) = k /\ k \in Nat
      /\ \A j \in 1 .. k : body[j] = P[j]
  BY <1>1 DEF P
<1>4. PICK h : Runs(h, "parse", <<>>, body, Len(body)) /\ Parsed = h[Len(body)]
  BY <1>3, ParseRuns
<1> DEFINE N(j) == (j + 2) \div 4
           T == {j \in 0 .. k : h[j] = SubSeq(E, 1, N(j))}
<1>5. 0 \in T
  <2>1. h[0] = <<>> /\ N(0) = 0
    BY <1>4 DEF Runs
  <2>2. SubSeq(E, 1, 0) = <<>>
    BY <1>1
  <2> HIDE DEF N
  <2>3. h[0] = SubSeq(E, 1, N(0))
    BY <2>1, <2>2, Zenon
  <2> QED BY <1>3, <2>3
<1>6. ASSUME NEW j \in 1 .. k, j - 1 \in T PROVE j \in T
  <2> DEFINE i == j - 1
             e == i \div 4
             c == i % 4
  <2>1. i \in Nat /\ i \in 0 .. 4 * Count(req) - 1 /\ j = i + 1
    BY <1>1, <1>3
  <2>2. e \in Nat /\ c \in 0 .. 3 /\ i = 4 * e + c
    BY <2>1, Quarters
  <2>3. body[j] = PiecesOfEvent(e + 1)[1 + c]
    BY <1>2, <1>3, <2>1
  <2>4. h[i] = SubSeq(E, 1, N(i))
    BY <1>6
  <2>5. h[j] = Apply("parse", h[i], body[j])
    BY <1>3, <1>4 DEF Runs
  <2> HIDE DEF e, c, i
  <2>6. e < Count(req)
    BY <1>1, <2>1, <2>2
  <2>7. /\ c = 1 => N(i) = e /\ N(j) = e + 1
        /\ c # 1 => N(i) = N(j)
    BY <2>1, <2>2
  <2> HIDE DEF N
  <2>8. CASE c = 1
    <3>1. body[j] = Half(e + 1, 2)
      BY <2>3, <2>8 DEF PiecesOfEvent
    <3>2. Apply("parse", h[i], body[j]) = Append(h[i], E[e + 1])
      BY <3>1, Tokens DEF Apply, E
    <3>3. h[i] = SubSeq(E, 1, e) /\ N(j) = e + 1
      BY <2>4, <2>7, <2>8
    <3>4. Append(SubSeq(E, 1, e), E[e + 1]) = SubSeq(E, 1, e + 1)
      <4>1. e < Len(E)
        BY <1>1, <2>6
      <4> QED BY <1>1, <2>2, <4>1, PrefixAppend, Zenon
    <3>5. h[j] = SubSeq(E, 1, N(j))
      BY <2>5, <3>2, <3>3, <3>4, Zenon
    <3> QED BY <3>5
  <2>9. CASE c # 1
    <3>1. ~(body[j].kind = "half" /\ body[j].half = 2)
      <4>1. body[j] \in {Half(e + 1, 1), NL}
        BY <2>2, <2>3, <2>9 DEF PiecesOfEvent
      <4>2. Half(e + 1, 1).half = 1 /\ NL.kind = "newline"
        BY Tokens
      <4> QED BY <4>1, <4>2
    <3>2. Apply("parse", h[i], body[j]) = h[i]
      BY <3>1 DEF Apply
    <3>3. N(i) = N(j)
      BY <2>7, <2>9
    <3> QED BY <2>4, <2>5, <3>2, <3>3
  <2> QED BY <2>8, <2>9
<1>7. k \in T
  <2> HIDE DEF T
  <2>1. \A j \in 0 .. k : j \in T
    BY <1>3, <1>5, <1>6, UpTo
  <2> QED BY <1>3, <2>1
<1>8. (k + 2) \div 4 \in 0 .. Count(req)
  BY <1>1, <1>3
<1> QED BY <1>3, <1>4, <1>7, <1>8 DEF E

-----------------------------------------------------------------------------
(* The stream of tokens, from what the client reads next to what the service    *)
(* sends next                                                                  *)

Node(at, k, l) == [at |-> at, k |-> k, left |-> l]
NodeSet(r) == [at : {"status", "header", "blank", "body", "mark", "last", "over"},
               k : 0 .. Size(r), left : 0 .. Size(r)]

\* Token t leads from a to b.
Edge(r, a, t, b) ==
  \/ a.at = "status" /\ t = [kind |-> "status"] /\ b = Node("header", 0, 0)
  \/ a.at = "header" /\ t = [kind |-> "header"] /\ b = Node("blank", 0, 0)
  \/ a.at = "blank" /\ t = [kind |-> "blank"] /\ b = Node("body", 0, 0)
  \/ /\ a.at = "body" /\ a.k < Size(r) /\ r.framing # "chunked"
     /\ t = PiecesOf[r][a.k + 1] /\ b = Node("body", a.k + 1, 0)
  \/ /\ a.at = "body" /\ a.k < Size(r) /\ r.framing = "chunked" /\ a.left > 0
     /\ t = PiecesOf[r][a.k + 1]
     /\ b = Node(IF a.left = 1 THEN "mark" ELSE "body", a.k + 1, a.left - 1)
  \/ /\ a.at = "body" /\ r.framing = "chunked" /\ a.left = 0
     /\ \E n \in 1 .. Size(r) - a.k : t = [kind |-> "size", size |-> n] /\ b = Node("body", a.k, n)
  \/ a.at = "mark" /\ t = NL /\ b = Node("body", a.k, 0)
  \/ /\ a.at = "body" /\ r.framing = "chunked" /\ a.left = 0 /\ a.k = Size(r)
     /\ t = [kind |-> "size", size |-> 0] /\ b = Node("last", a.k, 0)
  \/ a.at = "last" /\ t = NL /\ b = Node("over", a.k, 0)

Path(r, p, w) ==
  /\ p \in [0 .. Len(w) -> NodeSet(r)]
  /\ \A i \in 1 .. Len(w) : Edge(r, p[i - 1], w[i], p[i])

Leads(r, a, w, b) == \E p : Path(r, p, w) /\ p[0] = a /\ p[Len(w)] = b

LEMMA LeadsNowhere ==
  ASSUME NEW r \in Requests
  PROVE  /\ \A a \in NodeSet(r) : Leads(r, a, <<>>, a)
         /\ \A a, b : Leads(r, a, <<>>, b) => a = b
<1>1. ASSUME NEW a \in NodeSet(r) PROVE Leads(r, a, <<>>, a)
  <2> DEFINE p == [i \in 0 .. 0 |-> a]
  <2>1. Path(r, p, <<>>) /\ p[0] = a /\ p[Len(<<>>)] = a
    BY DEF Path
  <2> QED BY <2>1 DEF Leads
<1>2. ASSUME NEW a, NEW b, Leads(r, a, <<>>, b) PROVE a = b
  BY <1>2 DEF Leads
<1> QED BY <1>1, <1>2

\* What is sent makes the path longer, what is read makes it shorter.
LEMMA LeadsOn ==
  ASSUME NEW r \in Requests, NEW w \in Seq(Token), NEW a, NEW b, Leads(r, a, w, b),
         NEW t \in Token, NEW c \in NodeSet(r), Edge(r, b, t, c)
  PROVE  Leads(r, a, Append(w, t), c)
<1>1. PICK p : Path(r, p, w) /\ p[0] = a /\ p[Len(w)] = b
  BY DEF Leads
<1> DEFINE n == Len(w)
           v == Append(w, t)
           q == [i \in 0 .. n + 1 |-> IF i <= n THEN p[i] ELSE c]
<1>2. n \in Nat /\ Len(v) = n + 1 /\ v[n + 1] = t /\ \A i \in 1 .. n : v[i] = w[i]
  OBVIOUS
<1>3. p \in [0 .. n -> NodeSet(r)] /\ \A i \in 1 .. n : Edge(r, p[i - 1], w[i], p[i])
  BY <1>1 DEF Path
<1>4. q \in [0 .. n + 1 -> NodeSet(r)]
  BY <1>2, <1>3
<1>5. q[0] = a /\ q[n + 1] = c /\ \A i \in 0 .. n : q[i] = p[i]
  BY <1>1, <1>2
<1> HIDE DEF q, v
<1>6. ASSUME NEW i \in 1 .. n + 1 PROVE Edge(r, q[i - 1], v[i], q[i])
  <2>1. CASE i \in 1 .. n
    <3>1. q[i - 1] = p[i - 1] /\ q[i] = p[i] /\ v[i] = w[i]
      BY <1>2, <1>5, <2>1
    <3> QED BY <1>3, <2>1, <3>1
  <2>2. CASE i = n + 1
    <3>1. q[i - 1] = b /\ q[i] = c /\ v[i] = t
      BY <1>1, <1>2, <1>5, <2>2
    <3> QED BY <3>1
  <2> QED BY <1>2, <2>1, <2>2
<1>7. Path(r, q, v)
  BY <1>2, <1>4, <1>6 DEF Path
<1>8. Leads(r, a, v, c)
  BY <1>2, <1>5, <1>7 DEF Leads
<1> QED BY <1>8 DEF v

LEMMA LeadsSplit ==
  ASSUME NEW r \in Requests, NEW w \in Seq(Token), NEW a, NEW b, Leads(r, a, w, b),
         NEW n \in 0 .. Len(w)
  PROVE  \E c \in NodeSet(r) : /\ Leads(r, a, SubSeq(w, 1, n), c)
                               /\ Leads(r, c, SubSeq(w, n + 1, Len(w)), b)
<1>1. PICK p : Path(r, p, w) /\ p[0] = a /\ p[Len(w)] = b
  BY DEF Leads
<1> DEFINE m == Len(w)
           u == SubSeq(w, 1, n)
           v == SubSeq(w, n + 1, m)
           f == [i \in 0 .. n |-> p[i]]
           g == [i \in 0 .. m - n |-> p[n + i]]
<1>2. /\ m \in Nat /\ n \in Nat /\ Len(u) = n /\ Len(v) = m - n
      /\ (\A i \in 1 .. n : u[i] = w[i]) /\ (\A i \in 1 .. m - n : v[i] = w[n + i])
  OBVIOUS
<1>3. p \in [0 .. m -> NodeSet(r)] /\ \A i \in 1 .. m : Edge(r, p[i - 1], w[i], p[i])
  BY <1>1 DEF Path
<1>4. f \in [0 .. n -> NodeSet(r)] /\ g \in [0 .. m - n -> NodeSet(r)] /\ p[n] \in NodeSet(r)
  <2>1. \A i \in 0 .. m : p[i] \in NodeSet(r)
    BY <1>3
  <2>2. (\A i \in 0 .. n : i \in 0 .. m) /\ (\A i \in 0 .. m - n : n + i \in 0 .. m) /\ n \in 0 .. m
    BY <1>2
  <2> QED BY <2>1, <2>2
<1>5. /\ (\A i \in 0 .. n : f[i] = p[i]) /\ (\A i \in 0 .. m - n : g[i] = p[n + i])
      /\ f[0] = a /\ f[n] = p[n] /\ g[0] = p[n] /\ g[m - n] = b
  <2>1. (\A i \in 0 .. n : f[i] = p[i]) /\ (\A i \in 0 .. m - n : g[i] = p[n + i])
    OBVIOUS
  <2> HIDE DEF f, g
  <2>2. 0 \in 0 .. n /\ n \in 0 .. n /\ 0 \in 0 .. m - n /\ m - n \in 0 .. m - n
        /\ n + 0 = n /\ n + (m - n) = m
    BY <1>2
  <2>3. p[0] = a /\ p[m] = b
    BY <1>1
  <2>4. f[0] = p[0] /\ f[n] = p[n] /\ g[0] = p[n + 0] /\ g[m - n] = p[n + (m - n)]
    <3> HIDE DEF m
    <3> QED BY <2>1, <2>2
  <2>5. f[0] = a /\ f[n] = p[n] /\ g[0] = p[n] /\ g[m - n] = b
    BY <2>2, <2>3, <2>4
  <2> QED BY <2>1, <2>5
<1> HIDE DEF f, g, u, v
<1>6. ASSUME NEW i \in 1 .. n PROVE Edge(r, f[i - 1], u[i], f[i])
  <2>1. f[i - 1] = p[i - 1] /\ f[i] = p[i] /\ u[i] = w[i] /\ i \in 1 .. m
    BY <1>2, <1>5
  <2> QED BY <1>3, <2>1
<1>7. ASSUME NEW i \in 1 .. m - n PROVE Edge(r, g[i - 1], v[i], g[i])
  <2>1. /\ n + i \in 1 .. m /\ (n + i) - 1 = n + (i - 1) /\ v[i] = w[n + i]
        /\ g[i - 1] = p[n + (i - 1)] /\ g[i] = p[n + i]
    BY <1>2, <1>5
  <2>2. Edge(r, p[(n + i) - 1], w[n + i], p[n + i])
    BY <1>3, <2>1
  <2> QED BY <2>1, <2>2
<1>8. Path(r, f, u) /\ Path(r, g, v)
  BY <1>2, <1>4, <1>6, <1>7 DEF Path
<1>9. Leads(r, a, u, p[n]) /\ Leads(r, p[n], v, b)
  BY <1>2, <1>5, <1>8 DEF Leads
<1> QED BY <1>4, <1>9 DEF u, v

LEMMA EdgeFrom ==
  ASSUME NEW r \in Requests, NEW a \in NodeSet(r), NEW t, NEW b, Edge(r, a, t, b)
  PROVE  /\ a.at = "status" => t = [kind |-> "status"] /\ b = Node("header", 0, 0)
         /\ a.at = "header" => t = [kind |-> "header"] /\ b = Node("blank", 0, 0)
         /\ a.at = "blank" => t = [kind |-> "blank"] /\ b = Node("body", 0, 0)
         /\ a.at = "body" /\ r.framing # "chunked" =>
              a.k < Size(r) /\ t = PiecesOf[r][a.k + 1] /\ b = Node("body", a.k + 1, 0)
         /\ a.at = "body" /\ r.framing = "chunked" /\ a.left > 0 =>
              /\ a.k < Size(r) /\ t = PiecesOf[r][a.k + 1]
              /\ b = Node(IF a.left = 1 THEN "mark" ELSE "body", a.k + 1, a.left - 1)
         /\ a.at = "body" /\ r.framing = "chunked" /\ a.left = 0 =>
              \/ \E n \in 1 .. Size(r) - a.k : t = [kind |-> "size", size |-> n] /\ b = Node("body", a.k, n)
              \/ a.k = Size(r) /\ t = [kind |-> "size", size |-> 0] /\ b = Node("last", a.k, 0)
         /\ a.at = "mark" => t = NL /\ b = Node("body", a.k, 0)
         /\ a.at = "last" => t = NL /\ b = Node("over", a.k, 0)
         /\ a.at # "over"
<1>1. a.left \in Int /\ a.left >= 0 /\ (a.left > 0 => a.left # 0)
  BY PiecesShape DEF NodeSet
<1> QED BY <1>1 DEF Edge

LEMMA NodeParts ==
  ASSUME NEW at, NEW k, NEW l
  PROVE  Node(at, k, l).at = at /\ Node(at, k, l).k = k /\ Node(at, k, l).left = l
BY DEF Node

LEMMA LeadsFirst ==
  ASSUME NEW r \in Requests, NEW w \in Seq(Token), NEW a, NEW b, Leads(r, a, w, b), Len(w) >= 1
  PROVE  \E c \in NodeSet(r) : Edge(r, a, w[1], c) /\ Leads(r, c, SubSeq(w, 2, Len(w)), b)
<1>1. 1 \in 0 .. Len(w) /\ 1 + 1 = 2
  OBVIOUS
<1>2. PICK c \in NodeSet(r) : /\ Leads(r, a, SubSeq(w, 1, 1), c)
                              /\ Leads(r, c, SubSeq(w, 1 + 1, Len(w)), b)
  BY <1>1, LeadsSplit
<1>3. SubSeq(w, 1, 1) = <<w[1]>>
  <2>1. Len(w) \in Nat /\ 1 \in 1 .. Len(w)
    OBVIOUS
  <2> DEFINE v == SubSeq(w, 1, 1)
  <2>2. v \in Seq(Token) /\ Len(v) = 1 /\ v[1] = w[1]
    BY <2>1
  <2> HIDE DEF v
  <2>3. v = <<v[1]>>
    BY <2>2
  <2> QED BY <2>2, <2>3 DEF v
<1>4. PICK p : Path(r, p, <<w[1]>>) /\ p[0] = a /\ p[Len(<<w[1]>>)] = c
  BY <1>2, <1>3 DEF Leads
<1>5. Edge(r, p[1 - 1], <<w[1]>>[1], p[1]) /\ Len(<<w[1]>>) = 1
  BY <1>4 DEF Path
<1>6. Edge(r, a, w[1], c)
  BY <1>4, <1>5
<1> QED BY <1>1, <1>2, <1>6

\* Where a body has no chunks, all that comes is its pieces.
LEMMA PlainBody ==
  ASSUME NEW r \in Requests, NEW a \in NodeSet(r), a.at = "body", r.framing # "chunked",
         NEW w \in Seq(Token), NEW b \in NodeSet(r), Leads(r, a, w, b)
  PROVE  /\ b.at = "body" /\ b.k = a.k + Len(w) /\ a.k + Len(w) <= Size(r)
         /\ \A j \in 1 .. Len(w) : w[j] = PiecesOf[r][a.k + j]
<1>1. PICK p : Path(r, p, w) /\ p[0] = a /\ p[Len(w)] = b
  BY DEF Leads
<1> DEFINE n == Len(w)
<1>2. /\ n \in Nat /\ p \in [0 .. n -> NodeSet(r)] /\ a.k \in Nat /\ Size(r) \in Nat
      /\ \A i \in 1 .. n : Edge(r, p[i - 1], w[i], p[i])
  BY <1>1, PiecesShape DEF Path, NodeSet
<1> DEFINE T == {j \in 0 .. n : /\ p[j].at = "body" /\ p[j].k = a.k + j
                                /\ j > 0 => w[j] = PiecesOf[r][a.k + j]}
<1>3. 0 \in T
  BY <1>1, <1>2
<1>4. ASSUME NEW j \in 1 .. n, j - 1 \in T PROVE j \in T
  <2>1. p[j - 1].at = "body" /\ p[j - 1].k = a.k + (j - 1) /\ p[j - 1] \in NodeSet(r)
    BY <1>2, <1>4
  <2>2. Edge(r, p[j - 1], w[j], p[j])
    BY <1>2
  <2>3. w[j] = PiecesOf[r][p[j - 1].k + 1] /\ p[j] = Node("body", p[j - 1].k + 1, 0)
    BY <2>1, <2>2, EdgeFrom
  <2>4. p[j - 1].k + 1 = a.k + j
    BY <1>2, <2>1
  <2>5. p[j].at = "body" /\ p[j].k = a.k + j /\ w[j] = PiecesOf[r][a.k + j]
    BY <2>3, <2>4, NodeParts
  <2> QED BY <2>5
<1>5. \A j \in 0 .. n : j \in T
  <2> HIDE DEF T
  <2> QED BY <1>2, <1>3, <1>4, UpTo
<1>6. b.at = "body" /\ b.k = a.k + n
  BY <1>1, <1>2, <1>5
<1>7. \A j \in 1 .. n : w[j] = PiecesOf[r][a.k + j]
  BY <1>2, <1>5
<1>8. a.k + n <= Size(r)
  BY <1>2, <1>6 DEF NodeSet
<1> QED BY <1>6, <1>7, <1>8

\* In a chunk, what comes is its pieces, up to the mark behind it.
LEMMA ChunkBody ==
  ASSUME NEW r \in Requests, NEW a \in NodeSet(r), a.at = "body", r.framing = "chunked",
         NEW w \in Seq(Token), NEW b \in NodeSet(r), Leads(r, a, w, b), Len(w) <= a.left
  PROVE  /\ b.at = (IF Len(w) > 0 /\ Len(w) = a.left THEN "mark" ELSE "body")
         /\ b.k = a.k + Len(w) /\ a.k + Len(w) <= Size(r)
         /\ \A j \in 1 .. Len(w) : w[j] = PiecesOf[r][a.k + j]
<1>1. PICK p : Path(r, p, w) /\ p[0] = a /\ p[Len(w)] = b
  BY DEF Leads
<1> DEFINE n == Len(w)
<1>2. /\ n \in Nat /\ p \in [0 .. n -> NodeSet(r)] /\ a.k \in Nat /\ Size(r) \in Nat
      /\ a.left \in Nat
      /\ \A i \in 1 .. n : Edge(r, p[i - 1], w[i], p[i])
  BY <1>1, PiecesShape DEF Path, NodeSet
<1> DEFINE T == {j \in 0 .. n : /\ p[j].at = (IF j > 0 /\ j = a.left THEN "mark" ELSE "body")
                                /\ p[j].k = a.k + j /\ p[j].left = a.left - j
                                /\ j > 0 => w[j] = PiecesOf[r][a.k + j]}
<1>3. 0 \in T
  BY <1>1, <1>2
<1>4. ASSUME NEW j \in 1 .. n, j - 1 \in T PROVE j \in T
  <2>0. j - 1 < a.left /\ j - 1 # a.left /\ j - 1 \in 0 .. n /\ a.left - (j - 1) > 0
    BY <1>2
  <2>6. j - 1 \in T
    BY <1>4
  <2>7. p[j - 1].k = a.k + (j - 1) /\ p[j - 1].left = a.left - (j - 1)
    BY <2>6
  <2>8. p[j - 1].at = "body"
    BY <2>0, <2>6
  <2>9. p[j - 1] \in NodeSet(r)
    BY <1>2, <2>0
  <2>1. /\ p[j - 1].at = "body" /\ p[j - 1].k = a.k + (j - 1) /\ p[j - 1] \in NodeSet(r)
        /\ p[j - 1].left = a.left - (j - 1) /\ p[j - 1].left > 0
    BY <2>0, <2>7, <2>8, <2>9
  <2>2. Edge(r, p[j - 1], w[j], p[j])
    BY <1>2
  <2>3. /\ w[j] = PiecesOf[r][p[j - 1].k + 1]
        /\ p[j] = Node(IF p[j - 1].left = 1 THEN "mark" ELSE "body", p[j - 1].k + 1, p[j - 1].left - 1)
    BY <2>1, <2>2, EdgeFrom
  <2>4. /\ p[j - 1].k + 1 = a.k + j /\ p[j - 1].left - 1 = a.left - j
        /\ (p[j - 1].left = 1 <=> j = a.left)
    <3>1. /\ j \in Int /\ a.k \in Int /\ a.left \in Int
          /\ (a.k + (j - 1)) + 1 = a.k + j /\ (a.left - (j - 1)) - 1 = a.left - j
          /\ (a.left - (j - 1) = 1 <=> j = a.left)
      BY <1>2
    <3> QED BY <2>7, <3>1
  <2>5. /\ p[j].at = (IF j = a.left THEN "mark" ELSE "body") /\ p[j].k = a.k + j
        /\ p[j].left = a.left - j /\ w[j] = PiecesOf[r][a.k + j]
    BY <2>3, <2>4, NodeParts
  <2> QED BY <2>5
<1>5. \A j \in 0 .. n : j \in T
  <2> HIDE DEF T
  <2> QED BY <1>2, <1>3, <1>4, UpTo
<1>6. b.at = (IF n > 0 /\ n = a.left THEN "mark" ELSE "body") /\ b.k = a.k + n
  BY <1>1, <1>2, <1>5
<1>7. \A j \in 1 .. n : w[j] = PiecesOf[r][a.k + j]
  BY <1>2, <1>5
<1>8. a.k + n <= Size(r)
  BY <1>2, <1>6 DEF NodeSet
<1> QED BY <1>6, <1>7, <1>8

-----------------------------------------------------------------------------
(* The invariant                                                               *)

\* The client has got k pieces of the body.
Got(r, s, b, k) == IF r.streaming THEN s = ParserAt(r, k) ELSE b = SubSeq(PiecesOf[r], 1, k)
Taken == [line |-> line, data |-> data, rx |-> rx, events |-> events]
Received(k) == Got(req, Taken, body, k)

\* Where the service is in the stream of tokens.
SrvNode ==
  IF stage = "over"
    THEN IF req.framing = "chunked" THEN Node("over", Size(req), 0) ELSE Node("body", Size(req), 0)
    ELSE Node(stage, sent, left)
SrvInv ==
  /\ stage \in {"status", "header", "blank", "body", "over", "broken"}
  /\ sent \in 0 .. Size(req) /\ left \in 0 .. Size(req) - sent
  /\ left > 0 => req.framing = "chunked"
  /\ stage \in {"status", "header", "blank"} => sent = 0 /\ left = 0
  /\ stage = "over" => sent = Size(req)
  /\ open = (stage \notin {"over", "broken"})

\* Where the client is in it.
HereAt(r, at, f, n, a) ==
  /\ at \in {"connect", "status"} => a = Node("status", 0, 0) /\ f = "close"
  /\ at = "headers" => \/ a = Node("header", 0, 0) /\ f = "close"
                       \/ a = Node("blank", 0, 0) /\ f = r.framing /\ n = Size(r)
  /\ at = "size" => a.at = "body" /\ a.left = 0 /\ r.framing = "chunked"
  /\ at = "chunk" => a.at = "body" /\ a.left = n /\ n > 0 /\ r.framing = "chunked"
  /\ at = "chunk end" => a.at = "mark" /\ r.framing = "chunked"
  /\ at = "trailer" => a.at = "last" /\ a.k = Size(r) /\ n = 0
  /\ at = "block" => a.at = "body" /\ n = Size(r) - a.k /\ r.framing # "chunked"
  /\ at = "rest" => a.at = "body" /\ r.framing # "chunked"
Here(a) == HereAt(req, phase, framing, need, a)

\* What is under way leads from the client to the service.
Between(a, b) ==
  /\ a \in NodeSet(req) /\ b \in NodeSet(req) /\ Leads(req, a, wire, b)
  /\ Here(a) /\ Received(a.k)
  /\ stage # "broken" => b = SrvNode
Aligned == \E a, b : Between(a, b)

\* The connection broke in the middle, and the client knows or soon will.
Lost ==
  /\ stage = "broken" /\ wire = <<>>
  /\ phase \in {"size", "chunk end", "trailer", "block", "rest"}
  /\ phase = "block" => need \in Nat
  /\ \E k \in 0 .. Size(req) : Received(k)

\* The client read all it will read.
Done ==
  /\ phase = "close"
  /\ \E k \in 0 .. Size(req) :
       Received(k) /\ (k = Size(req) \/ (stage = "broken" /\ ~open) \/ ~req.tls)

Reading == phase \in {"connect", "status", "headers", "size", "chunk", "chunk end", "trailer",
                      "block", "rest"}
Good ==
  /\ ~woken
  /\ phase = "over" \/ Done \/ (Reading /\ wire \in Seq(Token) /\ SrvInv /\ (Lost \/ Aligned))

IInv ==
  /\ req \in Requests /\ flag \in BOOLEAN
  /\ ~flag => Good
  /\ outcome = "accepted" => phase = "over"
  /\ CutIsPrefix /\ StreamedEqualsWhole

\* What is delivered joins what was received.
LEMMA Delivers ==
  ASSUME req \in Requests, NEW k \in 0 .. Size(req), Received(k), NEW seq \in Seq(Token),
         k + Len(seq) <= Size(req), \A j \in 1 .. Len(seq) : seq[j] = PiecesOf[req][k + j],
         Deliver(seq)
  PROVE  Got(req, [line |-> line', data |-> data', rx |-> rx', events |-> events'], body', k + Len(seq))
<1>0. k \in Nat /\ Len(seq) \in Nat /\ Size(req) \in Nat /\ PiecesOf[req] \in Seq(Token)
  BY PiecesShape
<1>1. CASE req.streaming
  <2> DEFINE s == FoldLeft(sse_parser_feed, Taken, seq)
             m == k + Len(seq)
  <2>1. Taken = ParserAt(req, k)
    BY <1>1, Zenon DEF Received, Got
  <2>2. FoldLeft(sse_parser_feed, ParserAt(req, k), seq) = ParserAt(req, m)
    BY <1>0, <1>1, FeedPieces
  <2>3. s = ParserAt(req, m)
    BY <2>1, <2>2, Zenon
  <2>4. line' = s.line /\ data' = s.data /\ rx' = s.rx /\ events' = s.events
    BY <1>1, Zenon DEF Deliver, Taken
  <2> HIDE DEF s, m
  <2>5. ParserAt(req, m) = [line |-> ParserAt(req, m).line, data |-> ParserAt(req, m).data,
                            rx |-> ParserAt(req, m).rx, events |-> ParserAt(req, m).events]
    BY DEF ParserAt, Quarter
  <2>6. [line |-> line', data |-> data', rx |-> rx', events |-> events'] = ParserAt(req, m)
    BY <2>3, <2>4, <2>5, Zenon
  <2> QED BY <1>1, <2>6, Zenon DEF Got, m
<1>2. CASE ~req.streaming
  <2> DEFINE P == PiecesOf[req]
  <2>1. body = SubSeq(P, 1, k) /\ body' = body \o seq
    BY <1>2, Zenon DEF Received, Got, Deliver
  <2>2. P \in Seq(Token) /\ Len(P) = Size(req) /\ \A j \in 1 .. Len(seq) : seq[j] = P[k + j]
    BY <1>0 DEF Size
  <2> HIDE DEF P
  <2>3. SubSeq(P, 1, k) \o seq = SubSeq(P, 1, k + Len(seq))
    BY <1>0, <2>2
  <2> QED BY <1>2, <2>1, <2>3, Zenon DEF Got, P
<1> QED BY <1>1, <1>2

\* What is not touched stays.
LEMMA Keeps ==
  ASSUME UNCHANGED <<req, parser>>, NEW k, Received(k)
  PROVE  Received(k)'
BY Zenon DEF Received, Taken, parser

-----------------------------------------------------------------------------
(* The service's steps                                                         *)

LEMMA PushOne ==
  ASSUME wire \in Seq(Token), NEW x \in Token, Push(<<x>>)
  PROVE  wire' = Append(wire, x)
BY DEF Push

LEMMA PushTwo ==
  ASSUME wire \in Seq(Token), NEW x \in Token, NEW y \in Token, Push(<<x, y>>)
  PROVE  wire' = Append(Append(wire, x), y)
BY DEF Push

\* Whatever the service sends, the path under way leads on to where it then is.
LEMMA HeadSent ==
  ASSUME req \in Requests, SrvInv, wire \in Seq(Token), ServeHead, req' = req,
         NEW a, Leads(req, a, wire, SrvNode)
  PROVE  SrvInv' /\ wire' \in Seq(Token) /\ SrvNode' \in NodeSet(req) /\ Leads(req, a, wire', SrvNode')
<1>0. Size(req) \in Nat
  BY PiecesShape
<1>1. /\ stage \in {"status", "header", "blank"} /\ sent = 0 /\ left = 0
      /\ sent' = 0 /\ left' = 0 /\ open' = open /\ open = TRUE
  BY Zenon DEF ServeHead, SrvInv
<1>2. SrvNode = Node(stage, 0, 0)
  BY <1>1 DEF SrvNode
<1> DEFINE t == [kind |-> stage]
<1>3. t \in Token
  BY <1>1 DEF Token
<1>4. Push(<<t>>)
  BY Zenon DEF ServeHead
<1> HIDE DEF t
<1>5. wire' = Append(wire, t)
  BY <1>3, <1>4, PushOne
<1>6. stage' \in {"header", "blank", "body"} /\ Edge(req, Node(stage, 0, 0), t, Node(stage', 0, 0))
  <2>1. CASE stage = "status"
    <3>1. stage' = "header" /\ t = [kind |-> "status"]
      BY <2>1 DEF ServeHead, t
    <3> QED BY <2>1, <3>1, NodeParts DEF Edge
  <2>2. CASE stage = "header"
    <3>1. stage' = "blank" /\ t = [kind |-> "header"]
      BY <2>2 DEF ServeHead, t
    <3> QED BY <2>2, <3>1, NodeParts DEF Edge
  <2>3. CASE stage = "blank"
    <3>1. stage' = "body" /\ t = [kind |-> "blank"]
      BY <2>3 DEF ServeHead, t
    <3> QED BY <2>3, <3>1, NodeParts DEF Edge
  <2> QED BY <1>1, <2>1, <2>2, <2>3
<1>7. SrvInv'
  BY <1>0, <1>1, <1>6 DEF SrvInv
<1>8. SrvNode' = Node(stage', 0, 0)
  BY <1>1, <1>6 DEF SrvNode
<1>9. Node(stage', 0, 0) \in NodeSet(req)
  BY <1>0, <1>6 DEF Node, NodeSet
<1>10. Leads(req, a, Append(wire, t), Node(stage', 0, 0))
  BY <1>2, <1>3, <1>6, <1>9, LeadsOn
<1>11. wire' \in Seq(Token)
  BY <1>3, <1>5
<1> QED BY <1>5, <1>7, <1>8, <1>9, <1>10, <1>11

LEMMA BodySent ==
  ASSUME req \in Requests, SrvInv, wire \in Seq(Token), ServeBody, req' = req,
         NEW a, Leads(req, a, wire, SrvNode)
  PROVE  SrvInv' /\ wire' \in Seq(Token) /\ SrvNode' \in NodeSet(req) /\ Leads(req, a, wire', SrvNode')
<1>0. /\ Size(req) \in Nat /\ PiecesOf[req] \in Seq(Token) /\ Len(PiecesOf[req]) = Size(req)
      /\ Pieces = PiecesOf[req]
  BY PiecesShape DEF Size, Pieces
<1>1. /\ stage = "body" /\ stage' = "body" /\ open' = open /\ open = TRUE
      /\ sent \in 0 .. Size(req) /\ left \in 0 .. Size(req) - sent
      /\ left > 0 => req.framing = "chunked"
  BY DEF ServeBody, SrvInv
<1>2. sent # Size(req)
  BY <1>0 DEF ServeBody, AllSent
<1>3. sent + 1 \in 1 .. Size(req) /\ PiecesOf[req][sent + 1] \in Token
  BY <1>0, <1>1, <1>2
<1>4. SrvNode = Node("body", sent, left) /\ SrvNode' = Node("body", sent', left')
  BY <1>1 DEF SrvNode
<1>5. CASE req.framing = "chunked" /\ left = 0
  <2>1. PICK n \in ChunkSizes :
              LET size == IF n <= Len(Pieces) - sent THEN n ELSE Len(Pieces) - sent
              IN  Push(<<[kind |-> "size", size |-> size]>>) /\ left' = size /\ sent' = sent
    BY <1>5, Zenon DEF ServeBody
  <2> DEFINE size == IF n <= Size(req) - sent THEN n ELSE Size(req) - sent
             t == [kind |-> "size", size |-> size]
  <2>2. Push(<<t>>) /\ left' = size /\ sent' = sent
    BY <1>0, <2>1
  <2>3. n \in Nat \ {0}
    BY RequestAssumption
  <2>4. size \in 1 .. Size(req) - sent
    BY <1>0, <1>1, <1>2, <2>3
  <2> HIDE DEF size
  <2>5. t \in Token
    BY <1>0, <1>1, <2>4 DEF Token
  <2>6. wire' = Append(wire, t)
    BY <2>2, <2>5, PushOne
  <2>7. Edge(req, Node("body", sent, left), t, Node("body", sent, size))
    BY <1>5, <2>4, NodeParts DEF Edge
  <2> HIDE DEF t
  <2>8. Node("body", sent, size) \in NodeSet(req)
    BY <1>0, <1>1, <2>4 DEF Node, NodeSet
  <2>9. Leads(req, a, Append(wire, t), Node("body", sent, size))
    BY <1>4, <2>5, <2>7, <2>8, LeadsOn
  <2>10. SrvInv'
    BY <1>0, <1>1, <1>5, <2>2, <2>4 DEF SrvInv
  <2> QED BY <1>4, <2>2, <2>5, <2>6, <2>8, <2>9, <2>10
<1>6. CASE ~(req.framing = "chunked" /\ left = 0)
  <2> DEFINE t == PiecesOf[req][sent + 1]
             l == IF left > 0 THEN left - 1 ELSE 0
  <2>1. /\ Push(<<t>> \o IF left = 1 THEN <<NL>> ELSE <<>>)
        /\ left' = l /\ sent' = sent + 1
    BY <1>0, <1>6, Zenon DEF ServeBody
  <2>2. t \in Token
    BY <1>3
  <2>3. l \in 0 .. Size(req) - (sent + 1) /\ (left = 1 => l = 0)
    BY <1>0, <1>1, <1>2
  <2>4. SrvInv'
    BY <1>0, <1>1, <1>3, <2>1, <2>3 DEF SrvInv
  <2> HIDE DEF t
  <2>5. CASE left = 1
    <3>1. req.framing = "chunked"
      BY <1>1, <2>5
    <3>2. <<t>> \o (IF left = 1 THEN <<NL>> ELSE <<>>) = <<t, NL>>
      <4>1. (IF left = 1 THEN <<NL>> ELSE <<>>) = <<NL>>
        BY <2>5, Zenon
      <4>2. <<t>> \o <<NL>> = <<t, NL>>
        BY <2>2, Tokens, TwoConcat
      <4> QED BY <4>1, <4>2, Zenon
    <3>3. Push(<<t, NL>>)
      BY <2>1, <3>2, Zenon
    <3>4. wire' = Append(Append(wire, t), NL)
      BY <2>2, <3>3, PushTwo, Tokens
    <3>5. Edge(req, Node("body", sent, left), t, Node("mark", sent + 1, 0))
      <4>1. sent < Size(req) /\ left > 0 /\ left - 1 = 0
        BY <1>0, <1>1, <1>2, <2>5
      <4> QED BY <2>5, <3>1, <4>1, NodeParts DEF Edge, t
    <3>6. Edge(req, Node("mark", sent + 1, 0), NL, Node("body", sent + 1, 0))
      BY NodeParts DEF Edge
    <3>7. Node("mark", sent + 1, 0) \in NodeSet(req) /\ Node("body", sent + 1, 0) \in NodeSet(req)
      BY <1>0, <1>1, <1>3 DEF Node, NodeSet
    <3>8. Leads(req, a, Append(wire, t), Node("mark", sent + 1, 0)) /\ Append(wire, t) \in Seq(Token)
      BY <1>4, <2>2, <3>5, <3>7, LeadsOn
    <3>9. Leads(req, a, Append(Append(wire, t), NL), Node("body", sent + 1, 0))
      BY <3>6, <3>7, <3>8, Tokens, LeadsOn
    <3>10. SrvNode' = Node("body", sent + 1, 0)
      BY <1>4, <2>1, <2>3, <2>5
    <3>11. wire' \in Seq(Token)
      BY <3>4, <3>8, Tokens
    <3> QED BY <2>4, <3>4, <3>7, <3>9, <3>10, <3>11
  <2>6. CASE left # 1
    <3>1. <<t>> \o (IF left = 1 THEN <<NL>> ELSE <<>>) = <<t>>
      BY <2>6
    <3>2. Push(<<t>>)
      BY <2>1, <3>1, Zenon
    <3>3. wire' = Append(wire, t)
      BY <2>2, <3>2, PushOne
    <3>4. Edge(req, Node("body", sent, left), t, Node("body", sent + 1, l))
      <4>1. sent < Size(req) /\ left \in Nat
        BY <1>0, <1>1, <1>2
      <4>2. CASE req.framing = "chunked"
        <5>1. left > 0 /\ l = left - 1
          BY <1>6, <4>1, <4>2
        <5> HIDE DEF l
        <5> QED BY <2>6, <4>1, <4>2, <5>1, NodeParts DEF Edge, t
      <4>3. CASE req.framing # "chunked"
        <5>1. l = 0
          BY <1>1, <4>1, <4>3
        <5> HIDE DEF l
        <5> QED BY <4>1, <4>3, <5>1, NodeParts DEF Edge, t
      <4> QED BY <4>2, <4>3
    <3>5. Node("body", sent + 1, l) \in NodeSet(req)
      BY <1>0, <1>1, <1>3, <2>3 DEF Node, NodeSet
    <3> HIDE DEF l
    <3>6. Leads(req, a, Append(wire, t), Node("body", sent + 1, l))
      BY <1>4, <2>2, <3>4, <3>5, LeadsOn
    <3>7. SrvNode' = Node("body", sent + 1, l)
      BY <1>4, <2>1
    <3> QED BY <2>2, <2>4, <3>3, <3>5, <3>6, <3>7
  <2> QED BY <2>5, <2>6
<1> QED BY <1>5, <1>6

LEMMA EndSent ==
  ASSUME req \in Requests, SrvInv, wire \in Seq(Token), ServeEnd, req' = req,
         NEW a, Leads(req, a, wire, SrvNode)
  PROVE  SrvInv' /\ wire' \in Seq(Token) /\ SrvNode' \in NodeSet(req) /\ Leads(req, a, wire', SrvNode')
<1>0. Size(req) \in Nat /\ Len(Pieces) = Size(req)
  BY PiecesShape DEF Size, Pieces
<1>1. /\ stage = "body" /\ stage' = "over" /\ open' = FALSE /\ sent = Size(req) /\ left = 0
      /\ sent' = Size(req) /\ left' = 0
  BY <1>0 DEF ServeEnd, SrvInv, AllSent
<1>2. SrvInv'
  BY <1>0, <1>1 DEF SrvInv
<1>3. SrvNode = Node("body", Size(req), 0)
  BY <1>1 DEF SrvNode
<1>4. /\ Node("body", Size(req), 0) \in NodeSet(req)
      /\ Node("last", Size(req), 0) \in NodeSet(req) /\ Node("over", Size(req), 0) \in NodeSet(req)
  BY <1>0 DEF Node, NodeSet
<1>5. CASE req.framing = "chunked"
  <2> DEFINE t == [kind |-> "size", size |-> 0]
  <2>1. Push(<<t, NL>>)
    BY <1>5, Zenon DEF ServeEnd
  <2>2. t \in Token
    BY DEF Token
  <2>3. Edge(req, Node("body", Size(req), 0), t, Node("last", Size(req), 0))
    BY <1>5, NodeParts DEF Edge
  <2>4. Edge(req, Node("last", Size(req), 0), NL, Node("over", Size(req), 0))
    BY NodeParts DEF Edge
  <2> HIDE DEF t
  <2>5. wire' = Append(Append(wire, t), NL)
    BY <2>1, <2>2, PushTwo, Tokens
  <2>6. Leads(req, a, Append(wire, t), Node("last", Size(req), 0)) /\ Append(wire, t) \in Seq(Token)
    BY <1>3, <1>4, <2>2, <2>3, LeadsOn
  <2>7. Leads(req, a, Append(Append(wire, t), NL), Node("over", Size(req), 0))
    BY <1>4, <2>4, <2>6, Tokens, LeadsOn
  <2>8. SrvNode' = Node("over", Size(req), 0)
    BY <1>1, <1>5 DEF SrvNode
  <2>9. wire' \in Seq(Token)
    BY <2>5, <2>6, Tokens
  <2> QED BY <1>2, <1>4, <2>5, <2>7, <2>8, <2>9
<1>6. CASE req.framing # "chunked"
  <2>1. Push(<<>>)
    BY <1>6, Zenon DEF ServeEnd
  <2>2. wire' = wire
    BY <2>1 DEF Push
  <2>3. SrvNode' = Node("body", Size(req), 0)
    BY <1>1, <1>6 DEF SrvNode
  <2> QED BY <1>2, <1>3, <1>4, <2>2, <2>3
<1> QED BY <1>5, <1>6

LEMMA HereKept ==
  ASSUME UNCHANGED <<req, phase, framing, need>>, NEW a, Here(a)
  PROVE  Here(a)'
BY Zenon DEF Here

LEMMA ServeSends ==
  ASSUME req \in Requests, SrvInv, wire \in Seq(Token), req' = req,
         ServeHead \/ ServeBody \/ ServeEnd \/ Break,
         NEW a, NEW b \in NodeSet(req), b = SrvNode, Leads(req, a, wire, b)
  PROVE  /\ SrvInv' /\ wire' \in Seq(Token)
         /\ \E c \in NodeSet(req) : Leads(req, a, wire', c) /\ (stage' # "broken" => c = SrvNode')
<1>1. CASE ServeHead
  BY <1>1, HeadSent
<1>2. CASE ServeBody
  BY <1>2, BodySent
<1>3. CASE ServeEnd
  BY <1>3, EndSent
<1>4. CASE Break
  <2>1. stage' = "broken" /\ open' = FALSE /\ UNCHANGED <<sent, left, wire>>
    BY <1>4 DEF Break
  <2>2. SrvInv'
    BY <2>1 DEF SrvInv
  <2> QED BY <2>1, <2>2
<1> QED BY <1>1, <1>2, <1>3, <1>4

LEMMA ServeKeeps ==
  ASSUME req \in Requests, ~flag, Good, Serve
  PROVE  Good'
<1>1. /\ open /\ phase # "over" /\ (ServeHead \/ ServeBody \/ ServeEnd \/ Break)
      /\ UNCHANGED <<req, phase, framing, need, parser, user, result>>
  BY DEF Serve
<1>2. woken' = woken /\ ~woken
  BY <1>1 DEF Good, user
<1>3. CASE Reading /\ wire \in Seq(Token) /\ SrvInv /\ (Lost \/ Aligned)
  <2>0. stage # "broken"
    BY <1>1, <1>3 DEF SrvInv
  <2>1. PICK a, b : Between(a, b)
    BY <1>3, <2>0 DEF Aligned, Lost
  <2>2. /\ a \in NodeSet(req) /\ b \in NodeSet(req) /\ Leads(req, a, wire, b) /\ b = SrvNode
        /\ Here(a) /\ Received(a.k)
    BY <2>0, <2>1 DEF Between
  <2>3. /\ SrvInv' /\ wire' \in Seq(Token)
        /\ \E c \in NodeSet(req) : Leads(req, a, wire', c) /\ (stage' # "broken" => c = SrvNode')
    BY <1>1, <1>3, <2>2, ServeSends
  <2>4. PICK c \in NodeSet(req) : Leads(req, a, wire', c) /\ (stage' # "broken" => c = SrvNode')
    BY <2>3
  <2>5. Here(a)' /\ Received(a.k)'
    BY <1>1, <2>2, HereKept, Keeps
  <2>6. Between(a, c)'
    BY <1>1, <2>2, <2>4, <2>5, Zenon DEF Between
  <2>7. Aligned'
    BY <2>6, Zenon DEF Aligned
  <2>8. Reading'
    BY <1>1, <1>3 DEF Reading
  <2> QED BY <1>2, <2>3, <2>7, <2>8, Zenon DEF Good
<1>4. CASE Done
  <2>1. PICK k \in 0 .. Size(req) : Received(k) /\ (k = Size(req) \/ ~req.tls)
    BY <1>1, <1>4 DEF Done
  <2>2. Received(k)'
    BY <1>1, <2>1, Keeps
  <2>3. Done'
    BY <1>1, <1>4, <2>1, <2>2 DEF Done
  <2> QED BY <1>2, <2>3, Zenon DEF Good
<1> QED BY <1>1, <1>3, <1>4 DEF Good

-----------------------------------------------------------------------------
(* The client's steps                                                          *)

Stays == UNCHANGED <<req, service>> /\ woken' = FALSE

LEMMA SrvKept ==
  ASSUME Stays, SrvInv
  PROVE  SrvInv' /\ SrvNode' = SrvNode /\ stage' = stage /\ open' = open /\ req' = req
<1>1. req' = req /\ stage' = stage /\ sent' = sent /\ left' = left /\ open' = open
  BY DEF Stays, service
<1> QED BY <1>1 DEF SrvInv, SrvNode

LEMMA InTheMiddle ==
  ASSUME Good, phase \in {"connect", "status", "headers", "size", "chunk", "chunk end", "trailer",
                          "block", "rest"}
  PROVE  ~woken /\ wire \in Seq(Token) /\ SrvInv /\ (Lost \/ Aligned)
BY DEF Good, Done

\* The client's place after its step, if it still reads; if the connection broke
\* in the middle; if it read all it will read.
LEMMA Arrives ==
  ASSUME req \in Requests, Stays, SrvInv, NEW a \in NodeSet(req), NEW b \in NodeSet(req),
         stage # "broken" => b = SrvNode, Leads(req, a, wire', b), wire' \in Seq(Token),
         HereAt(req, phase', framing', need', a), Got(req, Taken', body', a.k),
         phase' \in {"connect", "status", "headers", "size", "chunk", "chunk end", "trailer",
                     "block", "rest"}
  PROVE  Good'
<1>1. SrvInv' /\ SrvNode' = SrvNode /\ stage' = stage /\ open' = open /\ req' = req
  BY SrvKept
<1>2. Here(a)' /\ Received(a.k)'
  BY <1>1, Zenon DEF Here, Received
<1>3. Between(a, b)'
  BY <1>1, <1>2, Zenon DEF Between
<1>4. Aligned'
  BY <1>3, Zenon DEF Aligned
<1>5. Reading' /\ ~woken'
  BY DEF Reading, Stays
<1> QED BY <1>1, <1>4, <1>5, Zenon DEF Good

LEMMA Loses ==
  ASSUME req \in Requests, Stays, SrvInv, stage = "broken", wire' = <<>>,
         phase' \in {"size", "chunk end", "trailer", "block", "rest"},
         phase' = "block" => need' \in Nat,
         NEW k \in 0 .. Size(req), Got(req, Taken', body', k)
  PROVE  Good'
<1>1. SrvInv' /\ stage' = stage /\ req' = req
  BY SrvKept
<1>2. Received(k)'
  BY <1>1, Zenon DEF Received
<1>3. Lost'
  BY <1>1, <1>2 DEF Lost
<1>4. Reading' /\ ~woken'
  BY DEF Reading, Stays
<1>5. wire' \in Seq(Token)
  <2>1. <<>> \in Seq(Token)
    BY EmptySeq
  <2> QED BY <2>1, Zenon
<1> QED BY <1>1, <1>3, <1>4, <1>5, Zenon DEF Good

LEMMA Finishes ==
  ASSUME req \in Requests, Stays, SrvInv, phase' = "close",
         NEW k \in 0 .. Size(req), Got(req, Taken', body', k),
         k = Size(req) \/ stage = "broken" \/ ~req.tls
  PROVE  Good'
<1>1. SrvInv' /\ stage' = stage /\ req' = req /\ open' = open
  BY SrvKept
<1>2. Received(k)'
  BY <1>1, Zenon DEF Received
<1>3. stage = "broken" => ~open
  BY DEF SrvInv
<1>4. Done'
  BY <1>1, <1>2, <1>3 DEF Done
<1>5. ~woken'
  BY DEF Stays
<1> QED BY <1>4, <1>5, Zenon DEF Good

LEMMA GivesUp ==
  ASSUME Stays, phase' = "over"
  PROVE  Good'
BY DEF Stays, Good

LEMMA Untouched ==
  ASSUME UNCHANGED parser
  PROVE  Taken' = Taken /\ body' = body
BY DEF parser, Taken

LEMMA Apart ==
  ASSUME NEW a, NEW b, Between(a, b)
  PROVE  /\ a \in NodeSet(req) /\ b \in NodeSet(req) /\ Leads(req, a, wire, b)
         /\ HereAt(req, phase, framing, need, a) /\ Got(req, Taken, body, a.k)
         /\ stage # "broken" => b = SrvNode
BY DEF Between, Here, Received

LEMMA TakesOne ==
  ASSUME req \in Requests, wire \in Seq(Token), NEW a, NEW b, Leads(req, a, wire, b), Has(1), Take(1)
  PROVE  /\ \E c \in NodeSet(req) : Edge(req, a, wire[1], c) /\ Leads(req, c, wire', b)
         /\ wire' \in Seq(Token) /\ wire[1] \in Token /\ Head(wire) = wire[1]
<1>1. Len(wire) >= 1 /\ wire' = SubSeq(wire, 2, Len(wire))
  BY DEF Has, Take
<1>2. wire' \in Seq(Token) /\ wire[1] \in Token /\ Head(wire) = wire[1]
  BY <1>1
<1>3. \E c \in NodeSet(req) : Edge(req, a, wire[1], c) /\ Leads(req, c, SubSeq(wire, 2, Len(wire)), b)
  BY <1>1, LeadsFirst
<1> QED BY <1>1, <1>2, <1>3, Zenon

\* A read that fails does so at the end of all that was sent.
LEMMA FailsAtEnd ==
  ASSUME req \in Requests, SrvInv, ~woken, wire \in Seq(Token), NEW n, Fails(n)
  PROVE  stage \in {"over", "broken"} /\ ~Has(n)
BY DEF Fails, SrvInv

LEMMA FailsEmpty ==
  ASSUME req \in Requests, SrvInv, ~woken, wire \in Seq(Token), Fails(1)
  PROVE  wire = <<>> /\ stage \in {"over", "broken"}
<1>1. ~(Len(wire) >= 1) /\ Len(wire) \in Nat
  BY DEF Fails, Has
<1> QED BY <1>1, FailsAtEnd

\* Nothing under way: the client is where the service is.
LEMMA SamePlace ==
  ASSUME req \in Requests, NEW a, NEW b, Between(a, b), wire = <<>>, stage = "over"
  PROVE  /\ req.framing = "chunked" => a = Node("over", Size(req), 0)
         /\ req.framing # "chunked" => a = Node("body", Size(req), 0)
<1>1. Leads(req, a, <<>>, b) /\ b = SrvNode
  BY Apart
<1>2. a = b
  BY <1>1, LeadsNowhere
<1> QED BY <1>1, <1>2 DEF SrvNode

\* Each step of the client keeps the invariant.
LEMMA ConnectKeeps ==
  ASSUME req \in Requests, ~flag, Good, tls_connect, Stays
  PROVE  Good'
<1>1. phase = "connect" /\ UNCHANGED <<wire, framing, need, parser>> /\ phase' \in {"over", "status"}
  BY DEF tls_connect, Over, To
<1>2. ~woken /\ wire \in Seq(Token) /\ SrvInv /\ Aligned
  BY <1>1, InTheMiddle DEF Lost
<1>3. PICK a, b : Between(a, b)
  BY <1>2 DEF Aligned
<1>4. CASE phase' = "status"
  <2>1. HereAt(req, phase', framing', need', a)
    BY <1>1, <1>3, <1>4, Apart DEF HereAt
  <2>2. Got(req, Taken', body', a.k) /\ Leads(req, a, wire', b) /\ wire' \in Seq(Token)
    BY <1>1, <1>2, <1>3, Apart, Untouched, Zenon
  <2> QED BY <1>2, <1>3, <1>4, <2>1, <2>2, Apart, Arrives
<1> QED BY <1>1, <1>4, GivesUp

LEMMA StatusKeeps ==
  ASSUME req \in Requests, ~flag, Good, ReadStatus, Stays
  PROVE  Good'
<1>1. phase = "status" /\ UNCHANGED <<framing, need, parser>>
  BY DEF ReadStatus
<1>2. ~woken /\ wire \in Seq(Token) /\ SrvInv /\ Aligned
  BY <1>1, InTheMiddle DEF Lost
<1>3. PICK a, b : Between(a, b)
  BY <1>2 DEF Aligned
<1>4. CASE Has(1) /\ Take(1) /\ phase' = "headers"
  <2>1. PICK c \in NodeSet(req) : Edge(req, a, wire[1], c) /\ Leads(req, c, wire', b)
    BY <1>2, <1>3, <1>4, TakesOne, Apart
  <2>2. a = Node("status", 0, 0) /\ a \in NodeSet(req) /\ framing' = "close"
    BY <1>1, <1>3, Apart DEF HereAt
  <2>3. c = Node("header", 0, 0)
    BY <2>1, <2>2, EdgeFrom, NodeParts
  <2>4. HereAt(req, phase', framing', need', c)
    <3>1. phase' = "headers"
      BY <1>4
    <3> QED BY <2>2, <2>3, <3>1 DEF HereAt
  <2>5. Got(req, Taken', body', c.k)
    BY <1>1, <1>3, <2>2, <2>3, Apart, Untouched, NodeParts
  <2>6. wire' \in Seq(Token)
    BY <1>2, <1>3, <1>4, TakesOne, Apart
  <2> QED BY <1>2, <1>3, <1>4, <2>1, <2>4, <2>5, <2>6, Apart, Arrives
<1> QED BY <1>4, GivesUp DEF ReadStatus, To, Over

LEMMA HeaderKeeps ==
  ASSUME req \in Requests, ~flag, Good, ReadHeader, Stays
  PROVE  Good'
<1>1. phase = "headers" /\ UNCHANGED parser
  BY DEF ReadHeader
<1>2. ~woken /\ wire \in Seq(Token) /\ SrvInv /\ Aligned
  BY <1>1, InTheMiddle DEF Lost
<1>3. PICK a, b : Between(a, b)
  BY <1>2 DEF Aligned
<1>4. /\ a \in NodeSet(req) /\ b \in NodeSet(req) /\ Leads(req, a, wire, b)
      /\ stage # "broken" => b = SrvNode
      /\ Got(req, Taken', body', a.k)
  <2>1. Got(req, Taken, body, a.k)
    BY <1>3, Apart
  <2>2. Got(req, Taken', body', a.k)
    BY <1>1, <2>1, Untouched, Zenon
  <2> QED BY <1>3, <2>2, Apart
<1>5. \/ a = Node("header", 0, 0) /\ framing = "close"
      \/ a = Node("blank", 0, 0) /\ framing = req.framing /\ need = Size(req)
  BY <1>1, <1>3, Apart DEF HereAt
<1>6. Size(req) \in Nat /\ 0 \in 0 .. Size(req) /\ a.k = 0 /\ Len(Pieces) = Size(req)
  BY <1>5, PiecesShape, NodeParts DEF Size, Pieces
<1>7. CASE ~Cancelled /\ Has(1) /\ Take(1)
  <2>1. PICK c \in NodeSet(req) : Edge(req, a, wire[1], c) /\ Leads(req, c, wire', b)
    BY <1>2, <1>4, <1>7, TakesOne
  <2>2. wire' \in Seq(Token) /\ Head(wire) = wire[1]
    BY <1>2, <1>4, <1>7, TakesOne
  <2>3. CASE a = Node("header", 0, 0)
    <3>1. wire[1] = [kind |-> "header"] /\ c = Node("blank", 0, 0)
      BY <1>4, <2>1, <2>3, EdgeFrom, NodeParts
    <3>2. framing' = req.framing /\ need' = Size(req) /\ phase' = "headers"
      BY <1>6, <1>7, <2>2, <3>1 DEF ReadHeader, Fails, To
    <3>3. HereAt(req, phase', framing', need', c)
      BY <3>1, <3>2 DEF HereAt
    <3>4. Got(req, Taken', body', c.k)
      BY <1>4, <1>6, <3>1, NodeParts
    <3> QED BY <1>2, <1>4, <2>1, <2>2, <3>2, <3>3, <3>4, Arrives
  <2>4. CASE a = Node("blank", 0, 0)
    <3>1. wire[1] = [kind |-> "blank"] /\ c = Node("body", 0, 0)
      BY <1>4, <2>1, <2>4, EdgeFrom, NodeParts
    <3>2. framing' = framing /\ need' = need /\ phase' = BodyPhase(framing)
      BY <1>7, <2>2, <3>1 DEF ReadHeader, Fails, To
    <3>3. framing = req.framing /\ need = Size(req)
      BY <1>5, <2>4 DEF Node
    <3>4. c.at = "body" /\ c.k = 0 /\ c.left = 0
      BY <3>1, NodeParts
    <3>5. /\ phase' \in {"size", "block", "rest"}
          /\ phase' = "size" => req.framing = "chunked"
          /\ phase' \in {"block", "rest"} => req.framing # "chunked"
      BY <3>2, <3>3 DEF BodyPhase
    <3>6. HereAt(req, phase', framing', need', c)
      <4>1. need' = Size(req) - c.k
        BY <1>6, <3>2, <3>3, <3>4
      <4> QED BY <3>4, <3>5, <4>1 DEF HereAt
    <3>7. Got(req, Taken', body', c.k)
      BY <1>4, <1>6, <3>4
    <3> QED BY <1>2, <1>4, <2>1, <2>2, <3>5, <3>6, <3>7, Arrives
  <2> QED BY <1>5, <2>3, <2>4
<1>8. CASE Fails(1) /\ phase' = BodyPhase(framing) /\ UNCHANGED <<wire, framing, need>>
  <2>1. wire = <<>> /\ stage \in {"over", "broken"}
    BY <1>2, <1>8, FailsEmpty
  <2>2. stage # "over"
    <3>1. a.at \notin {"over", "body"}
      BY <1>5, NodeParts
    <3> QED BY <1>3, <2>1, <3>1, SamePlace, NodeParts
  <2>3. /\ phase' \in {"size", "block", "rest"}
        /\ phase' = "block" => framing = "length"
    BY <1>8 DEF BodyPhase
  <2>4. phase' = "block" => need' \in Nat
    BY <1>5, <1>6, <1>8, <2>3
  <2> QED BY <1>2, <1>4, <1>6, <1>8, <2>1, <2>2, <2>3, <2>4, Loses
<1> QED BY <1>7, <1>8 DEF ReadHeader, Cancelled, To

LEMMA SizeKeeps ==
  ASSUME req \in Requests, ~flag, Good, ReadSize, Stays
  PROVE  Good'
<1>1. phase = "size" /\ UNCHANGED <<framing, parser>>
  BY DEF ReadSize
<1>2. ~woken /\ wire \in Seq(Token) /\ SrvInv /\ (Lost \/ Aligned)
  BY <1>1, InTheMiddle
<1>3. CASE Lost
  <2>1. stage = "broken" /\ wire = <<>> /\ \E k \in 0 .. Size(req) : Received(k)
    BY <1>3 DEF Lost
  <2>2. PICK k \in 0 .. Size(req) : Got(req, Taken', body', k)
    BY <1>1, <2>1, Untouched, Zenon DEF Received
  <2>3. ~Has(1)
    BY <2>1 DEF Has
  <2>4. phase' = "trailer" /\ wire' = wire
    BY <2>3 DEF ReadSize, To
  <2> QED BY <1>2, <2>1, <2>2, <2>4, Loses
<1>4. CASE Aligned
  <2>1. PICK a, b : Between(a, b)
    BY <1>4 DEF Aligned
  <2>2. /\ a \in NodeSet(req) /\ b \in NodeSet(req) /\ Leads(req, a, wire, b)
        /\ stage # "broken" => b = SrvNode
        /\ Got(req, Taken', body', a.k)
    <3>1. Got(req, Taken, body, a.k)
      BY <2>1, Apart
    <3>2. Got(req, Taken', body', a.k)
      BY <1>1, <3>1, Untouched, Zenon
    <3> QED BY <2>1, <3>2, Apart
  <2>3. a.at = "body" /\ a.left = 0 /\ req.framing = "chunked"
    BY <1>1, <2>1, Apart DEF HereAt
  <2>4. Size(req) \in Nat /\ a.k \in 0 .. Size(req)
    BY <2>2, PiecesShape DEF NodeSet
  <2>5. CASE Has(1) /\ Take(1)
    <3>1. PICK c \in NodeSet(req) : Edge(req, a, wire[1], c) /\ Leads(req, c, wire', b)
      BY <1>2, <2>2, <2>5, TakesOne
    <3>2. wire' \in Seq(Token) /\ Head(wire) = wire[1]
      BY <1>2, <2>2, <2>5, TakesOne
    <3>3. \/ \E n \in 1 .. Size(req) - a.k : wire[1] = [kind |-> "size", size |-> n] /\ c = Node("body", a.k, n)
          \/ a.k = Size(req) /\ wire[1] = [kind |-> "size", size |-> 0] /\ c = Node("last", a.k, 0)
      BY <2>2, <2>3, <3>1, EdgeFrom
    <3>4. wire[1].kind = "size" /\ need' = wire[1].size /\ phase' = (IF need' = 0 THEN "trailer" ELSE "chunk")
      <4>1. LET n == IF Head(wire).kind = "size" THEN Head(wire).size ELSE 0
            IN  need' = n /\ To(IF n = 0 THEN "trailer" ELSE "chunk")
        BY <2>5, Zenon DEF ReadSize, Fails, Cancelled
      <4>2. Head(wire).kind = "size" /\ Head(wire) = wire[1]
        <5>1. \E n : wire[1] = [kind |-> "size", size |-> n]
          BY <3>3
        <5>2. wire[1].kind = "size"
          BY <5>1
        <5> QED BY <3>2, <5>2, Zenon
      <4> QED BY <4>1, <4>2 DEF To
    <3>5. CASE \E n \in 1 .. Size(req) - a.k : wire[1] = [kind |-> "size", size |-> n] /\ c = Node("body", a.k, n)
      <4>1. PICK n \in 1 .. Size(req) - a.k : wire[1] = [kind |-> "size", size |-> n] /\ c = Node("body", a.k, n)
        BY <3>5
      <4>2. n > 0 /\ n # 0 /\ need' = n
        BY <2>4, <3>4, <4>1
      <4>3. phase' = "chunk"
        BY <3>4, <4>2
      <4>4. c.at = "body" /\ c.k = a.k /\ c.left = n
        BY <4>1, NodeParts
      <4>5. HereAt(req, phase', framing', need', c)
        BY <2>3, <4>2, <4>3, <4>4 DEF HereAt
      <4> QED BY <1>2, <2>2, <3>1, <3>2, <4>3, <4>4, <4>5, Arrives
    <3>6. CASE a.k = Size(req) /\ wire[1] = [kind |-> "size", size |-> 0] /\ c = Node("last", a.k, 0)
      <4>1. need' = 0 /\ phase' = "trailer"
        BY <3>4, <3>6
      <4>2. c.at = "last" /\ c.k = a.k
        BY <3>6, NodeParts
      <4>3. HereAt(req, phase', framing', need', c)
        BY <3>6, <4>1, <4>2 DEF HereAt
      <4> QED BY <1>2, <2>2, <3>1, <3>2, <4>1, <4>2, <4>3, Arrives
    <3> QED BY <3>3, <3>5, <3>6
  <2>6. CASE Fails(1) /\ phase' = "trailer" /\ wire' = wire
    <3>1. wire = <<>> /\ stage \in {"over", "broken"}
      BY <1>2, <2>6, FailsEmpty
    <3>2. stage # "over"
      BY <2>1, <2>3, <3>1, SamePlace, NodeParts
    <3> QED BY <1>2, <2>2, <2>4, <2>6, <3>1, <3>2, Loses
  <2> QED BY <2>5, <2>6 DEF ReadSize, Cancelled, To
<1> QED BY <1>2, <1>3, <1>4

LEMMA ChunkKeeps ==
  ASSUME req \in Requests, ~flag, Good, ReadChunk, Stays
  PROVE  Good'
<1>1. phase = "chunk" /\ UNCHANGED <<framing, need>> /\ phase' = "chunk end"
  BY DEF ReadChunk, To
<1>2. ~woken /\ wire \in Seq(Token) /\ SrvInv /\ Aligned
  BY <1>1, InTheMiddle DEF Lost
<1>3. PICK a, b : Between(a, b)
  BY <1>2 DEF Aligned
<1>4. /\ a \in NodeSet(req) /\ b \in NodeSet(req) /\ Leads(req, a, wire, b)
      /\ stage # "broken" => b = SrvNode
  BY <1>3, Apart
<1>5. a.at = "body" /\ a.left = need /\ need > 0 /\ req.framing = "chunked"
  BY <1>1, <1>3, Apart DEF HereAt
<1>6. Size(req) \in Nat /\ a.k \in 0 .. Size(req) /\ need \in Nat /\ Len(wire) \in Nat
  BY <1>2, <1>4, <1>5, PiecesShape DEF NodeSet
<1>7. CASE Has(need) /\ Take(need) /\ Deliver(SubSeq(wire, 1, need))
  <2>1. PICK n, w, k : n = need /\ w = wire /\ k = a.k
    OBVIOUS
  <2> DEFINE v == SubSeq(w, 1, n)
  <2>2. n \in 0 .. Len(w) /\ n \in Nat /\ w \in Seq(Token) /\ n > 0
    BY <1>2, <1>5, <1>6, <1>7, <2>1 DEF Has
  <2>3. v \in Seq(Token) /\ Len(v) = n
    BY <2>2
  <2>4. PICK c \in NodeSet(req) : Leads(req, a, v, c) /\ Leads(req, c, SubSeq(w, n + 1, Len(w)), b)
    BY <1>4, <2>1, <2>2, LeadsSplit
  <2> HIDE DEF v
  <2>5. /\ c.at = "mark" /\ c.k = k + n /\ k + n <= Size(req)
        /\ \A j \in 1 .. n : v[j] = PiecesOf[req][k + j]
    <3>1. Len(v) <= a.left /\ Len(v) = a.left /\ Len(v) > 0
      BY <1>5, <2>1, <2>2, <2>3
    <3> QED BY <1>4, <1>5, <2>1, <2>3, <2>4, <3>1, ChunkBody
  <2>6. Received(k) /\ Deliver(v)
    BY <1>3, <1>7, <2>1 DEF Between, v
  <2>7. Got(req, Taken', body', k + n)
    BY <1>6, <2>1, <2>3, <2>5, <2>6, Delivers DEF Taken
  <2>8. HereAt(req, phase', framing', need', c)
    BY <1>1, <1>5, <2>5 DEF HereAt
  <2>9. wire' = SubSeq(w, n + 1, Len(w)) /\ wire' \in Seq(Token)
    BY <1>7, <2>1, <2>2 DEF Take
  <2> QED BY <1>1, <1>2, <1>4, <2>4, <2>5, <2>7, <2>8, <2>9, Arrives
<1>8. CASE Fails(need) /\ wire' = <<>> /\ UNCHANGED parser
  <2>1. stage \in {"over", "broken"} /\ Len(wire) < need
    BY <1>2, <1>6, <1>8, FailsAtEnd DEF Has
  <2>2. stage # "over"
    <3>1. b.at \in {"mark", "body"} /\ b.at = "body"
      BY <1>4, <1>5, <1>6, <2>1, <1>2, ChunkBody
    <3> QED BY <1>4, <1>5, <3>1, NodeParts DEF SrvNode
  <2>3. Got(req, Taken', body', a.k)
    BY <1>3, <1>8, Apart, Untouched, Zenon
  <2> QED BY <1>1, <1>2, <1>6, <1>8, <2>1, <2>2, <2>3, Loses
<1> QED BY <1>7, <1>8 DEF ReadChunk

LEMMA ChunkEndKeeps ==
  ASSUME req \in Requests, ~flag, Good, ReadChunkEnd, Stays
  PROVE  Good'
<1>1. phase = "chunk end" /\ phase' = "size" /\ UNCHANGED <<framing, need, parser>>
  BY DEF ReadChunkEnd, To
<1>2. ~woken /\ wire \in Seq(Token) /\ SrvInv /\ (Lost \/ Aligned)
  BY <1>1, InTheMiddle
<1>3. CASE Lost
  <2>1. stage = "broken" /\ wire = <<>> /\ \E k \in 0 .. Size(req) : Received(k)
    BY <1>3 DEF Lost
  <2>2. PICK k \in 0 .. Size(req) : Got(req, Taken', body', k)
    BY <1>1, <2>1, Untouched, Zenon DEF Received
  <2>3. ~Has(1)
    BY <2>1 DEF Has
  <2>4. wire' = wire
    BY <2>3 DEF ReadChunkEnd
  <2> QED BY <1>1, <1>2, <2>1, <2>2, <2>4, Loses
<1>4. CASE Aligned
  <2>1. PICK a, b : Between(a, b)
    BY <1>4 DEF Aligned
  <2>2. /\ a \in NodeSet(req) /\ b \in NodeSet(req) /\ Leads(req, a, wire, b)
        /\ stage # "broken" => b = SrvNode
        /\ Got(req, Taken', body', a.k)
    <3>1. Got(req, Taken, body, a.k)
      BY <2>1, Apart
    <3>2. Got(req, Taken', body', a.k)
      BY <1>1, <3>1, Untouched, Zenon
    <3> QED BY <2>1, <3>2, Apart
  <2>3. a.at = "mark" /\ req.framing = "chunked"
    BY <1>1, <2>1, Apart DEF HereAt
  <2>4. Size(req) \in Nat /\ a.k \in 0 .. Size(req)
    BY <2>2, PiecesShape DEF NodeSet
  <2>5. CASE Has(1) /\ Take(1)
    <3>1. PICK c \in NodeSet(req) : Edge(req, a, wire[1], c) /\ Leads(req, c, wire', b)
      BY <1>2, <2>2, <2>5, TakesOne
    <3>2. wire' \in Seq(Token)
      BY <1>2, <2>2, <2>5, TakesOne
    <3>3. c = Node("body", a.k, 0)
      BY <2>2, <2>3, <3>1, EdgeFrom
    <3>4. c.at = "body" /\ c.k = a.k /\ c.left = 0
      BY <3>3, NodeParts
    <3>5. HereAt(req, phase', framing', need', c)
      BY <1>1, <2>3, <3>4 DEF HereAt
    <3> QED BY <1>1, <1>2, <2>2, <3>1, <3>2, <3>4, <3>5, Arrives
  <2>6. CASE Fails(1) /\ wire' = wire
    <3>1. wire = <<>> /\ stage \in {"over", "broken"}
      BY <1>2, <2>6, FailsEmpty
    <3>2. stage # "over"
      BY <2>1, <2>3, <3>1, SamePlace, NodeParts
    <3> QED BY <1>1, <1>2, <2>2, <2>4, <2>6, <3>1, <3>2, Loses
  <2> QED BY <2>5, <2>6 DEF ReadChunkEnd
<1> QED BY <1>2, <1>3, <1>4

LEMMA TrailerKeeps ==
  ASSUME req \in Requests, ~flag, Good, ReadTrailer, Stays
  PROVE  Good'
<1>1. phase = "trailer" /\ UNCHANGED <<framing, parser>>
  BY DEF ReadTrailer
<1>2. ~woken /\ wire \in Seq(Token) /\ SrvInv /\ (Lost \/ Aligned)
  BY <1>1, InTheMiddle
<1>3. CASE Lost
  <2>1. stage = "broken" /\ wire = <<>> /\ \E k \in 0 .. Size(req) : Received(k)
    BY <1>3 DEF Lost
  <2>2. PICK k \in 0 .. Size(req) : Got(req, Taken', body', k)
    BY <1>1, <2>1, Untouched, Zenon DEF Received
  <2>3. ~Has(1)
    BY <2>1 DEF Has
  <2>4. phase' = "close"
    BY <2>3 DEF ReadTrailer, To
  <2> QED BY <1>2, <2>1, <2>2, <2>4, Finishes
<1>4. CASE Aligned
  <2>1. PICK a, b : Between(a, b)
    BY <1>4 DEF Aligned
  <2>2. /\ a \in NodeSet(req) /\ b \in NodeSet(req) /\ Leads(req, a, wire, b)
        /\ Got(req, Taken', body', a.k)
    <3>1. Got(req, Taken, body, a.k)
      BY <2>1, Apart
    <3>2. Got(req, Taken', body', a.k)
      BY <1>1, <3>1, Untouched, Zenon
    <3> QED BY <2>1, <3>2, Apart
  <2>3. a.at = "last" /\ a.k = Size(req) /\ need = 0
    BY <1>1, <2>1, Apart DEF HereAt
  <2>4. Size(req) \in Nat /\ a.k \in 0 .. Size(req)
    BY <2>2, PiecesShape DEF NodeSet
  <2>5. phase' = "close"
    <3>1. CASE Has(1) /\ Take(1)
      <4>1. PICK c \in NodeSet(req) : Edge(req, a, wire[1], c) /\ Leads(req, c, wire', b)
        BY <1>2, <2>2, <3>1, TakesOne
      <4>2. wire[1] = NL
        BY <2>2, <2>3, <4>1, EdgeFrom
      <4> QED BY <2>3, <3>1, <4>2 DEF ReadTrailer, Fails, To
    <3>2. CASE Fails(1) /\ To("close")
      BY <3>2 DEF To
    <3> QED BY <3>1, <3>2 DEF ReadTrailer
  <2> QED BY <1>2, <2>2, <2>3, <2>4, <2>5, Finishes
<1> QED BY <1>2, <1>3, <1>4

\* The pieces at the head of what is under way, where the body has no chunks.
LEMMA TakesPieces ==
  ASSUME req \in Requests, wire \in Seq(Token), NEW a, NEW b, Between(a, b),
         a.at = "body", req.framing # "chunked", NEW n \in Nat, n <= Len(wire),
         Deliver(SubSeq(wire, 1, n))
  PROVE  \E c \in NodeSet(req) :
           /\ c.at = "body" /\ c.k = a.k + n
           /\ Leads(req, c, SubSeq(wire, n + 1, Len(wire)), b)
           /\ Got(req, Taken', body', c.k) /\ SubSeq(wire, n + 1, Len(wire)) \in Seq(Token)
<1>1. PICK w, k : w = wire /\ k = a.k
  OBVIOUS
<1> DEFINE v == SubSeq(w, 1, n)
<1>2. w \in Seq(Token) /\ n \in 0 .. Len(w)
  BY <1>1
<1>3. v \in Seq(Token) /\ Len(v) = n /\ SubSeq(w, n + 1, Len(w)) \in Seq(Token)
  BY <1>2
<1>4. a \in NodeSet(req) /\ b \in NodeSet(req) /\ Leads(req, a, w, b)
  BY <1>1, Apart
<1>5. k \in 0 .. Size(req)
  BY <1>1, <1>4 DEF NodeSet
<1>6. PICK c \in NodeSet(req) : Leads(req, a, v, c) /\ Leads(req, c, SubSeq(w, n + 1, Len(w)), b)
  BY <1>2, <1>4, LeadsSplit
<1> HIDE DEF v
<1>7. /\ c.at = "body" /\ c.k = k + n /\ k + n <= Size(req)
      /\ \A j \in 1 .. n : v[j] = PiecesOf[req][k + j]
  BY <1>1, <1>3, <1>4, <1>6, PlainBody
<1>8. Received(k) /\ Deliver(v)
  BY <1>1 DEF Between, v
<1>9. Got(req, Taken', body', k + n)
  BY <1>3, <1>5, <1>7, <1>8, Delivers DEF Taken
<1> QED BY <1>1, <1>3, <1>6, <1>7, <1>9

LEMMA BlockKeeps ==
  ASSUME req \in Requests, ~flag, Good, ReadBlock, Stays
  PROVE  Good'
<1>1. phase = "block" /\ framing' = framing
  BY DEF ReadBlock
<1>2. ~woken /\ wire \in Seq(Token) /\ SrvInv /\ (Lost \/ Aligned)
  BY <1>1, InTheMiddle
<1>3. PICK n : /\ n = IF req.streaming /\ BlockSize < need THEN BlockSize ELSE need
               /\ \/ /\ Has(n) /\ Take(n) /\ Deliver(SubSeq(wire, 1, n))
                     /\ need' = need - n /\ phase' = IF need = n THEN "close" ELSE "block"
                  \/ Fails(n) /\ phase' = "close" /\ wire' = <<>> /\ UNCHANGED <<need, parser>>
  BY DEF ReadBlock, Cancelled, To
<1>4. Len(wire) \in Nat /\ Size(req) \in Nat /\ BlockSize \in Nat \ {0}
  BY <1>2, PiecesShape, RequestAssumption
<1>5. CASE Lost
  <2>1. stage = "broken" /\ wire = <<>> /\ need \in Nat /\ \E k \in 0 .. Size(req) : Received(k)
    BY <1>1, <1>5 DEF Lost
  <2>2. PICK k \in 0 .. Size(req) : Received(k)
    BY <2>1
  <2>3. n \in Nat /\ (n = 0 => need = 0)
    BY <1>3, <1>4, <2>1
  <2>4. phase' = "close" /\ Got(req, Taken', body', k)
    <3>1. CASE Has(n) /\ Take(n) /\ Deliver(SubSeq(wire, 1, n)) /\ phase' = IF need = n THEN "close" ELSE "block"
      <4>1. n = 0 /\ need = 0
        BY <2>1, <2>3, <3>1 DEF Has
      <4>2. SubSeq(wire, 1, n) = <<>>
        BY <1>2, <4>1
      <4> DEFINE v == <<>>
      <4>3. /\ v \in Seq(Token) /\ Len(v) = 0 /\ k + Len(v) = k /\ k + Len(v) <= Size(req)
            /\ \A j \in 1 .. Len(v) : v[j] = PiecesOf[req][k + j]
        BY <1>4, EmptySeq
      <4>4. Deliver(v)
        BY <3>1, <4>2, Zenon
      <4> HIDE DEF v
      <4>5. Got(req, Taken', body', k + Len(v))
        BY <2>2, <4>3, <4>4, Delivers DEF Taken
      <4> QED BY <3>1, <4>1, <4>3, <4>5
    <3>2. CASE phase' = "close" /\ UNCHANGED <<need, parser>>
      BY <2>2, <3>2, Untouched, Zenon DEF Received
    <3> QED BY <1>3, <3>1, <3>2
  <2> QED BY <1>2, <2>1, <2>4, Finishes
<1>6. CASE Aligned
  <2>1. PICK a, b : Between(a, b)
    BY <1>6 DEF Aligned
  <2>2. /\ a \in NodeSet(req) /\ b \in NodeSet(req) /\ Leads(req, a, wire, b)
        /\ stage # "broken" => b = SrvNode
        /\ Got(req, Taken, body, a.k)
    BY <2>1, Apart
  <2>3. a.at = "body" /\ need = Size(req) - a.k /\ req.framing # "chunked"
    BY <1>1, <2>1, Apart DEF HereAt
  <2>4. a.k \in 0 .. Size(req) /\ need \in Nat
    BY <1>4, <2>2, <2>3 DEF NodeSet
  <2>5. n \in Nat /\ n <= need
    BY <1>3, <1>4, <2>4
  <2>6. CASE /\ Has(n) /\ Take(n) /\ Deliver(SubSeq(wire, 1, n))
             /\ need' = need - n /\ phase' = IF need = n THEN "close" ELSE "block"
    <3>1. n <= Len(wire)
      BY <1>4, <2>5, <2>6 DEF Has
    <3>2. PICK c \in NodeSet(req) :
            /\ c.at = "body" /\ c.k = a.k + n
            /\ Leads(req, c, SubSeq(wire, n + 1, Len(wire)), b)
            /\ Got(req, Taken', body', c.k) /\ SubSeq(wire, n + 1, Len(wire)) \in Seq(Token)
      BY <1>2, <2>1, <2>3, <2>5, <2>6, <3>1, TakesPieces
    <3>3. c.k \in 0 .. Size(req)
      BY <3>2 DEF NodeSet
    <3>4. CASE need = n
      <4>1. c.k = Size(req) /\ phase' = "close"
        BY <1>4, <2>3, <2>4, <2>6, <3>2, <3>4
      <4> QED BY <1>2, <3>2, <3>3, <4>1, Finishes
    <3>5. CASE need # n
      <4>1. need' = Size(req) - c.k /\ phase' = "block"
        BY <1>4, <2>3, <2>4, <2>5, <2>6, <3>2, <3>5
      <4>2. HereAt(req, phase', framing', need', c)
        BY <2>3, <3>2, <4>1 DEF HereAt
      <4>3. wire' = SubSeq(wire, n + 1, Len(wire))
        BY <2>6 DEF Take
      <4> QED BY <1>2, <2>2, <3>2, <4>1, <4>2, <4>3, Arrives
    <3> QED BY <3>4, <3>5
  <2>7. CASE Fails(n) /\ phase' = "close" /\ wire' = <<>> /\ UNCHANGED <<need, parser>>
    <3>1. stage \in {"over", "broken"} /\ Len(wire) < n
      BY <1>2, <1>4, <2>5, <2>7, FailsAtEnd DEF Has
    <3>2. stage # "over"
      <4>1. b.k = a.k + Len(wire)
        BY <1>2, <2>2, <2>3, PlainBody
      <4>2. b.k # Size(req)
        BY <1>4, <2>3, <2>4, <2>5, <3>1, <4>1
      <4> QED BY <2>2, <2>3, <4>2, NodeParts DEF SrvNode
    <3>3. Got(req, Taken', body', a.k)
      BY <2>2, <2>7, Untouched, Zenon
    <3> QED BY <1>2, <2>4, <2>7, <3>1, <3>2, <3>3, Finishes
  <2> QED BY <1>3, <2>6, <2>7
<1> QED BY <1>2, <1>5, <1>6

LEMMA RestKeeps ==
  ASSUME req \in Requests, ~flag, Good, ReadRest, Stays
  PROVE  Good'
<1>1. phase = "rest" /\ UNCHANGED <<framing, need>>
  BY DEF ReadRest
<1>2. ~woken /\ wire \in Seq(Token) /\ SrvInv /\ (Lost \/ Aligned)
  BY <1>1, InTheMiddle
<1>3. \/ Has(1) /\ Take(Len(wire)) /\ Deliver(wire) /\ phase' = "rest"
      \/ (~req.tls \/ Fails(1)) /\ phase' = "close" /\ UNCHANGED <<wire, parser>>
  BY DEF ReadRest, Cancelled, To
<1>4. Len(wire) \in Nat /\ Size(req) \in Nat
  BY <1>2, PiecesShape
<1>5. CASE Lost
  <2>1. stage = "broken" /\ wire = <<>> /\ \E k \in 0 .. Size(req) : Received(k)
    BY <1>5 DEF Lost
  <2>2. PICK k \in 0 .. Size(req) : Received(k)
    BY <2>1
  <2>3. phase' = "close" /\ UNCHANGED <<wire, parser>>
    BY <1>3, <2>1 DEF Has
  <2>4. Got(req, Taken', body', k)
    BY <2>2, <2>3, Untouched, Zenon DEF Received
  <2> QED BY <1>2, <2>1, <2>3, <2>4, Finishes
<1>6. CASE Aligned
  <2>1. PICK a, b : Between(a, b)
    BY <1>6 DEF Aligned
  <2>2. /\ a \in NodeSet(req) /\ b \in NodeSet(req) /\ Leads(req, a, wire, b)
        /\ stage # "broken" => b = SrvNode
        /\ Got(req, Taken, body, a.k)
    BY <2>1, Apart
  <2>3. a.at = "body" /\ req.framing # "chunked"
    BY <1>1, <2>1, Apart DEF HereAt
  <2>4. a.k \in 0 .. Size(req)
    BY <2>2 DEF NodeSet
  <2>5. CASE Has(1) /\ Take(Len(wire)) /\ Deliver(wire) /\ phase' = "rest"
    <3>1. SubSeq(wire, 1, Len(wire)) = wire /\ Len(wire) <= Len(wire)
      BY <1>2
    <3>2. Deliver(SubSeq(wire, 1, Len(wire)))
      BY <2>5, <3>1, Zenon
    <3>3. PICK n : n = Len(wire)
      OBVIOUS
    <3>4. Deliver(SubSeq(wire, 1, n)) /\ n \in Nat /\ n <= Len(wire)
      BY <1>4, <3>1, <3>2, <3>3
    <3>5. PICK c \in NodeSet(req) :
            /\ c.at = "body" /\ c.k = a.k + n
            /\ Leads(req, c, SubSeq(wire, n + 1, Len(wire)), b)
            /\ Got(req, Taken', body', c.k) /\ SubSeq(wire, n + 1, Len(wire)) \in Seq(Token)
      BY <1>2, <2>1, <2>3, <3>4, TakesPieces
    <3>6. wire' = SubSeq(wire, n + 1, Len(wire))
      BY <2>5, <3>3 DEF Take
    <3>7. HereAt(req, phase', framing', need', c)
      BY <2>3, <2>5, <3>5 DEF HereAt
    <3> QED BY <1>2, <2>2, <2>5, <3>5, <3>6, <3>7, Arrives
  <2>6. CASE (~req.tls \/ Fails(1)) /\ phase' = "close" /\ UNCHANGED <<wire, parser>>
    <3>1. Got(req, Taken', body', a.k)
      BY <2>2, <2>6, Untouched, Zenon
    <3>2. CASE ~req.tls
      BY <1>2, <2>4, <2>6, <3>1, <3>2, Finishes
    <3>3. CASE Fails(1)
      <4>1. wire = <<>> /\ stage \in {"over", "broken"}
        BY <1>2, <3>3, FailsEmpty
      <4>2. stage = "over" => a.k = Size(req)
        BY <2>1, <2>3, <4>1, SamePlace, NodeParts
      <4> QED BY <1>2, <2>4, <2>6, <3>1, <4>1, <4>2, Finishes
    <3> QED BY <2>6, <3>2, <3>3
  <2> QED BY <1>3, <2>5, <2>6
<1> QED BY <1>2, <1>5, <1>6

\* What is accepted of a response that was read as far as it goes.
LEMMA Accepts ==
  ASSUME req \in Requests, ~flag, Done, Verdict, outcome' = "accepted", UNCHANGED <<req, service>>
  PROVE  CutIsPrefix' /\ StreamedEqualsWhole'
<1>1. PICK k \in 0 .. Size(req) :
        Received(k) /\ (k = Size(req) \/ stage = "broken" \/ ~req.tls)
  BY DEF Done
<1>2. Size(req) \in Nat /\ Count(req) \in Nat /\ k \in Nat
  BY PiecesShape
<1>3. stage' = stage /\ req' = req /\ UNCHANGED parser
  BY DEF service, Verdict
<1>4. stage = "over" /\ req.tls => k = Size(req)
  BY <1>1
<1>5. req.streaming \in BOOLEAN /\ req.unasked \in BOOLEAN /\ (req.unasked => ~req.streaming)
  BY AnswerParts
<1>6. /\ req.streaming => message' = <<Collected(rx)>>
      /\ ~req.streaming => Answered # <<>> /\ message' = Answered
  BY DEF Verdict, Over
<1>7. CASE req.streaming
  <2>1. Taken = ParserAt(req, k)
    BY <1>1, <1>7, Zenon DEF Received, Got
  <2>2. rx = ParserAt(req, k).rx /\ events = ParserAt(req, k).events
    BY <2>1 DEF Taken
  <2>3. \E e \in Nat : events = [i \in 1 .. e |-> i]
    <3>1. CASE k < 2
      <4>1. events = <<>>
        BY <2>2, <3>1 DEF ParserAt
      <4>2. <<>> = [i \in 1 .. 0 |-> i]
        OBVIOUS
      <4> QED BY <4>1, <4>2
    <3>2. CASE ~(k < 2)
      <4>1. events = [i \in 1 .. (k - 2) \div 4 |-> i]
        BY <2>2, <3>2 DEF ParserAt, Quarter
      <4>2. (k - 2) \div 4 \in Nat
        BY <1>2, <3>2
      <4> QED BY <4>1, <4>2
    <3> QED BY <3>1, <3>2
  <2>4. events = [i \in 1 .. Len(events) |-> i]
    BY <2>3
  <2>5. CutIsPrefix'
    <3>1. events' = events
      BY <1>3 DEF parser
    <3>2. events' = [i \in 1 .. Len(events') |-> i]
      BY <2>4, <3>1, Zenon
    <3>3. req'.streaming /\ ~req'.unasked
      BY <1>3, <1>5, <1>7
    <3> QED BY <3>2, <3>3 DEF CutIsPrefix
  <2>6. ASSUME k = Size(req) PROVE message' = <<Expected(req)>>
    <3>1. ~req.unasked /\ IsStream(req) /\ Base(req) = 2
      BY <1>5, <1>7 DEF IsStream, Base
    <3>2. k = 2 + 4 * Count(req)
      BY <2>6, <3>1, PiecesShape
    <3>3. ~(k < 2) /\ (k - 2) \div 4 = Count(req)
      BY <1>2, <3>2
    <3>4. rx = Merging(req)[Count(req)]
      BY <2>2, <3>3 DEF ParserAt, Quarter
    <3>5. Collected(Merging(req)[Count(req)]) = Expected(req)
      BY <1>7, MergingIs DEF IsMerging
    <3> QED BY <1>6, <1>7, <3>4, <3>5
  <2>7. StreamedEqualsWhole'
    BY <1>3, <1>4, <2>6 DEF StreamedEqualsWhole
  <2> QED BY <2>5, <2>7
<1>8. CASE req.unasked
  <2>1. body = SubSeq(PiecesOf[req], 1, k)
    BY <1>1, <1>5, <1>8 DEF Received, Got
  <2>2. /\ (k + 2) \div 4 \in 0 .. Count(req)
        /\ Parsed = SubSeq(EventsOf[req], 1, (k + 2) \div 4)
    BY <1>8, <2>1, ParsedEvents
  <2>3. Parsed' = Parsed
    BY <1>3 DEF Parsed, parser
  <2>4. message' = <<agent_parse_response_body(req.provider, Parsed, MaxCalls)>>
    BY <1>5, <1>6, <1>8 DEF Answered
  <2>5. CutIsPrefix'
    <3>1. \E n \in 0 .. Len(EventsOf[req']) : Parsed' = SubSeq(EventsOf[req'], 1, n)
      BY <1>3, <2>2, <2>3, Zenon DEF Count
    <3>2. ~req'.streaming /\ req'.unasked
      BY <1>3, <1>5, <1>8
    <3> QED BY <3>1, <3>2 DEF CutIsPrefix
  <2>6. ASSUME k = Size(req) PROVE message' = <<Expected(req)>>
    <3>1. IsStream(req) /\ Base(req) = 0
      BY <1>8 DEF IsStream, Base
    <3>2. k = 4 * Count(req)
      BY <1>2, <2>6, <3>1, PiecesShape
    <3>3. (k + 2) \div 4 = Count(req)
      BY <1>2, <3>2
    <3>4. Parsed = EventsOf[req]
      <4>1. EventsOf[req] \in Seq(EventRecord)
        BY EventsSeq
      <4>2. SubSeq(EventsOf[req], 1, Len(EventsOf[req])) = EventsOf[req]
        BY <4>1
      <4> QED BY <2>2, <3>3, <4>2 DEF Count
    <3>5. agent_parse_response_body(req.provider, EventsOf[req], MaxCalls) = Expected(req)
      BY <1>8, BodyReads
    <3> QED BY <2>4, <3>4, <3>5
  <2>7. StreamedEqualsWhole'
    BY <1>3, <1>4, <2>6 DEF StreamedEqualsWhole
  <2> QED BY <2>5, <2>7
<1>9. CASE ~req.streaming /\ ~req.unasked
  <2>1. message' = parse_response(req.provider, req.answer, body # Pieces) /\ message' # <<>>
    BY <1>6, <1>9 DEF Answered
  <2>2. body = Pieces
    BY <2>1 DEF parse_response, anthropic_parse_response, deepseek_parse_response
  <2>3. message' = parse_response(req.provider, req.answer, FALSE)
    BY <2>1, <2>2
  <2>5. message' = <<Expected(req)>>
    BY <1>9, <2>1, <2>3, WholeReads
  <2>6. StreamedEqualsWhole'
    BY <1>3, <2>5 DEF StreamedEqualsWhole
  <2>7. CutIsPrefix'
    BY <1>3, <1>9, <2>5 DEF CutIsPrefix
  <2> QED BY <2>6, <2>7
<1> QED BY <1>5, <1>7, <1>8, <1>9

\* The invariant holds at the start; every step keeps it.
LEMMA Initially ==
  ASSUME Init
  PROVE  IInv
<1>1. /\ req \in Requests /\ phase = "connect" /\ framing = "close" /\ wire = <<>> /\ woken = FALSE
      /\ flag = FALSE /\ outcome = "none" /\ stage = "status" /\ sent = 0 /\ left = 0 /\ open = TRUE
      /\ line = <<>> /\ data = <<>> /\ rx = NothingYet /\ events = <<>> /\ body = <<>>
  BY DEF Init
<1>2. Size(req) \in Nat /\ PiecesOf[req] \in Seq(Token)
  BY <1>1, PiecesShape
<1>3. SrvInv
  <2>1. sent \in 0 .. Size(req) /\ left \in 0 .. Size(req) - sent /\ ~(left > 0)
    BY <1>1, <1>2
  <2>2. open = (stage \notin {"over", "broken"})
    BY <1>1
  <2> QED BY <1>1, <2>1, <2>2 DEF SrvInv
<1> DEFINE a == Node("status", 0, 0)
<1>4. a \in NodeSet(req) /\ a = SrvNode /\ a.k = 0
  BY <1>1, <1>2 DEF NodeSet, Node, SrvNode
<1>5. Leads(req, a, wire, a)
  BY <1>1, <1>4, LeadsNowhere
<1>6. Here(a)
  BY <1>1 DEF Here, HereAt
<1>7. Received(0)
  <2>1. Taken = ParserAt(req, 0)
    BY <1>1 DEF Taken, ParserAt
  <2>2. SubSeq(PiecesOf[req], 1, 0) = <<>>
    BY <1>2
  <2> QED BY <1>1, <2>1, <2>2, Zenon DEF Received, Got
<1> HIDE DEF a
<1>8. Between(a, a)
  BY <1>4, <1>5, <1>6, <1>7 DEF Between
<1>9. Reading /\ wire \in Seq(Token)
  BY <1>1, EmptySeq DEF Reading
<1>10. Good
  BY <1>1, <1>3, <1>8, <1>9, Zenon DEF Good, Aligned
<1> QED BY <1>1, <1>10 DEF IInv, CutIsPrefix, StreamedEqualsWhole

LEMMA ClientKeeps ==
  ASSUME IInv, Client
  PROVE  IInv'
<1>1. Stays /\ req' = req /\ flag' = flag /\ req \in Requests /\ flag \in BOOLEAN /\ stage' = stage
  BY DEF Client, Stays, IInv, service
<1>2. ~flag => Good
  BY DEF IInv
<1>3. phase # "over" /\ outcome # "accepted"
  BY DEF Client, IInv, tls_connect, ReadStatus, ReadHeader, ReadSize, ReadChunk, ReadChunkEnd,
         ReadTrailer, ReadBlock, ReadRest, Verdict
<1>4. CutIsPrefix /\ StreamedEqualsWhole
  BY DEF IInv
<1>5. CASE Verdict
  <2>1. phase' = "over" /\ (outcome' = "accepted" => ~flag)
    BY <1>5 DEF Verdict, Over
  <2>2. Good'
    BY <1>1, <2>1, GivesUp
  <2>3. CASE outcome' = "accepted"
    <3>1. Done
      BY <1>2, <1>3, <1>5, <2>1, <2>3 DEF Good, Reading, Verdict
    <3>2. CutIsPrefix' /\ StreamedEqualsWhole'
      BY <1>1, <1>5, <2>1, <2>3, <3>1, Accepts DEF Stays
    <3> QED BY <1>1, <2>1, <2>2, <3>2 DEF IInv
  <2>4. CASE outcome' # "accepted"
    <3>1. CutIsPrefix' /\ StreamedEqualsWhole'
      BY <2>4 DEF CutIsPrefix, StreamedEqualsWhole
    <3> QED BY <1>1, <2>2, <2>4, <3>1 DEF IInv
  <2> QED BY <2>3, <2>4
<1>6. CASE ~Verdict
  <2>1. outcome' # "accepted"
    BY <1>3, <1>6 DEF Client, tls_connect, ReadStatus, ReadHeader, ReadSize, ReadChunk, ReadChunkEnd,
         ReadTrailer, ReadBlock, ReadRest, Over, result
  <2>2. ~flag => Good'
    <3> SUFFICES ASSUME ~flag PROVE Good'
      OBVIOUS
    <3>1. Good
      BY <1>2
    <3>2. \/ tls_connect \/ ReadStatus \/ ReadHeader \/ ReadSize \/ ReadChunk \/ ReadChunkEnd
          \/ ReadTrailer \/ ReadBlock \/ ReadRest
      BY <1>6 DEF Client
    <3> QED BY <1>1, <3>1, <3>2, ConnectKeeps, StatusKeeps, HeaderKeeps, SizeKeeps, ChunkKeeps,
               ChunkEndKeeps, TrailerKeeps, BlockKeeps, RestKeeps
  <2>3. CutIsPrefix' /\ StreamedEqualsWhole'
    BY <2>1 DEF CutIsPrefix, StreamedEqualsWhole
  <2> QED BY <1>1, <2>1, <2>2, <2>3 DEF IInv
<1> QED BY <1>5, <1>6

LEMMA NextKeeps ==
  ASSUME IInv, [Next]_vars
  PROVE  IInv'
<1>0. /\ req \in Requests /\ flag \in BOOLEAN /\ (~flag => Good)
      /\ (outcome = "accepted" => phase = "over") /\ CutIsPrefix /\ StreamedEqualsWhole
  BY DEF IInv
<1>1. CASE Serve
  <2>1. /\ UNCHANGED <<req, phase, parser, user, result>> /\ phase # "over"
    BY <1>1 DEF Serve
  <2>2. req' = req /\ flag' = flag /\ outcome' # "accepted"
    BY <1>0, <2>1 DEF user, result
  <2>3. CutIsPrefix' /\ StreamedEqualsWhole'
    BY <2>2 DEF CutIsPrefix, StreamedEqualsWhole
  <2>4. ~flag => Good'
    BY <1>0, <1>1, ServeKeeps
  <2> QED BY <1>0, <2>2, <2>3, <2>4 DEF IInv
<1>2. CASE Client
  BY <1>2, ClientKeeps
<1>3. CASE Press
  <2>1. flag' = TRUE /\ phase # "over" /\ UNCHANGED <<req, phase, result>>
    BY <1>3 DEF Press
  <2>2. outcome' # "accepted"
    BY <1>0, <2>1 DEF result
  <2>3. CutIsPrefix' /\ StreamedEqualsWhole'
    BY <2>2 DEF CutIsPrefix, StreamedEqualsWhole
  <2> QED BY <1>0, <2>1, <2>2, <2>3 DEF IInv
<1>4. CASE UNCHANGED vars
  <2>1. /\ req' = req /\ stage' = stage /\ sent' = sent /\ left' = left /\ open' = open /\ wire' = wire
        /\ phase' = phase /\ framing' = framing /\ need' = need /\ line' = line /\ data' = data
        /\ rx' = rx /\ events' = events /\ body' = body /\ flag' = flag /\ woken' = woken
        /\ outcome' = outcome /\ message' = message
    BY <1>4 DEF vars, service, parser, user, result
  <2>2. UNCHANGED <<req, parser>> /\ UNCHANGED <<req, phase, framing, need>>
    BY <2>1 DEF parser
  <2>3. \A k : Received(k) => Received(k)'
    BY <2>2, Keeps
  <2>4. \A a : Here(a) => Here(a)'
    BY <2>2, HereKept
  <2>5. SrvNode' = SrvNode /\ (SrvInv => SrvInv')
    BY <2>1 DEF SrvNode, SrvInv
  <2>6. Aligned => Aligned'
    <3>1. \A a, b : Between(a, b) => Between(a, b)'
      BY <2>1, <2>3, <2>4, <2>5, Zenon DEF Between
    <3> QED BY <3>1, Zenon DEF Aligned
  <2>7. Lost => Lost'
    BY <2>1, <2>3 DEF Lost
  <2>8. Done => Done'
    BY <2>1, <2>3 DEF Done
  <2>9. Good => Good'
    BY <2>1, <2>5, <2>6, <2>7, <2>8 DEF Good, Reading
  <2>10. Parsed' = Parsed
    BY <2>1 DEF Parsed
  <2>11. CutIsPrefix' /\ StreamedEqualsWhole'
    <3>1. CutIsPrefix'
      BY <1>0, <2>1, <2>10 DEF CutIsPrefix
    <3>2. StreamedEqualsWhole'
      BY <1>0, <2>1 DEF StreamedEqualsWhole
    <3> QED BY <3>1, <3>2
  <2> QED BY <1>0, <2>1, <2>9, <2>11 DEF IInv
<1> QED BY <1>1, <1>2, <1>3, <1>4 DEF Next

\* In every state the client has got the first pieces of the body and knows where
\* it is in the response, or has lost the connection or is done with it, and the
\* parser and the merger are where those pieces take them (http_request_stream,
\* sse_parser_feed and stream_sse_event).
THEOREM StreamInvariance == Spec => []IInv
<1>1. Init => IInv
  BY Initially
<1>2. IInv /\ [Next]_vars => IInv'
  BY NextKeeps
<1> QED BY <1>1, <1>2, PTL DEF Spec

\* A message accepted from a connection that did not break is the whole answer the
\* service gave, whichever of the two protocols it speaks and however it was framed
\* and cut into chunks: for any number of events, calls and pieces of arguments.
THEOREM WholeAnswer == Spec => []StreamedEqualsWhole
<1>1. IInv => StreamedEqualsWhole
  BY DEF IInv
<1> QED BY <1>1, StreamInvariance, PTL

\* From a connection that broke, a stream is accepted as whole events from the start
\* of the answer, in order and each once; a body that is no stream is accepted
\* entire or not at all.
THEOREM PrefixOnly == Spec => []CutIsPrefix
<1>1. IInv => CutIsPrefix
  BY DEF IInv
<1> QED BY <1>1, StreamInvariance, PTL
=============================================================================
