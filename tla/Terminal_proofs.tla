---------------------------- MODULE Terminal_proofs ----------------------------
(* What happens at the terminal, for any calls, characters, keys typed ahead,  *)
(* commands and history size.                                                  *)
(*                                                                             *)
(* Approval: one "yes" never lets two calls through, and without parallel      *)
(* tools and lines of more than 63 bytes the call that runs is the one the     *)
(* user approved.                                                              *)
(*                                                                             *)
(* LineEditor: the editor of utf8_input.c works on bytes and does what an      *)
(* editor of whole characters does.  The argument is in the buffer and in the  *)
(* terminal's queue: between two calls of read the queue begins with a key, or *)
(* with the rest of the character whose first bytes are before the cursor      *)
(* (QueueInv).  It needs two things that the code does not see to: that a scan *)
(* for continuation bytes finds the characters (TextAssumption), and that the  *)
(* one read behind an escape takes all that waits (EscapesSwallowAll).         *)
EXTENDS Approval, LineEditor, FiniteSetTheorems, SequenceTheorems, WellFoundedInduction, TLAPS

-----------------------------------------------------------------------------
(* Approval                                                                    *)

\* The yeses among the pieces q, and the calls the user said yes to.
Unread(q) == {k \in DOMAIN q : q[k]}
Wanted == {c \in answered : intent[c]}

\* OneCallPerYes counts finite sets.
CountInv ==
  /\ IsFiniteSet(Allowed) /\ IsFiniteSet(answered)
  /\ Cardinality(Allowed) + Cardinality(Unread(input))
       <= Cardinality(Wanted) + Cardinality(Unread(rest))

\* Without parallel tools there is one prompt at a time, and if no line was longer
\* than one piece, what may wait to be read is the answer to it.
OneAtATime ==
  ~parallel /\ rest = << >> =>
    /\ \A c, d \in Calls : Busy(c) /\ Busy(d) => c = d
    /\ \A c \in Calls : Busy(c) /\ c \in answered => input = <<intent[c]>>
    /\ (\A c \in Calls : Busy(c) => c \notin answered) => input = << >>
    /\ ~eof => \A c \in Calls : state[c] \in {"allowed", "denied"} => c \in answered
    /\ \A c \in Allowed : intent[c]

\* Without parallel tools a risky call runs only if the user approved that call, as
\* long as every line typed at a prompt fits in the 63 bytes that are read.
ApprovedInSequence == ~parallel /\ rest = << >> => RunsOnlyIfApproved

States == {"start", "shown", "reading", "allowed", "denied"}

LEMMA UnreadFinite ==
  ASSUME NEW q \in Seq(BOOLEAN)
  PROVE  IsFiniteSet(Unread(q)) /\ Cardinality(Unread(q)) \in Nat
<1>1. DOMAIN q = 1..Len(q) /\ Len(q) \in Nat
  BY LenProperties
<1>2. IsFiniteSet(1..Len(q))
  BY <1>1, FS_Interval
<1>3. Unread(q) \in SUBSET (1..Len(q))
  BY <1>1 DEF Unread
<1>4. IsFiniteSet(Unread(q))
  BY <1>2, <1>3, FS_Subset
<1> QED BY <1>4, FS_CardinalityType

\* A piece is typed.
LEMMA UnreadAppend ==
  ASSUME NEW q \in Seq(BOOLEAN), NEW b \in BOOLEAN
  PROVE  Cardinality(Unread(Append(q, b))) = Cardinality(Unread(q)) + (IF b THEN 1 ELSE 0)
<1> DEFINE r == Append(q, b)
           n == Len(q) + 1
<1>1. /\ DOMAIN q = 1..Len(q) /\ Len(q) \in Nat /\ DOMAIN r = 1..n
      /\ \A k \in 1..Len(q) : r[k] = q[k]
      /\ r[n] = b
  BY AppendProperties, LenProperties
<1> HIDE DEF r
<1>2. n \notin Unread(q)
  BY <1>1 DEF Unread
<1>3. IsFiniteSet(Unread(q)) /\ Cardinality(Unread(q)) \in Nat
  BY UnreadFinite
<1>4. CASE b
  <2>1. Unread(r) = Unread(q) \cup {n}
    <3>1. r[n] /\ 1..n = 1..Len(q) \cup {n}
      BY <1>1, <1>4
    <3>2. \A k \in 1..Len(q) : r[k] <=> q[k]
      BY <1>1
    <3> QED BY <1>1, <3>1, <3>2, Zenon DEF Unread
  <2>2. Cardinality(Unread(r)) = Cardinality(Unread(q)) + 1
    BY <1>2, <1>3, <2>1, FS_AddElement
  <2> QED BY <1>4, <2>2 DEF r
<1>5. CASE ~b
  <2>1. Unread(r) = Unread(q)
    BY <1>1, <1>5 DEF Unread
  <2> QED BY <1>3, <1>5, <2>1 DEF r
<1> QED BY <1>4, <1>5

\* The rest of its line is behind it.
LEMMA UnreadConcat ==
  ASSUME NEW q \in Seq(BOOLEAN), NEW r \in Seq(BOOLEAN)
  PROVE  Cardinality(Unread(q \o r)) = Cardinality(Unread(q)) + Cardinality(Unread(r))
<1> DEFINE w == q \o r
           n == Len(q)
           T == Unread(r)
           S == {k \in Unread(w) : k > n}
           f == [k \in T |-> k + n]
<1>1. /\ w \in Seq(BOOLEAN) /\ n \in Nat /\ Len(r) \in Nat
      /\ DOMAIN q = 1..n /\ DOMAIN r = 1..Len(r) /\ DOMAIN w = 1..(n + Len(r))
      /\ \A k \in 1..n : w[k] = q[k]
      /\ \A k \in (n + 1)..(n + Len(r)) : w[k] = r[k - n]
  <2>1. /\ w \in Seq(BOOLEAN) /\ Len(w) = n + Len(r)
        /\ \A k \in 1..(n + Len(r)) : w[k] = IF k <= n THEN q[k] ELSE r[k - n]
    BY ConcatProperties
  <2>2. /\ n \in Nat /\ Len(r) \in Nat
        /\ DOMAIN q = 1..n /\ DOMAIN r = 1..Len(r) /\ DOMAIN w = 1..Len(w)
    BY <2>1, LenProperties
  <2> HIDE DEF w, n
  <2> QED BY <2>1, <2>2
<1> HIDE DEF w, n
<1>2. /\ IsFiniteSet(Unread(q)) /\ IsFiniteSet(Unread(r)) /\ IsFiniteSet(Unread(w))
      /\ Cardinality(Unread(q)) \in Nat /\ Cardinality(Unread(r)) \in Nat
  BY <1>1, UnreadFinite
<1>3. Unread(q) \cup S = Unread(w) /\ Unread(q) \cap S = {}
  <2>1. \A k \in 1..n : k \in Unread(w) <=> k \in Unread(q)
    BY <1>1 DEF Unread
  <2>2. \A k \in Unread(w) : k \in Int /\ (k \in 1..n \/ k > n)
    BY <1>1 DEF Unread
  <2>3. Unread(q) \subseteq 1..n
    BY <1>1 DEF Unread
  <2>4. \A k \in S : k \notin 1..n
    BY <1>1
  <2>5. S \subseteq Unread(w)
    OBVIOUS
  <2>6. \A k \in Unread(w) : k \in Unread(q) \/ k \in S
    BY <2>1, <2>2
  <2> HIDE DEF S
  <2> QED BY <2>1, <2>3, <2>4, <2>5, <2>6
<1>4. Cardinality(S) = Cardinality(T)
  <2>1. \A k \in T : k \in Int /\ k + n \in S
    BY <1>1 DEF Unread
  <2>2. \A j \in S : j - n \in T /\ (j - n) + n = j
    <3> SUFFICES ASSUME NEW j \in S PROVE j - n \in T /\ (j - n) + n = j
      OBVIOUS
    <3>1. j \in (n + 1)..(n + Len(r)) /\ w[j]
      BY <1>1 DEF Unread
    <3>2. j - n \in 1..Len(r) /\ (j - n) + n = j
      BY <1>1, <3>1
    <3>3. r[j - n]
      BY <1>1, <3>1
    <3> QED BY <1>1, <3>2, <3>3 DEF Unread
  <2>3. f \in [T -> S]
    BY <2>1
  <2>4. IsInjective(f)
    BY <1>1, <2>1 DEF IsInjective
  <2>5. \A j \in S : \E k \in T : f[k] = j
    BY <2>2
  <2>6. f \in Bijection(T, S)
    BY <2>3, <2>4, <2>5 DEF Bijection, Injection, Surjection
  <2>7. ExistsBijection(T, S)
    BY <2>6 DEF ExistsBijection
  <2> QED BY <1>2, <2>7, FS_Bijection
<1>5. IsFiniteSet(S)
  <2>1. S \in SUBSET Unread(w)
    OBVIOUS
  <2> QED BY <1>2, <2>1, FS_Subset
<1>6. Cardinality(Unread(w)) = Cardinality(Unread(q)) + Cardinality(S) - Cardinality({})
  BY <1>2, <1>3, <1>5, FS_Union
<1>7. Cardinality({}) = 0
  BY FS_EmptySet
<1> QED BY <1>2, <1>4, <1>6, <1>7 DEF w

\* A piece is read.
LEMMA UnreadTail ==
  ASSUME NEW q \in Seq(BOOLEAN), q # << >>
  PROVE  Cardinality(Unread(Tail(q))) = Cardinality(Unread(q)) - (IF Head(q) THEN 1 ELSE 0)
<1> DEFINE r == Tail(q)
           T == Unread(r)
           S == Unread(q) \ {1}
           f == [k \in T |-> k + 1]
<1>1. /\ DOMAIN q = 1..Len(q) /\ Len(q) \in Nat /\ Len(q) >= 1 /\ Head(q) = q[1]
      /\ r \in Seq(BOOLEAN) /\ DOMAIN r = 1..(Len(q) - 1)
      /\ \A k \in 1..(Len(q) - 1) : r[k] = q[k + 1]
  <2>1. /\ r \in Seq(BOOLEAN) /\ Len(r) = Len(q) - 1 /\ Len(q) >= 1 /\ Len(q) \in Nat
        /\ DOMAIN q = 1..Len(q) /\ DOMAIN r = 1..Len(r) /\ Head(q) = q[1]
        /\ \A k \in 1..Len(r) : r[k] = q[k + 1]
    BY HeadTailProperties, LenProperties
  <2> QED BY <2>1
<1> HIDE DEF r
<1>2. IsFiniteSet(Unread(q)) /\ Cardinality(Unread(q)) \in Nat
  BY UnreadFinite
<1>3. IsFiniteSet(T) /\ Cardinality(T) \in Nat
  BY <1>1, UnreadFinite
<1>4. Cardinality(S) = Cardinality(T)
  <2>1. \A k \in T : k \in Int /\ k + 1 \in S
    BY <1>1 DEF Unread
  <2>2. \A j \in S : j - 1 \in T /\ (j - 1) + 1 = j
    <3> SUFFICES ASSUME NEW j \in S PROVE j - 1 \in T /\ (j - 1) + 1 = j
      OBVIOUS
    <3>1. j \in 1..Len(q) /\ j # 1 /\ q[j]
      BY <1>1 DEF Unread
    <3>2. j - 1 \in 1..(Len(q) - 1) /\ (j - 1) + 1 = j
      BY <1>1, <3>1
    <3>3. r[j - 1]
      BY <1>1, <3>1, <3>2
    <3> QED BY <1>1, <3>2, <3>3 DEF Unread
  <2>3. f \in [T -> S]
    BY <2>1
  <2>4. IsInjective(f)
    BY <2>1 DEF IsInjective
  <2>5. \A j \in S : \E k \in T : f[k] = j
    BY <2>2
  <2>6. f \in Bijection(T, S)
    BY <2>3, <2>4, <2>5 DEF Bijection, Injection, Surjection
  <2>7. ExistsBijection(T, S)
    BY <2>6 DEF ExistsBijection
  <2> QED BY <1>3, <2>7, FS_Bijection
<1>5. CASE q[1]
  <2>1. 1 \in Unread(q)
    BY <1>1, <1>5 DEF Unread
  <2>2. Cardinality(S) = Cardinality(Unread(q)) - 1
    BY <1>2, <2>1, FS_RemoveElement
  <2> QED BY <1>1, <1>4, <1>5, <2>2 DEF r
<1>6. CASE ~q[1]
  <2>1. Cardinality(T) = Cardinality(Unread(q))
    <3>1. S = Unread(q)
      BY <1>6 DEF Unread
    <3> QED BY <1>4, <3>1
  <2>2. ~Head(q)
    BY <1>1, <1>6
  <2>3. (IF Head(q) THEN 1 ELSE 0) = 0
    BY <2>2, Zenon
  <2>4. Cardinality(Unread(q)) - 0 = Cardinality(Unread(q))
    BY <1>2
  <2> QED BY <2>1, <2>3, <2>4, Zenon DEF r
<1> QED BY <1>5, <1>6
-----------------------------------------------------------------------------
LEMMA PromptInitInv == PromptInit => TypeOK /\ CountInv /\ OneAtATime
<1> SUFFICES ASSUME PromptInit PROVE TypeOK /\ CountInv /\ OneAtATime
  OBVIOUS
<1>1. /\ state = [c \in Calls |-> "start"] /\ screen = << >> /\ answered = {}
      /\ input \in Seq(BOOLEAN) /\ rest = input /\ intent \in [Calls -> BOOLEAN]
  BY RestsAssumption DEF PromptInit
<1>2. TypeOK
  <2>1. parallel \in BOOLEAN /\ eof \in BOOLEAN
    BY DEF PromptInit
  <2>2. screen \in Seq(Calls) /\ rest \in Seq(BOOLEAN) /\ ToSet(screen) = {}
        /\ IsInjective(screen)
    BY <1>1 DEF ToSet, IsInjective
  <2>3. {c \in Calls : state[c] # "start"} = {}
    BY <1>1
  <2>4. state \in [Calls -> {"start", "shown", "reading", "allowed", "denied"}]
    BY <1>1
  <2> QED BY <1>1, <2>1, <2>2, <2>3, <2>4 DEF TypeOK
<1>3. CountInv
  <2>1. Allowed = {} /\ Wanted = {}
    BY <1>1 DEF Allowed, Wanted
  <2>2. Cardinality(Unread(input)) \in Nat
    BY <1>1, UnreadFinite
  <2> QED BY <1>1, <2>1, <2>2, FS_EmptySet DEF CountInv
<1>4. OneAtATime
  BY <1>1 DEF OneAtATime, Busy, Allowed
<1> QED BY <1>2, <1>3, <1>4

\* The prompts keep their types, each call on the screen once.
LEMMA TypeStep == TypeOK /\ [PromptNext]_prompt_vars => TypeOK'
<1> SUFFICES ASSUME TypeOK, [PromptNext]_prompt_vars PROVE TypeOK'
  OBVIOUS
<1> USE DEF States
<1>1. ASSUME NEW c \in Calls, ShowPrompt(c) PROVE TypeOK'
  <2>1. state' = [state EXCEPT ![c] = "shown"] /\ screen' = Append(screen, c)
        /\ state[c] = "start" /\ UNCHANGED <<parallel, intent, answered, input, rest, eof>>
    BY <1>1 DEF ShowPrompt
  <2>2. screen \in Seq(Calls) /\ IsInjective(screen)
        /\ ToSet(screen) = {d \in Calls : state[d] # "start"} /\ answered \subseteq ToSet(screen)
        /\ state \in [Calls -> States]
    BY DEF TypeOK
  <2>3. /\ screen' \in Seq(Calls) /\ Len(screen) \in Nat
        /\ DOMAIN screen = 1..Len(screen) /\ DOMAIN screen' = 1..(Len(screen) + 1)
        /\ \A k \in 1..Len(screen) : screen'[k] = screen[k]
        /\ screen'[Len(screen) + 1] = c
    BY <2>1, <2>2, AppendProperties, LenProperties
  <2>4. ToSet(screen') = ToSet(screen) \cup {c}
    BY <2>3 DEF ToSet
  <2>5. c \notin ToSet(screen)
    BY <2>1, <2>2
  <2>6. IsInjective(screen')
    <3> SUFFICES ASSUME NEW a \in 1..(Len(screen) + 1), NEW b \in 1..(Len(screen) + 1),
                        screen'[a] = screen'[b]
                 PROVE  a = b
      BY <2>3 DEF IsInjective
    <3>1. \A k \in 1..Len(screen) : screen[k] # c
      BY <2>3, <2>5 DEF ToSet
    <3> QED BY <2>2, <2>3, <3>1 DEF IsInjective
  <2>7. state' \in [Calls -> States]
        /\ {d \in Calls : state'[d] # "start"} = {d \in Calls : state[d] # "start"} \cup {c}
    BY <2>1, <2>2
  <2>8. ToSet(screen') = {d \in Calls : state'[d] # "start"} /\ answered' \subseteq ToSet(screen')
    BY <2>1, <2>2, <2>4, <2>7
  <2> QED BY <2>1, <2>3, <2>6, <2>7, <2>8 DEF TypeOK
<1>2. ASSUME NEW c \in Calls, NEW s \in States \ {"start"},
             state[c] # "start", state' = [state EXCEPT ![c] = s],
             UNCHANGED <<parallel, intent, screen, answered, rest, eof>>,
             input' \in Seq(BOOLEAN)
      PROVE  TypeOK'
  <2>1. state' \in [Calls -> States]
    BY <1>2 DEF TypeOK
  <2>2. {d \in Calls : state'[d] # "start"} = {d \in Calls : state[d] # "start"}
    BY <1>2 DEF TypeOK
  <2> QED BY <1>2, <2>1, <2>2 DEF TypeOK
<1>3. ASSUME NEW c \in Calls, EnterRead(c) \/ FgetsFails(c) PROVE TypeOK'
  <2>1. input' \in Seq(BOOLEAN) /\ state[c] # "start"
    BY <1>3 DEF EnterRead, FgetsFails, TypeOK
  <2> QED BY <1>2, <1>3, <2>1 DEF EnterRead, FgetsFails
<1>4. ASSUME NEW c \in Calls, ReadPiece(c) PROVE TypeOK'
  <2>1. input' \in Seq(BOOLEAN) /\ state[c] # "start"
    BY <1>4, HeadTailProperties DEF ReadPiece, TypeOK
  <2>2. CASE Head(input)
    BY <1>2, <1>4, <2>1, <2>2 DEF ReadPiece
  <2>3. CASE ~Head(input)
    BY <1>2, <1>4, <2>1, <2>3 DEF ReadPiece
  <2> QED BY <2>2, <2>3
<1>5. CASE UserAnswers
  <2>1. UNCHANGED <<parallel, intent, state, screen, eof>>
    BY <1>5 DEF UserAnswers
  <2>2. PICK k \in DOMAIN screen : /\ answered' = answered \cup {screen[k]}
                                   /\ \E r \in Rests :
                                        /\ input' = Append(input, intent[screen[k]]) \o r
                                        /\ rest' = rest \o r
    BY <1>5 DEF UserAnswers
  <2>3. screen[k] \in ToSet(screen) /\ screen[k] \in Calls
    BY DEF ToSet, TypeOK
  <2>4. intent[screen[k]] \in BOOLEAN
    BY <2>3 DEF TypeOK
  <2>5. input' \in Seq(BOOLEAN) /\ rest' \in Seq(BOOLEAN)
    <3>1. Append(input, intent[screen[k]]) \in Seq(BOOLEAN) /\ rest \in Seq(BOOLEAN)
      BY <2>4, AppendProperties DEF TypeOK
    <3> QED BY <2>2, <3>1, ConcatProperties, RestsAssumption
  <2>6. answered' \subseteq ToSet(screen)
    BY <2>2, <2>3 DEF TypeOK
  <2> QED BY <2>1, <2>5, <2>6 DEF TypeOK
<1>6. CASE UserHangsUp
  BY <1>6 DEF UserHangsUp, TypeOK
<1>7. CASE UNCHANGED prompt_vars
  BY <1>7 DEF prompt_vars, TypeOK
<1> QED BY <1>1, <1>3, <1>4, <1>5, <1>6, <1>7 DEF PromptNext, Hook
-----------------------------------------------------------------------------
\* A yes moves from the user to the input and from the input to one call.
LEMMA CountStep == TypeOK /\ CountInv /\ [PromptNext]_prompt_vars => CountInv'
<1> SUFFICES ASSUME TypeOK, CountInv, [PromptNext]_prompt_vars PROVE CountInv'
  OBVIOUS
<1>1. /\ state \in [Calls -> States] /\ intent \in [Calls -> BOOLEAN]
      /\ input \in Seq(BOOLEAN) /\ rest \in Seq(BOOLEAN) /\ answered \subseteq Calls
  BY DEF TypeOK, States
<1>2. /\ IsFiniteSet(Allowed) /\ Cardinality(Allowed) \in Nat
      /\ Cardinality(Unread(input)) \in Nat /\ Cardinality(Unread(rest)) \in Nat
      /\ IsFiniteSet(Wanted) /\ Cardinality(Wanted) \in Nat
      /\ Cardinality(Allowed) + Cardinality(Unread(input))
           <= Cardinality(Wanted) + Cardinality(Unread(rest))
  <2>1. Wanted \in SUBSET answered
    BY DEF Wanted
  <2>2. IsFiniteSet(Wanted)
    BY <2>1, FS_Subset DEF CountInv
  <2> QED BY <1>1, <2>2, UnreadFinite, FS_CardinalityType DEF CountInv
<1>3. ASSUME Allowed' = Allowed, UNCHANGED <<answered, intent, input, rest>> PROVE CountInv'
  BY <1>3 DEF CountInv, Wanted
<1>4. ASSUME NEW c \in Calls, state[c] # "allowed", NEW s \in States,
             state' = [state EXCEPT ![c] = s]
      PROVE  /\ s # "allowed" => Allowed' = Allowed
             /\ s = "allowed" => /\ Allowed' = Allowed \cup {c} /\ c \notin Allowed
  <2>1. s # "allowed" => Allowed' = Allowed
    BY <1>1, <1>4 DEF Allowed
  <2>2. s = "allowed" => Allowed' = Allowed \cup {c} /\ c \notin Allowed
    BY <1>1, <1>4 DEF Allowed
  <2> QED BY <2>1, <2>2
<1>5. ASSUME NEW c \in Calls, ShowPrompt(c) PROVE Allowed' = Allowed
  BY <1>1, <1>5 DEF ShowPrompt, Allowed
<1>6. ASSUME NEW c \in Calls, EnterRead(c) \/ FgetsFails(c) PROVE Allowed' = Allowed
  BY <1>1, <1>6 DEF EnterRead, FgetsFails, Allowed
<1>7. ASSUME NEW c \in Calls, ReadPiece(c) PROVE CountInv'
  <2>1. /\ state[c] = "reading" /\ input # << >> /\ input' = Tail(input)
        /\ state' = [state EXCEPT ![c] = IF Head(input) THEN "allowed" ELSE "denied"]
        /\ UNCHANGED <<answered, intent, rest>>
    BY <1>7 DEF ReadPiece
  <2>2. Cardinality(Unread(input')) = Cardinality(Unread(input)) - (IF Head(input) THEN 1 ELSE 0)
    BY <1>1, <2>1, UnreadTail, Zenon
  <2>3. Wanted' = Wanted
    BY <2>1, Zenon DEF Wanted
  <2>4. CASE Head(input)
    <3>1. state' = [state EXCEPT ![c] = "allowed"] /\ "allowed" \in States
      BY <2>1, <2>4 DEF States
    <3>2. Allowed' = Allowed \cup {c} /\ c \notin Allowed
      BY <1>4, <2>1, <3>1
    <3>3. IsFiniteSet(Allowed') /\ Cardinality(Allowed') = Cardinality(Allowed) + 1
      BY <1>2, <3>2, FS_AddElement
    <3>4. Cardinality(Unread(input')) = Cardinality(Unread(input)) - 1
      BY <2>2, <2>4
    <3>5. Cardinality(Allowed') + Cardinality(Unread(input'))
            <= Cardinality(Wanted') + Cardinality(Unread(rest'))
      <4>1. Cardinality(Unread(rest')) = Cardinality(Unread(rest))
        BY <2>1, Zenon
      <4> QED BY <1>2, <2>3, <3>3, <3>4, <4>1
    <3> QED BY <2>1, <3>3, <3>5 DEF CountInv
  <2>5. CASE ~Head(input)
    <3>1. state' = [state EXCEPT ![c] = "denied"] /\ "denied" \in States
      BY <2>1, <2>5 DEF States
    <3>2. Allowed' = Allowed
      BY <1>4, <2>1, <3>1
    <3>3. (IF Head(input) THEN 1 ELSE 0) = 0
      BY <2>5, Zenon
    <3>4. Cardinality(Unread(input')) = Cardinality(Unread(input))
      <4>1. Cardinality(Unread(input')) = Cardinality(Unread(input)) - 0
        BY <2>2, <3>3, Zenon
      <4> QED BY <1>2, <4>1
    <3> QED BY <1>2, <2>1, <2>3, <3>2, <3>4 DEF CountInv
  <2> QED BY <2>4, <2>5
<1>8. CASE UserAnswers
  <2>1. PICK k \in DOMAIN screen, r \in Rests :
              /\ \A j \in DOMAIN screen : j < k <=> screen[j] \in answered
              /\ answered' = answered \cup {screen[k]}
              /\ input' = Append(input, intent[screen[k]]) \o r
              /\ rest' = rest \o r
    BY <1>8 DEF UserAnswers
  <2> DEFINE x == screen[k]
             added == Cardinality(Unread(r))
  <2>2. x \in Calls /\ x \notin answered
    <3>1. k \in Int
      BY LenProperties DEF TypeOK
    <3> QED BY <2>1, <3>1 DEF TypeOK
  <2>3. UNCHANGED <<intent, state>>
    BY <1>8 DEF UserAnswers
  <2>4. intent[x] \in BOOLEAN
    BY <1>1, <2>2
  <2>5. IsFiniteSet(answered')
    BY <2>1, FS_AddElement DEF CountInv
  <2>6. Allowed' = Allowed
    BY <2>3 DEF Allowed
  <2>10. r \in Seq(BOOLEAN) /\ added \in Nat
    BY RestsAssumption, UnreadFinite
  <2>11. Append(input, intent[x]) \in Seq(BOOLEAN)
    BY <1>1, <2>4, AppendProperties
  <2>12. Cardinality(Unread(Append(input, intent[x])))
           = Cardinality(Unread(input)) + (IF intent[x] THEN 1 ELSE 0)
    BY <1>1, <2>4, UnreadAppend, Zenon
  <2>13. Cardinality(Unread(input')) = Cardinality(Unread(Append(input, intent[x]))) + added
    BY <2>1, <2>10, <2>11, UnreadConcat, Zenon
  <2>14. Cardinality(Unread(rest')) = Cardinality(Unread(rest)) + added
    BY <1>1, <2>1, <2>10, UnreadConcat, Zenon
  <2> HIDE DEF added
  <2>8. CASE intent[x]
    <3>1. Wanted' = Wanted \cup {x} /\ x \notin Wanted
      BY <2>1, <2>2, <2>3, <2>8 DEF Wanted
    <3>2. Cardinality(Wanted') = Cardinality(Wanted) + 1
      BY <1>2, <3>1, FS_AddElement
    <3>3. Cardinality(Unread(input')) = Cardinality(Unread(input)) + 1 + added
      BY <2>8, <2>12, <2>13
    <3> QED BY <1>2, <2>5, <2>6, <2>10, <2>14, <3>2, <3>3 DEF CountInv
  <2>9. CASE ~intent[x]
    <3>1. Wanted' = Wanted
      BY <2>1, <2>2, <2>3, <2>9 DEF Wanted
    <3>2. (IF intent[x] THEN 1 ELSE 0) = 0
      BY <2>9, Zenon
    <3>3. Cardinality(Unread(input')) = Cardinality(Unread(input)) + added
      BY <1>2, <2>12, <2>13, <3>2
    <3> QED BY <1>2, <2>5, <2>6, <2>10, <2>14, <3>1, <3>3 DEF CountInv
  <2> QED BY <2>8, <2>9
<1>9. ASSUME NEW c \in Calls, ShowPrompt(c) \/ EnterRead(c) \/ FgetsFails(c)
      PROVE  UNCHANGED <<answered, intent, input, rest>>
  BY <1>9, Zenon DEF ShowPrompt, EnterRead, FgetsFails
<1>10. CASE UserHangsUp \/ UNCHANGED prompt_vars
  BY <1>3, <1>10 DEF UserHangsUp, prompt_vars, Allowed
<1> QED BY <1>3, <1>5, <1>6, <1>7, <1>8, <1>9, <1>10, Zenon DEF PromptNext, Hook

\* Without parallel tools the next prompt waits for the answer to the last.
LEMMA SequenceStep == TypeOK /\ OneAtATime /\ [PromptNext]_prompt_vars => OneAtATime'
<1> SUFFICES ASSUME TypeOK, OneAtATime, [PromptNext]_prompt_vars, rest' = << >>,
                    ~parallel, rest = << >>
             PROVE  OneAtATime'
  <2>1. [PromptNext]_prompt_vars => parallel' = parallel
    BY Zenon DEF PromptNext, Hook, UserAnswers, UserHangsUp, ShowPrompt, EnterRead, ReadPiece,
       FgetsFails, prompt_vars
  <2>2. [PromptNext]_prompt_vars /\ ~parallel' => ~parallel
    BY <2>1
  <2>3. TypeOK /\ [PromptNext]_prompt_vars /\ rest' = << >> => rest = << >>
    <3>1. ASSUME TypeOK, UserAnswers, rest' = << >> PROVE rest = << >>
      <4>1. PICK r \in Rests : rest' = rest \o r
        BY <3>1 DEF UserAnswers
      <4>2. rest \in Seq(BOOLEAN) /\ r \in Seq(BOOLEAN)
        BY <3>1, RestsAssumption DEF TypeOK
      <4>3. Len(rest) \in Nat /\ Len(r) \in Nat /\ Len(rest \o r) = Len(rest) + Len(r)
        BY <4>2, ConcatProperties, LenProperties
      <4>4. Len(rest) = 0
        <5>1. Len(rest \o r) = 0
          BY <3>1, <4>1
        <5> QED BY <4>3, <5>1
      <4> QED BY <4>2, <4>4, EmptySeq
    <3>2. [PromptNext]_prompt_vars /\ ~UserAnswers => rest' = rest
      BY Zenon DEF PromptNext, Hook, UserHangsUp, ShowPrompt, EnterRead, ReadPiece, FgetsFails,
         prompt_vars
    <3> QED BY <3>1, <3>2
  <2> QED BY <2>2, <2>3, Zenon DEF OneAtATime
<1>1. /\ state \in [Calls -> States] /\ intent \in [Calls -> BOOLEAN]
      /\ input \in Seq(BOOLEAN) /\ answered \subseteq Calls
      /\ ToSet(screen) = {c \in Calls : state[c] # "start"}
      /\ answered \subseteq ToSet(screen)
  BY DEF TypeOK, States
<1>2. /\ \A c, d \in Calls : Busy(c) /\ Busy(d) => c = d
      /\ \A c \in Calls : Busy(c) /\ c \in answered => input = <<intent[c]>>
      /\ (\A c \in Calls : Busy(c) => c \notin answered) => input = << >>
      /\ ~eof => \A c \in Calls : state[c] \in {"allowed", "denied"} => c \in answered
      /\ \A c \in Calls : state[c] = "allowed" => intent[c]
  BY DEF OneAtATime, Allowed
<1>3. ASSUME /\ \A c, d \in Calls : Busy(c)' /\ Busy(d)' => c = d
             /\ \A c \in Calls : Busy(c)' /\ c \in answered' => input' = <<intent[c]>>
             /\ (\A c \in Calls : Busy(c)' => c \notin answered') => input' = << >>
             /\ ~eof' => \A c \in Calls : state'[c] \in {"allowed", "denied"} => c \in answered'
             /\ \A c \in Calls : state'[c] = "allowed" => intent[c],
             intent' = intent
      PROVE  OneAtATime'
  BY <1>3 DEF OneAtATime, Allowed
<1>4. ASSUME NEW c \in Calls, ShowPrompt(c) PROVE OneAtATime'
  <2>1. /\ state[c] = "start" /\ \A d \in Calls : ~Busy(d)
        /\ state' = [state EXCEPT ![c] = "shown"]
        /\ UNCHANGED <<intent, answered, input, rest, eof>>
    BY <1>4 DEF ShowPrompt, Inline
  <2>2. c \notin answered
    BY <1>1, <2>1
  <2>3. \A d \in Calls : d # c => state'[d] = state[d] /\ ~Busy(d)'
    BY <1>1, <2>1 DEF Busy
  <2>4. state'[c] = "shown" /\ input = << >>
    BY <1>1, <1>2, <2>1
  <2> QED BY <1>2, <1>3, <2>1, <2>2, <2>3, <2>4
<1>5. ASSUME NEW c \in Calls, EnterRead(c) PROVE OneAtATime'
  <2>1. /\ state[c] = "shown" /\ state' = [state EXCEPT ![c] = "reading"]
        /\ UNCHANGED <<intent, answered, input, eof>>
    BY <1>5 DEF EnterRead
  <2>2. \A d \in Calls : /\ Busy(d)' <=> Busy(d)
                         /\ state'[d] = "allowed" <=> state[d] = "allowed"
                         /\ state'[d] \in {"allowed", "denied"}
                              <=> state[d] \in {"allowed", "denied"}
    BY <1>1, <2>1 DEF Busy
  <2> QED BY <1>2, <1>3, <2>1, <2>2
<1>6. ASSUME NEW c \in Calls, NEW s \in {"allowed", "denied"}, Busy(c),
             state' = [state EXCEPT ![c] = s], UNCHANGED <<intent, answered, eof>>,
             input' = << >>, ~eof => c \in answered, s = "allowed" => intent[c]
      PROVE  OneAtATime'
  <2>1. state'[c] = s /\ \A d \in Calls : d # c => state'[d] = state[d] /\ ~Busy(d)
    BY <1>1, <1>2, <1>6
  <2>2. \A d \in Calls : ~Busy(d)'
    BY <2>1 DEF Busy
  <2> QED BY <1>2, <1>3, <1>6, <2>1, <2>2
<1>7. ASSUME NEW c \in Calls, ReadPiece(c) PROVE OneAtATime'
  <2>1. /\ Busy(c) /\ input # << >> /\ input' = Tail(input)
        /\ state' = [state EXCEPT ![c] = IF Head(input) THEN "allowed" ELSE "denied"]
        /\ UNCHANGED <<answered, intent, eof>>
    BY <1>7 DEF ReadPiece, Busy
  <2>2. c \in answered /\ input = <<intent[c]>>
    BY <1>2, <2>1
  <2>3. Head(input) = intent[c] /\ input' = << >>
    <3>1. \A b : Head(<<b>>) = b /\ Tail(<<b>>) = << >>
      OBVIOUS
    <3> QED BY <2>1, <2>2, <3>1, Zenon
  <2> DEFINE s == IF Head(input) THEN "allowed" ELSE "denied"
  <2>4. s \in {"allowed", "denied"} /\ (s = "allowed" => intent[c])
    BY <2>3
  <2> QED BY <1>6, <2>1, <2>2, <2>3, <2>4
<1>8. ASSUME NEW c \in Calls, FgetsFails(c) PROVE OneAtATime'
  <2>1. /\ Busy(c) /\ input = << >> /\ input' = input /\ eof
        /\ state' = [state EXCEPT ![c] = "denied"]
        /\ UNCHANGED <<answered, intent, eof>>
    BY <1>8 DEF FgetsFails, Busy
  <2> QED BY <1>6, <2>1
<1>9. CASE UserAnswers
  <2>1. PICK k \in DOMAIN screen, r \in Rests :
              /\ \A j \in DOMAIN screen : j < k <=> screen[j] \in answered
              /\ answered' = answered \cup {screen[k]}
              /\ input' = Append(input, intent[screen[k]]) \o r
              /\ rest' = rest \o r
    BY <1>9 DEF UserAnswers
  <2> DEFINE x == screen[k]
  <2>2. x \in ToSet(screen) /\ x \notin answered
    <3>1. k \in Int
      BY LenProperties DEF TypeOK
    <3> QED BY <2>1, <3>1 DEF ToSet
  <2>3. UNCHANGED <<intent, state, eof>> /\ ~eof
    BY <1>9 DEF UserAnswers
  <2>4. x \in Calls /\ Busy(x)
    BY <1>1, <1>2, <2>2, <2>3 DEF Busy, States
  <2>5. input = << >>
    BY <1>2, <2>2, <2>4
  <2>6. input' = <<intent[x]>>
    <3>1. r \in Seq(BOOLEAN) /\ rest' = << >> /\ rest \in Seq(BOOLEAN)
      BY RestsAssumption DEF TypeOK
    <3>2. r = << >>
      <4>1. rest \o r = r
        BY <3>1, ConcatEmptySeq
      <4> QED BY <2>1, <3>1, <4>1
    <3>3. intent[x] \in BOOLEAN /\ Append(input, intent[x]) \in Seq(BOOLEAN)
      BY <1>1, <2>4, AppendProperties
    <3>4. input' = Append(input, intent[x])
      BY <2>1, <3>2, <3>3, ConcatEmptySeq
    <3> QED BY <2>5, <3>4
  <2>7. \A d \in Calls : Busy(d)' <=> d = x
    BY <1>2, <2>3, <2>4 DEF Busy
  <2> QED BY <1>2, <1>3, <2>1, <2>3, <2>4, <2>6, <2>7
<1>10. CASE UserHangsUp \/ UNCHANGED prompt_vars
  BY <1>2, <1>3, <1>10 DEF UserHangsUp, prompt_vars, Busy
<1> QED BY <1>4, <1>5, <1>7, <1>8, <1>9, <1>10 DEF PromptNext, Hook

\* Every reachable state has the types of TypeOK, the count and the order above.
THEOREM PromptInvariance == PromptSpec => [](TypeOK /\ CountInv /\ OneAtATime)
<1>1. TypeOK /\ CountInv /\ OneAtATime /\ [PromptNext]_prompt_vars
        => (TypeOK /\ CountInv /\ OneAtATime)'
  BY TypeStep, CountStep, SequenceStep
<1> QED BY PromptInitInv, <1>1, PTL DEF PromptSpec

\* However many prompts overlap and however long the lines are, each "yes" lets at
\* most one call through.
THEOREM OneYesOneCall == PromptSpec => []OneCallPerYes
<1>1. CountInv => OneCallPerYes
  BY Zenon DEF CountInv, Unread, Wanted, OneCallPerYes, Yeses
<1> QED BY <1>1, PromptInvariance, PTL

\* With parallel tools off and no line of more than 63 bytes, what README.md says of
\* approval holds: a risky call runs only if the user approved that very call.
THEOREM SequentialApproval == PromptSpec => []ApprovedInSequence
<1>1. OneAtATime => ApprovedInSequence
  BY DEF OneAtATime, ApprovedInSequence, RunsOnlyIfApproved
<1> QED BY <1>1, PromptInvariance, PTL

-----------------------------------------------------------------------------
(* LineEditor                                                                  *)

\* Induction, on numbers and on byte sequences.
LEMMA LeastOf ==
  ASSUME NEW T, T \subseteq Nat, T # {}
  PROVE  \E n \in T : \A m \in T : n <= m
<1>1. PICK n \in T : \A y \in T : <<y, n>> \notin OpToRel(<, Nat)
  <2> DEFINE R == OpToRel(<, Nat)
  <2>1. IsWellFoundedOn(R, Nat)
    BY NatLessThanWellFounded
  <2> HIDE DEF R
  <2>2. \E n \in T : \A y \in T : <<y, n>> \notin R
    BY <2>1, WFMin
  <2> QED BY <2>2 DEF R
<1>2. n \in Nat /\ \A m \in T : m \in Nat /\ ~ (m < n)
  BY <1>1 DEF OpToRel
<1>3. \A m \in T : n <= m
  BY <1>2
<1> QED BY <1>1, <1>3

LEMMA SetInduction ==
  ASSUME NEW S, 0 \in S, \A n \in Nat : n \in S => n + 1 \in S
  PROVE  Nat \subseteq S
<1> SUFFICES ASSUME Nat \ S # {} PROVE FALSE
  OBVIOUS
<1>1. PICK n \in Nat \ S : \A m \in Nat \ S : n <= m
  BY LeastOf
<1>2. n - 1 \in Nat \ S
  BY <1>1
<1> QED BY <1>1, <1>2

LEMMA ByteInduction ==
  ASSUME NEW S, <<>> \in S,
         \A b \in Seq(Byte), x \in Byte : b \in S => Append(b, x) \in S
  PROVE  Seq(Byte) \subseteq S
<1> DEFINE N == {n \in Nat : \A b \in Seq(Byte) : Len(b) = n => b \in S}
<1>1. 0 \in N
  BY EmptySeq
<1>2. ASSUME NEW n \in Nat, n \in N PROVE n + 1 \in N
  <2> SUFFICES ASSUME NEW b \in Seq(Byte), Len(b) = n + 1 PROVE b \in S
    OBVIOUS
  <2>1. b # <<>>
    BY EmptySeq
  <2>2. PICK a \in Seq(Byte), x \in Byte : b = Append(a, x)
    BY <2>1, SequenceEmptyOrAppend
  <2>3. Len(a) = n
    BY <2>2, AppendProperties, LenProperties
  <2> QED BY <1>2, <2>2, <2>3
<1>3. Nat \subseteq N
  <2> HIDE DEF N
  <2> QED BY <1>1, <1>2, SetInduction
<1>4. \A b \in Seq(Byte) : Len(b) \in Nat
  BY LenProperties
<1> QED BY <1>3, <1>4

-----------------------------------------------------------------------------
\* What Decode does, one byte more at a time.
Zero == [chars |-> <<>>, part |-> <<>>]
Step(d, x) ==
  LET part == Append(d.part, x)
  IN  IF part \in Char THEN [chars |-> Append(d.chars, part), part |-> <<>>]
      ELSE [d EXCEPT !.part = part]
Steps(b, n) == CHOOSE f : f = [i \in 0 .. n |-> IF i = 0 THEN Zero ELSE Step(f[i - 1], b[i])]
Decoding(f, b, n) == f = [i \in 0 .. n |-> IF i = 0 THEN Zero ELSE Step(f[i - 1], b[i])]

LEMMA DecodingExists ==
  ASSUME NEW b
  PROVE  \A n \in Nat : \E f : Decoding(f, b, n)
<1> DEFINE N == {n \in Nat : \E f : Decoding(f, b, n)}
<1>1. 0 \in N
  <2> DEFINE f == [i \in 0 .. 0 |-> Zero]
  <2>1. f = [i \in 0 .. 0 |-> IF i = 0 THEN Zero ELSE Step(f[i - 1], b[i])]
    OBVIOUS
  <2> HIDE DEF f
  <2> QED BY <2>1 DEF Decoding
<1>2. ASSUME NEW n \in Nat, n \in N PROVE n + 1 \in N
  <2>1. PICK f : f = [i \in 0 .. n |-> IF i = 0 THEN Zero ELSE Step(f[i - 1], b[i])]
    BY <1>2 DEF Decoding
  <2> DEFINE g == [i \in 0 .. n + 1 |-> IF i <= n THEN f[i] ELSE Step(f[n], b[n + 1])]
             h == [i \in 0 .. n + 1 |-> IF i = 0 THEN Zero ELSE Step(g[i - 1], b[i])]
  <2>2. ASSUME NEW i \in 0 .. n + 1
        PROVE  g[i] = IF i = 0 THEN Zero ELSE Step(g[i - 1], b[i])
    <3>1. \A k \in 0 .. n : f[k] = IF k = 0 THEN Zero ELSE Step(f[k - 1], b[k])
      BY <2>1, Zenon
    <3>2. CASE i = 0
      BY <3>1, <3>2
    <3>3. CASE i \in 1 .. n
      <4>1. g[i] = f[i] /\ g[i - 1] = f[i - 1] /\ i \in 0 .. n /\ i # 0
        BY <3>3
      <4> HIDE DEF g
      <4> QED BY <3>1, <4>1
    <3>4. CASE i = n + 1
      <4>1. g[i] = Step(f[n], b[n + 1]) /\ g[i - 1] = f[n] /\ i # 0 /\ b[i] = b[n + 1]
        BY <3>4
      <4> HIDE DEF g
      <4> QED BY <4>1
    <3> QED BY <3>2, <3>3, <3>4
  <2>3. g = h
    BY <2>2
  <2> HIDE DEF g
  <2>4. Decoding(g, b, n + 1)
    BY <2>3 DEF Decoding
  <2> QED BY <2>4
<1>3. Nat \subseteq N
  <2> HIDE DEF N
  <2> QED BY <1>1, <1>2, SetInduction
<1> QED BY <1>3

LEMMA DecodingSteps ==
  ASSUME NEW b, NEW n \in Nat, NEW f, Decoding(f, b, n)
  PROVE  f[0] = Zero /\ \A i \in 0 .. n : i # 0 => f[i] = Step(f[i - 1], b[i])
BY DEF Decoding

LEMMA DecodeIsLast ==
  ASSUME NEW b \in Seq(Byte)
  PROVE  \E f : Decoding(f, b, Len(b)) /\ Decode(b) = f[Len(b)]
<1>1. Len(b) \in Nat
  BY LenProperties
<1>2. \E f : Decoding(f, b, Len(b))
  BY <1>1, DecodingExists
<1>3. Decoding(Steps(b, Len(b)), b, Len(b))
  <2> DEFINE R(f) == f = [i \in 0 .. Len(b) |-> IF i = 0 THEN Zero ELSE Step(f[i - 1], b[i])]
  <2>1. \E f : R(f)
    BY <1>2 DEF Decoding
  <2>2. R(CHOOSE f : R(f))
    BY <2>1, Zenon
  <2> QED BY <2>2, Zenon DEF Decoding, Steps
<1>4. Decode(b) = Steps(b, Len(b))[Len(b)]
  BY Zenon DEF Decode, Steps, Step, Zero
<1> QED BY <1>3, <1>4

LEMMA DecodeEmpty == Decode(<<>>) = Zero
<1>1. <<>> \in Seq(Byte) /\ Len(<<>>) = 0
  BY EmptySeq
<1>2. PICK f : Decoding(f, <<>>, 0) /\ Decode(<<>>) = f[0]
  BY <1>1, DecodeIsLast
<1> QED BY <1>2, DecodingSteps

LEMMA DecodeAppend ==
  ASSUME NEW b \in Seq(Byte), NEW x \in Byte
  PROVE  Decode(Append(b, x)) = Step(Decode(b), x)
<1> DEFINE a == Append(b, x)
           n == Len(b)
<1>1. /\ n \in Nat /\ a \in Seq(Byte) /\ Len(a) = n + 1
      /\ \A i \in 1 .. n : a[i] = b[i]
      /\ a[n + 1] = x
  BY AppendProperties, LenProperties
<1> HIDE DEF a, n
<1>2. PICK f : Decoding(f, b, n) /\ Decode(b) = f[n]
  BY DecodeIsLast DEF n
<1>3. PICK g : Decoding(g, a, n + 1) /\ Decode(a) = g[n + 1]
  BY <1>1, DecodeIsLast
<1> DEFINE N == {i \in Nat : i <= n => f[i] = g[i]}
<1>4. f[0] = Zero /\ \A i \in 0 .. n : i # 0 => f[i] = Step(f[i - 1], b[i])
  BY <1>1, <1>2, DecodingSteps
<1>5. g[0] = Zero /\ \A i \in 0 .. n + 1 : i # 0 => g[i] = Step(g[i - 1], a[i])
  <2>1. n + 1 \in Nat
    BY <1>1
  <2> QED BY <2>1, <1>3, DecodingSteps
<1>6. ASSUME NEW i \in Nat, i \in N PROVE i + 1 \in N
  <2> SUFFICES ASSUME i + 1 <= n PROVE f[i + 1] = g[i + 1]
    BY DEF N
  <2>1. i + 1 \in 0 .. n /\ i + 1 \in 0 .. n + 1 /\ i + 1 # 0 /\ (i + 1) - 1 = i /\ i <= n
    BY <1>1
  <2>2. f[i] = g[i] /\ a[i + 1] = b[i + 1]
    BY <1>6, <2>1, <1>1
  <2>3. f[i + 1] = Step(f[i], b[i + 1])
    BY <1>4, <2>1, Zenon
  <2>4. g[i + 1] = Step(g[i], a[i + 1])
    BY <1>5, <2>1, Zenon
  <2> QED BY <2>2, <2>3, <2>4
<1>7. Nat \subseteq N
  <2>1. 0 \in N
    BY <1>4, <1>5
  <2> HIDE DEF N
  <2> QED BY <2>1, <1>6, SetInduction
<1>8. f[n] = g[n]
  BY <1>1, <1>7
<1>9. n + 1 \in 0 .. n + 1 /\ n + 1 # 0 /\ (n + 1) - 1 = n
  BY <1>1
<1>10. g[n + 1] = Step(g[n], x)
  BY <1>1, <1>5, <1>9
<1> QED BY <1>2, <1>3, <1>8, <1>10 DEF a

\* The characters of a byte sequence are characters, its unfinished rest is bytes.
LEMMA DecodeType ==
  \A b \in Seq(Byte) : Decode(b) \in [chars : Seq(Char), part : Seq(Byte)]
<1> DEFINE D == [chars : Seq(Char), part : Seq(Byte)]
           S == {b \in Seq(Byte) : Decode(b) \in D}
<1>1. <<>> \in S
  <2>1. <<>> \in Seq(Byte) /\ <<>> \in Seq(Char)
    BY EmptySeq
  <2>2. Zero \in D
    BY <2>1 DEF Zero
  <2> QED BY <2>1, <2>2, DecodeEmpty
<1>2. ASSUME NEW b \in Seq(Byte), NEW x \in Byte, b \in S PROVE Append(b, x) \in S
  <2> DEFINE d == Decode(b)
             part == Append(d.part, x)
  <2>1. d \in D /\ Append(b, x) \in Seq(Byte) /\ Decode(Append(b, x)) = Step(d, x)
    BY <1>2, DecodeAppend, AppendProperties
  <2> HIDE DEF d
  <2>2. part \in Seq(Byte) /\ d.chars \in Seq(Char)
    BY <2>1, AppendProperties
  <2>3. Step(d, x) = IF part \in Char THEN [chars |-> Append(d.chars, part), part |-> <<>>]
                     ELSE [d EXCEPT !.part = part]
    BY Zenon DEF Step
  <2> HIDE DEF part
  <2>4. CASE part \in Char
    <3>1. Append(d.chars, part) \in Seq(Char) /\ <<>> \in Seq(Byte)
      BY <2>2, <2>4, AppendProperties, EmptySeq
    <3>2. Step(d, x) = [chars |-> Append(d.chars, part), part |-> <<>>]
      BY <2>3, <2>4
    <3>3. Step(d, x) \in D
      BY <3>1, <3>2
    <3> QED BY <2>1, <3>3
  <2>5. CASE part \notin Char
    <3>1. Step(d, x) \in D
      BY <2>1, <2>2, <2>3, <2>5
    <3> QED BY <2>1, <3>1
  <2> QED BY <2>4, <2>5
<1>3. Seq(Byte) \subseteq S
  <2> HIDE DEF S
  <2> QED BY <1>1, <1>2, ByteInduction
<1> QED BY <1>3

LEMMA TextType == ASSUME NEW b \in Seq(Byte) PROVE Text(b) \in Seq(Char) /\ Decode(b).part \in Seq(Byte)
BY DecodeType DEF Text

\* What a byte adds, to the characters and to the rest.
LEMMA OneByteMore ==
  ASSUME NEW b \in Seq(Byte), NEW x \in Byte
  PROVE  LET part == Append(Decode(b).part, x)
         IN  /\ Text(Append(b, x)) = IF part \in Char THEN Append(Text(b), part) ELSE Text(b)
             /\ Decode(Append(b, x)).part = IF part \in Char THEN <<>> ELSE part
<1> DEFINE d == Decode(b)
           part == Append(d.part, x)
<1>1. d \in [chars : Seq(Char), part : Seq(Byte)] /\ Decode(Append(b, x)) = Step(d, x)
  BY DecodeType, DecodeAppend
<1> HIDE DEF d
<1>2. /\ Step(d, x).chars = IF part \in Char THEN Append(d.chars, part) ELSE d.chars
      /\ Step(d, x).part = IF part \in Char THEN <<>> ELSE part
  BY <1>1 DEF Step
<1>3. Decode(b) = d
  BY DEF d
<1> QED BY <1>1, <1>2, <1>3 DEF Text

\* Text after whole text is read as if it stood alone.
LEMMA DecodeConcat ==
  ASSUME NEW a \in Seq(Byte), Whole(a)
  PROVE  \A b \in Seq(Byte) : /\ Text(a \o b) = Text(a) \o Text(b)
                              /\ Decode(a \o b).part = Decode(b).part
<1> DEFINE P(b) == Text(a \o b) = Text(a) \o Text(b) /\ Decode(a \o b).part = Decode(b).part
           S == {b \in Seq(Byte) : P(b)}
<1>1. <<>> \in S
  <2>1. a \o <<>> = a /\ <<>> \in Seq(Byte)
    BY ConcatEmptySeq, EmptySeq
  <2>2. Text(<<>>) = <<>> /\ Decode(<<>>).part = <<>>
    BY DecodeEmpty DEF Text, Zero
  <2>3. Text(a) \o <<>> = Text(a)
    BY TextType, ConcatEmptySeq
  <2> QED BY <2>1, <2>2, <2>3 DEF Whole
<1>2. ASSUME NEW b \in Seq(Byte), NEW x \in Byte, b \in S PROVE Append(b, x) \in S
  <2> DEFINE ab == a \o b
             part == Append(Decode(b).part, x)
  <2>1. a \o Append(b, x) = Append(ab, x) /\ ab \in Seq(Byte) /\ Append(b, x) \in Seq(Byte)
    <3>1. Append(b, x) = b \o <<x>> /\ Append(b, x) \in Seq(Byte)
      BY AppendIsConcat, AppendProperties
    <3>2. ab \in Seq(Byte) /\ <<x>> \in Seq(Byte)
      BY ConcatProperties
    <3>3. Append(ab, x) = ab \o <<x>>
      BY <3>2, AppendIsConcat
    <3>4. (a \o b) \o <<x>> = a \o (b \o <<x>>)
      BY <3>2, ConcatAssociative
    <3> QED BY <3>1, <3>2, <3>3, <3>4
  <2>2. Decode(ab).part = Decode(b).part /\ Text(ab) = Text(a) \o Text(b)
    BY <1>2
  <2> HIDE DEF ab
  <2>3. /\ Text(Append(ab, x)) = IF part \in Char THEN Append(Text(ab), part) ELSE Text(ab)
        /\ Decode(Append(ab, x)).part = IF part \in Char THEN <<>> ELSE part
    BY <2>1, <2>2, OneByteMore
  <2>4. /\ Text(Append(b, x)) = IF part \in Char THEN Append(Text(b), part) ELSE Text(b)
        /\ Decode(Append(b, x)).part = IF part \in Char THEN <<>> ELSE part
    BY OneByteMore
  <2> HIDE DEF part
  <2>5. ASSUME part \in Char
        PROVE  Append(Text(a) \o Text(b), part) = Text(a) \o Append(Text(b), part)
    <3>1. Text(a) \in Seq(Char) /\ Text(b) \in Seq(Char) /\ <<part>> \in Seq(Char)
      BY <2>5, TextType
    <3>2. (Text(a) \o Text(b)) \o <<part>> = Text(a) \o (Text(b) \o <<part>>)
      BY <3>1, ConcatAssociative
    <3>3. Text(a) \o Text(b) \in Seq(Char)
      BY <3>1, ConcatProperties
    <3>4. /\ Append(Text(b), part) = Text(b) \o <<part>>
          /\ Append(Text(a) \o Text(b), part) = (Text(a) \o Text(b)) \o <<part>>
      BY <2>5, <3>1, <3>3, AppendIsConcat
    <3> QED BY <3>2, <3>4
  <2> QED BY <2>1, <2>2, <2>3, <2>4, <2>5
<1>3. Seq(Byte) \subseteq S
  <2> HIDE DEF S
  <2> QED BY <1>1, <1>2, ByteInduction
<1> QED BY <1>3

\* A character is what it says, and no proper beginning of it is one.
LEMMA CharBytes ==
  ASSUME TextAssumption, NEW c \in Char
  PROVE  /\ c \in Seq(Byte) /\ c # <<>> /\ Len(c) \in Nat \ {0} /\ c[1] \in (32 .. 255) \ {127}
         /\ ~Continuation(c[1]) /\ Len(c) = encoding_char_len(c[1])
         /\ \A i \in 2 .. Len(c) : Continuation(c[i])
         /\ \A i \in 1 .. Len(c) : c[i] \in Byte
BY EmptySeq, ElementOfSeq DEF TextAssumption, ScansBack

LEMMA Beginning ==
  ASSUME NEW S, NEW s \in Seq(S), NEW k \in 0 .. Len(s)
  PROVE  /\ SubSeq(s, 1, k) \in Seq(S) /\ Len(SubSeq(s, 1, k)) = k
         /\ \A i \in 1 .. k : SubSeq(s, 1, k)[i] = s[i]
         /\ k > 0 => SubSeq(s, 1, k) = Append(SubSeq(s, 1, k - 1), s[k])
<1>1. Len(s) \in Nat /\ \A i \in 1 .. Len(s) : s[i] \in S
  BY LenProperties, ElementOfSeq
<1>2. \A i \in 1 .. k : s[i] \in S
  BY <1>1
<1>3. /\ SubSeq(s, 1, k) \in Seq(S) /\ Len(SubSeq(s, 1, k)) = IF 1 <= k THEN k - 1 + 1 ELSE 0
      /\ \A i \in 1 .. k - 1 + 1 : SubSeq(s, 1, k)[i] = s[1 + i - 1]
  BY <1>2, SubSeqProperties
<1>4. ASSUME k > 0 PROVE SubSeq(s, 1, k) = Append(SubSeq(s, 1, k - 1), s[k])
  <2>1. 1 \in 1 .. Len(s) /\ k \in 1 .. Len(s)
    BY <1>1, <1>4
  <2>2. SubSeq(s, 1, k) = SubSeq(s, 1, k - 1) \o <<s[k]>>
    BY <2>1, SubSeqRecursiveSecond
  <2>3. SubSeq(s, 1, k - 1) \in Seq(S)
    <3>1. \A i \in 1 .. k - 1 : s[i] \in S
      BY <1>1
    <3> QED BY <3>1, SubSeqProperties
  <2> QED BY <1>1, <2>1, <2>2, <2>3, AppendIsConcat
<1> QED BY <1>1, <1>3, <1>4

LEMMA CharBegins ==
  ASSUME TextAssumption, NEW c \in Char
  PROVE  \A k \in 0 .. Len(c) - 1 : Decode(SubSeq(c, 1, k)) = [chars |-> <<>>, part |-> SubSeq(c, 1, k)]
<1>1. /\ c \in Seq(Byte) /\ Len(c) \in Nat \ {0} /\ Len(c) = encoding_char_len(c[1])
      /\ \A i \in 1 .. Len(c) : c[i] \in Byte
  BY CharBytes
<1> DEFINE N == {k \in Nat : k < Len(c) =>
                   Decode(SubSeq(c, 1, k)) = [chars |-> <<>>, part |-> SubSeq(c, 1, k)]}
<1>2. 0 \in N
  <2>1. SubSeq(c, 1, 0) = <<>>
    BY SubSeqEmpty
  <2> QED BY <2>1, DecodeEmpty DEF Zero
<1>3. ASSUME NEW k \in Nat, k \in N PROVE k + 1 \in N
  <2> SUFFICES ASSUME k + 1 < Len(c)
               PROVE  Decode(SubSeq(c, 1, k + 1)) = [chars |-> <<>>, part |-> SubSeq(c, 1, k + 1)]
    BY DEF N
  <2> DEFINE s == SubSeq(c, 1, k)
             t == SubSeq(c, 1, k + 1)
             x == c[k + 1]
  <2>1. k \in 0 .. Len(c) /\ k + 1 \in 0 .. Len(c) /\ (k + 1) - 1 = k /\ k + 1 > 0 /\ x \in Byte
    BY <1>1
  <2>2. t \in Seq(Byte) /\ Len(t) = k + 1 /\ t[1] = c[1] /\ t = Append(s, x)
    BY <1>1, <2>1, Beginning
  <2>3. s \in Seq(Byte)
    BY <1>1, <2>1, Beginning
  <2>4. Decode(s) = [chars |-> <<>>, part |-> s]
    BY <1>3, <2>1, <1>1
  <2> HIDE DEF s, t, x
  <2>5. t \notin Char
    <3>1. SUFFICES ASSUME t \in Char PROVE FALSE
      OBVIOUS
    <3>2. Len(t) = encoding_char_len(t[1])
      BY <3>1, CharBytes
    <3> QED BY <1>1, <2>1, <2>2, <3>2
  <2>6. Decode(t) = Step(Decode(s), x)
    BY <2>1, <2>2, <2>3, DecodeAppend
  <2>7. Step([chars |-> <<>>, part |-> s], x) = [chars |-> <<>>, part |-> t]
    BY <2>2, <2>5 DEF Step
  <2> QED BY <2>4, <2>6, <2>7 DEF t
<1>4. Nat \subseteq N
  <2> HIDE DEF N
  <2> QED BY <1>2, <1>3, SetInduction
<1> QED BY <1>1, <1>4

LEMMA CharIsText ==
  ASSUME TextAssumption, NEW c \in Char
  PROVE  Whole(c) /\ Text(c) = <<c>>
<1> DEFINE k == Len(c) - 1
           s == SubSeq(c, 1, k)
<1>1. /\ c \in Seq(Byte) /\ Len(c) \in Nat \ {0} /\ \A i \in 1 .. Len(c) : c[i] \in Byte
  BY CharBytes
<1>2. k \in 0 .. Len(c) - 1 /\ k \in 0 .. Len(c) /\ Len(c) \in 0 .. Len(c) /\ Len(c) > 0
  BY <1>1
<1>3. SubSeq(c, 1, Len(c)) = c /\ SubSeq(c, 1, Len(c)) = Append(s, c[Len(c)])
  BY <1>1, <1>2, Beginning, SubSeqFull
<1>4. s \in Seq(Byte)
  BY <1>1, <1>2, Beginning
<1>5. Decode(s) = [chars |-> <<>>, part |-> s]
  BY <1>2, CharBegins
<1> HIDE DEF s, k
<1>6. c[Len(c)] \in Byte /\ Append(s, c[Len(c)]) = c
  <2>1. Len(c) \in 1 .. Len(c)
    BY <1>1
  <2> QED BY <1>1, <1>3, <2>1
<1>7. Decode(c) = Step([chars |-> <<>>, part |-> s], c[Len(c)])
  BY <1>4, <1>5, <1>6, DecodeAppend
<1>8. Decode(c) = [chars |-> Append(<<>>, c), part |-> <<>>]
  BY <1>6, <1>7 DEF Step
<1> QED BY <1>8 DEF Whole, Text

LEMMA AppendAfter ==
  ASSUME NEW a \in Seq(Byte), NEW p \in Seq(Byte), NEW x \in Byte
  PROVE  Append(a \o p, x) = a \o Append(p, x)
<1>1. a \o p \in Seq(Byte) /\ <<x>> \in Seq(Byte)
  BY ConcatProperties
<1>2. Append(a \o p, x) = (a \o p) \o <<x>> /\ Append(p, x) = p \o <<x>>
  BY <1>1, AppendIsConcat
<1>3. (a \o p) \o <<x>> = a \o (p \o <<x>>)
  BY <1>1, ConcatAssociative
<1> QED BY <1>2, <1>3

LEMMA ByteAssoc ==
  ASSUME NEW s \in Seq(Byte), NEW t \in Seq(Byte), NEW u \in Seq(Byte)
  PROVE  (s \o t) \o u = s \o (t \o u)
BY ConcatAssociative

\* A byte sequence is whole text and the unfinished rest.
LEMMA UnfinishedRest ==
  \A b \in Seq(Byte) :
    \E a \in Seq(Byte) : b = a \o Decode(b).part /\ Whole(a) /\ Text(a) = Text(b)
<1> DEFINE P(b) == \E a \in Seq(Byte) : b = a \o Decode(b).part /\ Whole(a) /\ Text(a) = Text(b)
           S == {b \in Seq(Byte) : P(b)}
<1>1. <<>> \in S
  <2>1. <<>> \in Seq(Byte) /\ <<>> = <<>> \o <<>>
    BY EmptySeq, ConcatEmptySeq
  <2>2. Decode(<<>>).part = <<>>
    BY DecodeEmpty DEF Zero
  <2> QED BY <2>1, <2>2 DEF Whole
<1>2. ASSUME NEW b \in Seq(Byte), NEW x \in Byte, b \in S PROVE Append(b, x) \in S
  <2> DEFINE p == Decode(b).part
             part == Append(p, x)
             b2 == Append(b, x)
  <2>1. PICK a \in Seq(Byte) : b = a \o p /\ Whole(a) /\ Text(a) = Text(b)
    BY <1>2
  <2>2. p \in Seq(Byte) /\ b2 \in Seq(Byte) /\ part \in Seq(Byte)
    BY TextType, AppendProperties
  <2>3. /\ Text(b2) = IF part \in Char THEN Append(Text(b), part) ELSE Text(b)
        /\ Decode(b2).part = IF part \in Char THEN <<>> ELSE part
    BY OneByteMore
  <2>4. b2 = a \o part
    <3> HIDE DEF p
    <3>1. Append(a \o p, x) = a \o Append(p, x)
      BY <2>1, <2>2, AppendAfter
    <3> QED BY <2>1, <3>1
  <2> HIDE DEF p, b2, part
  <2>5. P(b2)
    <3>1. CASE part \in Char
      <4>1. b2 = b2 \o <<>>
        BY <2>2, ConcatEmptySeq
      <4>2. b2 \in Seq(Byte) /\ b2 = b2 \o Decode(b2).part /\ Whole(b2) /\ Text(b2) = Text(b2)
        BY <2>2, <2>3, <3>1, <4>1 DEF Whole
      <4> QED BY <4>2
    <3>2. CASE part \notin Char
      <4>1. a \in Seq(Byte) /\ b2 = a \o Decode(b2).part /\ Whole(a) /\ Text(a) = Text(b2)
        BY <2>1, <2>3, <2>4, <3>2
      <4> QED BY <4>1
    <3> QED BY <3>1, <3>2
  <2> QED BY <2>2, <2>5 DEF b2
<1>3. Seq(Byte) \subseteq S
  <2> HIDE DEF S
  <2> QED BY <1>1, <1>2, ByteInduction
<1> QED BY <1>3

\* Whole text that is not empty ends with a character ...
EndsWith(b, a, c) == b = a \o c /\ Whole(a) /\ Text(b) = Append(Text(a), c)

LEMMA LastChar ==
  ASSUME TextAssumption, NEW b \in Seq(Byte), Whole(b), b # <<>>
  PROVE  \E a \in Seq(Byte), c \in Char : EndsWith(b, a, c)
<1>1. PICK b0 \in Seq(Byte), x \in Byte : b = Append(b0, x)
  BY SequenceEmptyOrAppend
<1> DEFINE p == Decode(b0).part
           c == Append(p, x)
<1>2. PICK a \in Seq(Byte) : b0 = a \o p /\ Whole(a) /\ Text(a) = Text(b0)
  BY UnfinishedRest
<1>3. p \in Seq(Byte)
  BY TextType
<1>4. /\ Text(b) = IF c \in Char THEN Append(Text(b0), c) ELSE Text(b0)
      /\ Decode(b).part = IF c \in Char THEN <<>> ELSE c
  BY <1>1, OneByteMore
<1> HIDE DEF p
<1>5. b = a \o c /\ c # <<>>
  BY <1>1, <1>2, <1>3, AppendAfter, AppendProperties
<1> HIDE DEF c
<1>6. c \in Char
  BY <1>4, <1>5 DEF Whole
<1> QED BY <1>2, <1>4, <1>5, <1>6 DEF EndsWith

\* ... and begins with one.
BeginsWith(b, c, r) == b = c \o r /\ Whole(r) /\ Text(b) = <<c>> \o Text(r)

LEMMA CharThenText ==
  ASSUME TextAssumption, NEW c \in Char, NEW r \in Seq(Byte), Whole(r)
  PROVE  c \o r \in Seq(Byte) /\ BeginsWith(c \o r, c, r) /\ Whole(c \o r)
<1>1. c \in Seq(Byte) /\ Whole(c) /\ Text(c) = <<c>>
  BY CharBytes, CharIsText
<1>2. Text(c \o r) = Text(c) \o Text(r) /\ Decode(c \o r).part = Decode(r).part
  BY <1>1, DecodeConcat
<1>3. c \o r \in Seq(Byte)
  BY <1>1, ConcatProperties
<1> QED BY <1>1, <1>2, <1>3 DEF BeginsWith, Whole

LEMMA TextThenChar ==
  ASSUME TextAssumption, NEW c \in Char, NEW a \in Seq(Byte), Whole(a)
  PROVE  a \o c \in Seq(Byte) /\ EndsWith(a \o c, a, c) /\ Whole(a \o c)
<1>1. c \in Seq(Byte) /\ Whole(c) /\ Text(c) = <<c>>
  BY CharBytes, CharIsText
<1>2. Text(a \o c) = Text(a) \o Text(c) /\ Decode(a \o c).part = Decode(c).part
  BY <1>1, DecodeConcat
<1>3. a \o c \in Seq(Byte)
  BY <1>1, ConcatProperties
<1>4. Append(Text(a), c) = Text(a) \o <<c>>
  BY TextType, AppendIsConcat
<1> QED BY <1>1, <1>2, <1>3, <1>4 DEF EndsWith, Whole

LEMMA FirstChar ==
  ASSUME TextAssumption
  PROVE  \A b \in Seq(Byte) : Whole(b) /\ b # <<>> =>
           \E c \in Char, r \in Seq(Byte) : BeginsWith(b, c, r)
<1> DEFINE P(b) == \E c \in Char, r \in Seq(Byte) : BeginsWith(b, c, r)
           N == {n \in Nat : \A b \in Seq(Byte) : Len(b) <= n /\ Whole(b) /\ b # <<>> => P(b)}
<1>1. 0 \in N
  BY EmptySeq
<1>2. ASSUME NEW n \in Nat, n \in N PROVE n + 1 \in N
  <2> SUFFICES ASSUME NEW b \in Seq(Byte), Len(b) <= n + 1, Whole(b), b # <<>> PROVE P(b)
    BY DEF N
  <2>1. PICK a \in Seq(Byte), c2 \in Char : EndsWith(b, a, c2)
    BY LastChar
  <2>2. c2 \in Seq(Byte) /\ Len(c2) \in Nat \ {0} /\ Whole(c2) /\ Text(c2) = <<c2>>
    BY CharBytes, CharIsText
  <2>3. Len(b) = Len(a) + Len(c2) /\ Len(a) \in Nat
    BY <2>1, <2>2, ConcatProperties, LenProperties DEF EndsWith
  <2>4. CASE a = <<>>
    <3>1. b = c2 /\ c2 = c2 \o <<>> /\ <<>> \in Seq(Byte)
      BY <2>1, <2>2, <2>4, ConcatEmptySeq, EmptySeq DEF EndsWith
    <3>2. Whole(<<>>)
      BY DecodeEmpty DEF Whole, Zero
    <3>3. BeginsWith(c2 \o <<>>, c2, <<>>)
      BY <3>1, <3>2, CharThenText
    <3> QED BY <3>1, <3>3
  <2>5. CASE a # <<>>
    <3>1. P(a)
      BY <1>2, <2>1, <2>2, <2>3, <2>5 DEF EndsWith
    <3>2. PICK c \in Char, r0 \in Seq(Byte) : BeginsWith(a, c, r0)
      BY <3>1
    <3> DEFINE r == r0 \o c2
    <3>3. Whole(r0) /\ a = c \o r0 /\ c \in Seq(Byte)
      BY <3>2, CharBytes DEF BeginsWith
    <3>4. r \in Seq(Byte) /\ Whole(r)
      BY <3>3, TextThenChar
    <3>5. b = c \o r
      <4>1. (c \o r0) \o c2 = c \o (r0 \o c2)
        BY <2>2, <3>3, ByteAssoc
      <4> QED BY <2>1, <3>3, <4>1 DEF EndsWith
    <3> HIDE DEF r
    <3> QED BY <3>4, <3>5, CharThenText
  <2> QED BY <2>4, <2>5
<1>3. Nat \subseteq N
  <2> HIDE DEF N
  <2> QED BY <1>1, <1>2, SetInduction
<1> QED BY <1>3, LenProperties

\* Two lines that read the same are the same bytes.
LEMMA TextIsEmpty ==
  ASSUME TextAssumption, NEW b \in Seq(Byte), Whole(b)
  PROVE  Text(b) = <<>> <=> b = <<>>
<1>1. b = <<>> => Text(b) = <<>>
  BY DecodeEmpty DEF Text, Zero
<1>2. ASSUME b # <<>> PROVE Text(b) # <<>>
  <2>1. PICK a \in Seq(Byte), c \in Char : EndsWith(b, a, c)
    BY <1>2, LastChar
  <2> QED BY <2>1, TextType, AppendProperties DEF EndsWith
<1> QED BY <1>1, <1>2

LEMMA SameText ==
  ASSUME TextAssumption
  PROVE  \A a, b \in Seq(Byte) : Whole(a) /\ Whole(b) /\ Text(a) = Text(b) => a = b
<1> DEFINE N == {n \in Nat : \A a, b \in Seq(Byte) :
                   Len(a) <= n /\ Whole(a) /\ Whole(b) /\ Text(a) = Text(b) => a = b}
<1>0. \A a \in Seq(Byte) : Len(a) \in Nat /\ (Len(a) = 0 => a = <<>>)
  BY EmptySeq, LenProperties
<1>1. 0 \in N
  BY <1>0, TextIsEmpty
<1>2. ASSUME NEW n \in Nat, n \in N PROVE n + 1 \in N
  <2> SUFFICES ASSUME NEW a \in Seq(Byte), NEW b \in Seq(Byte), Len(a) <= n + 1,
                      Whole(a), Whole(b), Text(a) = Text(b)
               PROVE  a = b
    BY DEF N
  <2>1. CASE a = <<>> \/ b = <<>>
    BY <2>1, TextIsEmpty
  <2>2. CASE a # <<>> /\ b # <<>>
    <3>1. PICK a0 \in Seq(Byte), c \in Char : EndsWith(a, a0, c)
      BY <2>2, LastChar
    <3>2. PICK b0 \in Seq(Byte), d \in Char : EndsWith(b, b0, d)
      BY <2>2, LastChar
    <3>3. Text(a0) = Text(b0) /\ c = d
      BY <3>1, <3>2, TextType, AppendInjective DEF EndsWith
    <3>4. Len(a) = Len(a0) + Len(c) /\ Len(c) \in Nat \ {0} /\ Len(a0) \in Nat
      BY <3>1, CharBytes, ConcatProperties, LenProperties DEF EndsWith
    <3>5. a0 = b0
      BY <1>2, <3>1, <3>2, <3>3, <3>4 DEF EndsWith
    <3> QED BY <3>1, <3>2, <3>3, <3>5 DEF EndsWith
  <2> QED BY <2>1, <2>2
<1>3. Nat \subseteq N
  <2> HIDE DEF N
  <2> QED BY <1>1, <1>2, SetInduction
<1> QED BY <1>0, <1>3

-----------------------------------------------------------------------------
\* The buffer as what is before the cursor and what is after it.
LEMMA Halves ==
  ASSUME NEW S, NEW b \in Seq(S), NEW n \in 0 .. Len(b)
  PROVE  LET l == SubSeq(b, 1, n)
             r == SubSeq(b, n + 1, Len(b))
         IN  l \in Seq(S) /\ r \in Seq(S) /\ b = l \o r /\ Len(l) = n
<1>1. Len(b) \in Nat /\ \A i \in 1 .. Len(b) : b[i] \in S
  BY LenProperties, ElementOfSeq
<1>2. SubSeq(b, 1, n) \in Seq(S) /\ Len(SubSeq(b, 1, n)) = n
  BY Beginning
<1>3. SubSeq(b, n + 1, Len(b)) \in Seq(S)
  <2>1. \A i \in n + 1 .. Len(b) : b[i] \in S
    BY <1>1
  <2> QED BY <1>1, <2>1, SubSeqProperties
<1>4. SubSeq(b, 1, n) \o SubSeq(b, n + 1, Len(b)) = SubSeq(b, 1, Len(b))
  <2>1. 1 \in 1 .. Len(b) + 1 /\ n \in 1 - 1 .. Len(b) /\ Len(b) \in n .. Len(b)
    BY <1>1
  <2> QED BY <2>1, ConcatAdjacentSubSeq
<1> QED BY <1>2, <1>3, <1>4, SubSeqFull

LEMMA Rejoined ==
  ASSUME NEW S, NEW l \in Seq(S), NEW r \in Seq(S)
  PROVE  /\ l \o r \in Seq(S) /\ Len(l) \in 0 .. Len(l \o r) /\ Len(l \o r) = Len(l) + Len(r)
         /\ SubSeq(l \o r, 1, Len(l)) = l
         /\ SubSeq(l \o r, Len(l) + 1, Len(l \o r)) = r
<1> DEFINE b == l \o r
           l2 == SubSeq(b, 1, Len(l))
           r2 == SubSeq(b, Len(l) + 1, Len(b))
<1>1. /\ b \in Seq(S) /\ Len(b) = Len(l) + Len(r) /\ Len(l) \in Nat /\ Len(r) \in Nat
      /\ \A i \in 1 .. Len(l) : b[i] = l[i]
  BY ConcatProperties, LenProperties
<1>2. Len(l) \in 0 .. Len(b)
  BY <1>1
<1>3. l2 \in Seq(S) /\ r2 \in Seq(S) /\ b = l2 \o r2 /\ Len(l2) = Len(l)
  BY <1>1, <1>2, Halves
<1>4. \A i \in 1 .. Len(l) : l2[i] = b[i]
  BY <1>1, <1>2, Beginning
<1> HIDE DEF l2, r2
<1>5. l2 = l
  <2>1. \A i \in 1 .. Len(l2) : l2[i] = l[i]
    BY <1>1, <1>3, <1>4
  <2> QED BY <1>3, <2>1, SeqEqual
<1>6. r2 = r
  BY <1>3, <1>5, ConcatSimplifications
<1> QED BY <1>1, <1>2, <1>5, <1>6 DEF l2, r2

LEMMA ByteConcat ==
  ASSUME NEW s \in Seq(Byte), NEW t \in Seq(Byte)
  PROVE  /\ s \o t \in Seq(Byte) /\ Len(s \o t) = Len(s) + Len(t)
         /\ Len(s) \in Nat /\ Len(t) \in Nat
         /\ \A i \in 1 .. Len(s) : (s \o t)[i] = s[i]
         /\ \A i \in 1 .. Len(t) : (s \o t)[Len(s) + i] = t[i]
<1>1. /\ s \o t \in Seq(Byte) /\ Len(s \o t) = Len(s) + Len(t)
      /\ \A i \in 1 .. Len(s) + Len(t) : (s \o t)[i] = IF i <= Len(s) THEN s[i] ELSE t[i - Len(s)]
  BY ConcatProperties
<1>2. Len(s) \in Nat /\ Len(t) \in Nat
  BY LenProperties
<1>3. ASSUME NEW i \in 1 .. Len(t) PROVE (s \o t)[Len(s) + i] = t[i]
  <2>1. /\ Len(s) + i \in 1 .. Len(s) + Len(t) /\ ~(Len(s) + i <= Len(s))
        /\ (Len(s) + i) - Len(s) = i
    BY <1>2
  <2> QED BY <1>1, <2>1
<1>4. ASSUME NEW i \in 1 .. Len(s) PROVE (s \o t)[i] = s[i]
  <2>1. i \in 1 .. Len(s) + Len(t) /\ i <= Len(s)
    BY <1>2
  <2> QED BY <1>1, <2>1
<1> QED BY <1>1, <1>2, <1>3, <1>4

\* Behind a character the scan by continuation bytes stops at its first byte ...
LEMMA ScanStopsAtChar ==
  ASSUME TextAssumption, NEW a \in Seq(Byte), NEW c \in Char, NEW z \in Seq(Byte)
  PROVE  cursor_prev((a \o c) \o z, Len(a) + Len(c)) = Len(a)
<1> DEFINE b == (a \o c) \o z
           n == Len(a) + Len(c)
           P(p) == /\ p = 0 \/ ~Continuation(b[p + 1])
                   /\ \A q \in p + 1 .. n - 1 : Continuation(b[q + 1])
<1>1. /\ c \in Seq(Byte) /\ Len(c) \in Nat \ {0} /\ ~Continuation(c[1])
      /\ \A i \in 2 .. Len(c) : Continuation(c[i])
  BY CharBytes
<1>2. a \o c \in Seq(Byte) /\ Len(a \o c) = n /\ Len(a) \in Nat
  BY <1>1, ByteConcat
<1>3. \A i \in 1 .. Len(c) : b[Len(a) + i] = c[i]
  <2> SUFFICES ASSUME NEW i \in 1 .. Len(c) PROVE b[Len(a) + i] = c[i]
    OBVIOUS
  <2>1. (a \o c)[Len(a) + i] = c[i]
    BY <1>1, ByteConcat
  <2>2. Len(a) + i \in 1 .. n
    BY <1>1, <1>2
  <2>3. \A j \in 1 .. n : b[j] = (a \o c)[j]
    BY <1>2, ByteConcat
  <2> QED BY <2>1, <2>2, <2>3
<1> HIDE DEF b, n
<1>4. n \in Nat \ {0} /\ n = Len(a) + Len(c) /\ Len(a) \in 0 .. n - 1
  BY <1>1, <1>2 DEF n
<1>5. ~Continuation(b[Len(a) + 1])
  BY <1>1, <1>3
<1>6. \A q \in Len(a) + 1 .. n - 1 : Continuation(b[q + 1])
  <2> SUFFICES ASSUME NEW q \in Len(a) + 1 .. n - 1 PROVE Continuation(b[q + 1])
    OBVIOUS
  <2>1. q + 1 - Len(a) \in 2 .. Len(c) /\ q + 1 - Len(a) \in 1 .. Len(c)
        /\ Len(a) + (q + 1 - Len(a)) = q + 1
    BY <1>2, <1>4, <1>1
  <2>2. b[q + 1] = c[q + 1 - Len(a)]
    BY <1>3, <2>1
  <2> QED BY <1>1, <2>1, <2>2
<1>7. P(Len(a))
  BY <1>5, <1>6
<1>8. ASSUME NEW p \in 0 .. n - 1, P(p) PROVE p = Len(a)
  <2>1. CASE p < Len(a)
    <3>1. Len(a) \in p + 1 .. n - 1
      BY <1>4, <2>1
    <3> QED BY <1>5, <1>8, <3>1
  <2>2. CASE p > Len(a)
    <3>1. p \in Len(a) + 1 .. n - 1 /\ p # 0
      BY <1>2, <1>4, <2>2
    <3> QED BY <1>6, <1>8, <3>1
  <2> QED BY <1>2, <1>4, <2>1, <2>2
<1>9. (CHOOSE p \in 0 .. n - 1 : P(p)) = Len(a)
  BY <1>4, <1>7, <1>8
<1>10. cursor_prev(b, n) = CHOOSE p \in 0 .. n - 1 : P(p)
  BY <1>4 DEF cursor_prev
<1> QED BY <1>9, <1>10 DEF b, n

\* ... and in front of one the length that its first byte tells leads to its end.
LEMMA StepOverChar ==
  ASSUME TextAssumption, NEW l \in Seq(Byte), NEW c \in Char, NEW r \in Seq(Byte)
  PROVE  cursor_next(l \o (c \o r), Len(l)) = Len(l) + Len(c)
<1> DEFINE b == l \o (c \o r)
<1>1. /\ c \in Seq(Byte) /\ Len(c) \in Nat \ {0} /\ Len(c) = encoding_char_len(c[1])
  BY CharBytes
<1>2. /\ c \o r \in Seq(Byte) /\ Len(c \o r) = Len(c) + Len(r) /\ Len(r) \in Nat
      /\ (c \o r)[1] = c[1]
  <2>1. 1 \in 1 .. Len(c)
    BY <1>1
  <2> QED BY <1>1, <2>1, ByteConcat
<1>3. /\ Len(b) = Len(l) + Len(c \o r) /\ Len(l) \in Nat /\ b[Len(l) + 1] = (c \o r)[1]
  <2>1. 1 \in 1 .. Len(c \o r)
    BY <1>1, <1>2
  <2> QED BY <1>2, <2>1, ByteConcat
<1> HIDE DEF b
<1>4. encoding_char_len(b[Len(l) + 1]) = Len(c)
  BY <1>1, <1>2, <1>3
<1>5. cursor_next(b, Len(l)) = Len(l) + Len(c)
  BY <1>1, <1>2, <1>3, <1>4 DEF cursor_next
<1> QED BY <1>5 DEF b

LEMMA PrefixSplits ==
  ASSUME NEW a \in Seq(Byte), NEW b \in Seq(Byte), IsPrefix(a, b)
  PROVE  \E r \in Seq(Byte) : b = a \o r
<1>1. Len(a) \in 0 .. Len(b) /\ SubSeq(b, 1, Len(a)) = a
  BY SubSeqFull, LenProperties DEF IsPrefix
<1> DEFINE r == SubSeq(b, Len(a) + 1, Len(b))
<1>2. r \in Seq(Byte) /\ b = a \o r
  BY <1>1, Halves
<1> QED BY <1>2

LEMMA SplitsPrefix ==
  ASSUME NEW a \in Seq(Byte), NEW r \in Seq(Byte)
  PROVE  IsPrefix(a, a \o r)
<1>1. SubSeq(a \o r, 1, Len(a)) = a /\ Len(a) <= Len(a \o r)
  BY Rejoined, ByteConcat
<1> QED BY <1>1, SubSeqFull DEF IsPrefix

\* What all the commands share of their beginning extends every common beginning.
LEMMA CommonBeginning ==
  ASSUME NEW S, S \subseteq Seq(Byte), S # {}, NEW a \in Seq(Byte), \A s \in S : IsPrefix(a, s)
  PROVE  LongestCommonPrefix(S) \in Seq(Byte) /\ IsPrefix(a, LongestCommonPrefix(S))
<1> DEFINE C == CommonPrefixes(S)
           Longest(p) == \A q \in C : Len(q) <= Len(p)
<1>1. PICK s \in S : TRUE
  OBVIOUS
<1>2. \A p : p \in C <=> /\ \E t \in S : \E i \in 0 .. Len(t) : p = SubSeq(t, 1, i)
                         /\ \A t \in S : IsPrefix(p, t)
  BY DEF CommonPrefixes, Prefixes
<1> HIDE DEF C
<1>3. \A p \in C : p \in Seq(Byte) /\ IsPrefix(p, s) /\ Len(p) \in 0 .. Len(s)
  <2> SUFFICES ASSUME NEW p \in C PROVE p \in Seq(Byte) /\ IsPrefix(p, s) /\ Len(p) \in 0 .. Len(s)
    OBVIOUS
  <2>1. PICK t \in S : \E i \in 0 .. Len(t) : p = SubSeq(t, 1, i)
    BY <1>2
  <2>2. p \in Seq(Byte)
    BY <2>1, Beginning
  <2>3. IsPrefix(p, s)
    BY <1>2
  <2>4. Len(p) \in Nat /\ Len(s) \in Nat
    BY <2>2, LenProperties
  <2> QED BY <2>2, <2>3, <2>4 DEF IsPrefix
<1>4. a \in C
  <2>1. Len(a) \in 0 .. Len(s) /\ a = SubSeq(s, 1, Len(a))
    BY SubSeqFull, LenProperties DEF IsPrefix
  <2> QED BY <1>2, <2>1
<1>5. \E p \in C : Longest(p)
  <2> DEFINE T == {Len(s) - Len(p) : p \in C}
  <2>0. Len(s) \in Nat
    BY LenProperties
  <2>1. T \subseteq Nat /\ T # {}
    BY <2>0, <1>3, <1>4
  <2>2. PICK n \in T : \A m \in T : n <= m
    <3> HIDE DEF T
    <3> QED BY <2>1, LeastOf
  <2>3. PICK p \in C : n = Len(s) - Len(p)
    BY <2>2
  <2>4. \A q \in C : Len(s) - Len(p) <= Len(s) - Len(q)
    BY <2>2, <2>3
  <2>5. \A q \in C : Len(q) <= Len(p)
    BY <2>0, <1>3, <2>4
  <2> QED BY <2>3, <2>5
<1> DEFINE L == CHOOSE p \in C : Longest(p)
<1>6. L \in C /\ Longest(L)
  BY <1>5
<1>7. LongestCommonPrefix(S) = L
  BY DEF LongestCommonPrefix, C
<1> HIDE DEF L
<1>8. IsPrefix(a, L)
  <2>1. /\ L \in Seq(Byte) /\ IsPrefix(L, s) /\ Len(L) \in 0 .. Len(s) /\ Len(a) <= Len(L)
        /\ IsPrefix(a, s) /\ Len(a) \in Nat /\ Len(s) \in Nat
    BY <1>3, <1>4, <1>6, LenProperties
  <2>2. PICK r \in Seq(Byte) : s = L \o r
    BY <2>1, PrefixSplits
  <2>3. SubSeq(s, 1, Len(a)) = a /\ Len(a) \in 0 .. Len(L) /\ Len(a) \in 0 .. Len(s)
    BY <2>1, SubSeqFull DEF IsPrefix
  <2>4. /\ SubSeq(L, 1, Len(a)) \in Seq(Byte) /\ Len(SubSeq(L, 1, Len(a))) = Len(a)
        /\ \A i \in 1 .. Len(a) : SubSeq(L, 1, Len(a))[i] = L[i]
    BY <2>1, <2>3, Beginning
  <2>5. \A i \in 1 .. Len(a) : SubSeq(s, 1, Len(a))[i] = s[i]
    BY <2>3, Beginning
  <2>6. \A i \in 1 .. Len(L) : s[i] = L[i]
    BY <2>1, <2>2, ByteConcat
  <2>7. \A i \in 1 .. Len(a) : SubSeq(L, 1, Len(a))[i] = a[i]
    BY <2>1, <2>3, <2>4, <2>5, <2>6
  <2>8. SubSeq(L, 1, Len(a)) = a
    BY <2>4, <2>7, SeqEqual
  <2> QED BY <2>1, <2>8, SubSeqFull DEF IsPrefix
<1> QED BY <1>3, <1>6, <1>7, <1>8

\* A completion is whole text that begins with the line.
LEMMA CompletionExtends ==
  ASSUME TextAssumption, NEW b \in Seq(Byte), tab_complete(b) # <<>>
  PROVE  tab_complete(b) \in Seq(Byte) /\ Whole(tab_complete(b)) /\ IsPrefix(b, tab_complete(b))
<1> DEFINE hits == {i \in DOMAIN Commands : IsPrefix(b, Commands[i])}
           one == CHOOSE i \in hits : TRUE
           S == {Commands[i] : i \in hits}
<1>1. /\ hits # {}
      /\ tab_complete(b) = IF \E i \in hits : hits = {i} THEN Append(Commands[one], Space)
                           ELSE str_common_prefix(S)
  BY DEF tab_complete
<1>2. \A i \in hits : Commands[i] \in Seq(Byte) /\ Whole(Commands[i]) /\ IsPrefix(b, Commands[i])
  BY DEF TextAssumption
<1>3. S \in SUBSET {Commands[i] : i \in DOMAIN Commands} /\ S # {}
  BY <1>1
<1>4. S \subseteq Seq(Byte) /\ \A s \in S : IsPrefix(b, s)
  BY <1>2
<1>5. one \in hits
  BY <1>1
<1>6. Whole(str_common_prefix(S))
  BY <1>3 DEF TextAssumption
<1> HIDE DEF hits, S, one
<1>7. CASE \E i \in hits : hits = {i}
  <2> DEFINE m == Commands[one]
  <2>1. m \in Seq(Byte) /\ Whole(m) /\ IsPrefix(b, m) /\ <<Space>> \in Char
    BY <1>2, <1>5 DEF TextAssumption
  <2> HIDE DEF m
  <2>2. Append(m, Space) = m \o <<Space>> /\ <<Space>> \in Seq(Byte)
    BY <2>1, AppendIsConcat DEF Space, Byte
  <2>3. Append(m, Space) \in Seq(Byte) /\ Whole(Append(m, Space))
    BY <2>1, <2>2, TextThenChar
  <2>4. IsPrefix(b, Append(m, Space))
    <3>1. PICK r \in Seq(Byte) : m = b \o r
      BY <2>1, PrefixSplits
    <3>2. r \o <<Space>> \in Seq(Byte)
      BY <2>2, ByteConcat
    <3>3. (b \o r) \o <<Space>> = b \o (r \o <<Space>>)
      BY <2>2, ByteAssoc
    <3> QED BY <2>2, <3>1, <3>2, <3>3, SplitsPrefix
  <2> QED BY <1>1, <1>7, <2>3, <2>4 DEF m
<1>8. CASE ~(\E i \in hits : hits = {i})
  <2>1. LongestCommonPrefix(S) \in Seq(Byte) /\ IsPrefix(b, LongestCommonPrefix(S))
    BY <1>3, <1>4, CommonBeginning
  <2> QED BY <1>1, <1>6, <1>8, <2>1 DEF str_common_prefix
<1> QED BY <1>7, <1>8

-----------------------------------------------------------------------------
\* What can wait in the terminal's queue: keys, one after the other.
Typeable == {p \in Seq(Byte) :
  \A S : <<>> \in S /\ (\A q \in S, k \in Keys : q \o k \in S) => p \in S}

LEMMA KeyBytes == ASSUME TextAssumption PROVE Keys \subseteq Seq(Byte)
<1>1. Typed \subseteq Seq(Byte)
  BY CharBytes DEF TextAssumption
<1>2. \A n \in {"up", "down", "left", "right", "enter", "back", "tab",
                "ctrl-c", "ctrl-d", "escape"} : Key(n) \in Seq(Byte)
  <2>1. \A x, y, z \in Byte : <<x>> \in Seq(Byte) /\ <<x, y, z>> \in Seq(Byte)
    OBVIOUS
  <2>2. {Esc, 91, 65, 66, 67, 68, 13, 127, 9, 3, 4} \subseteq Byte
    BY DEF Esc, Byte
  <2>3. /\ Key("up") \in Seq(Byte) /\ Key("down") \in Seq(Byte)
        /\ Key("left") \in Seq(Byte) /\ Key("right") \in Seq(Byte)
    BY <2>1, <2>2 DEF Key
  <2>4. /\ Key("enter") \in Seq(Byte) /\ Key("back") \in Seq(Byte) /\ Key("tab") \in Seq(Byte)
        /\ Key("ctrl-c") \in Seq(Byte) /\ Key("ctrl-d") \in Seq(Byte) /\ Key("escape") \in Seq(Byte)
    BY <2>1, <2>2 DEF Key
  <2> QED BY <2>3, <2>4
<1> QED BY <1>1, <1>2 DEF Keys

LEMMA NothingTyped == <<>> \in Typeable
BY EmptySeq DEF Typeable

LEMMA OneKeyMore ==
  ASSUME TextAssumption, NEW p \in Typeable, NEW k \in Keys
  PROVE  p \o k \in Typeable
<1>1. p \in Seq(Byte) /\ k \in Seq(Byte)
  BY KeyBytes DEF Typeable
<1>2. p \o k \in Seq(Byte)
  BY <1>1, ByteConcat
<1>3. ASSUME NEW S, <<>> \in S, \A q \in S, k2 \in Keys : q \o k2 \in S
      PROVE  p \o k \in S
  <2>1. p \in S
    BY <1>3 DEF Typeable
  <2> QED BY <1>3, <2>1
<1> QED BY <1>2, <1>3 DEF Typeable

LEMMA FirstKey ==
  ASSUME TextAssumption, NEW p \in Typeable, p # <<>>
  PROVE  \E k \in Keys, r \in Typeable : p = k \o r
<1> DEFINE S == {q \in Seq(Byte) : q = <<>> \/ \E k \in Keys, r \in Typeable : q = k \o r}
<1>1. <<>> \in S
  BY EmptySeq
<1>2. ASSUME NEW q \in S, NEW k \in Keys PROVE q \o k \in S
  <2>1. q \in Seq(Byte) /\ k \in Seq(Byte) /\ q \o k \in Seq(Byte)
    BY KeyBytes, ByteConcat
  <2>2. CASE q = <<>>
    <3>1. q \o k = k /\ k = k \o <<>>
      BY <2>1, <2>2, ConcatEmptySeq
    <3> QED BY <2>1, <3>1, NothingTyped
  <2>3. CASE q # <<>>
    <3>1. PICK k1 \in Keys, r \in Typeable : q = k1 \o r
      BY <2>3
    <3>2. k1 \in Seq(Byte) /\ r \in Seq(Byte) /\ r \o k \in Typeable
      BY KeyBytes, OneKeyMore DEF Typeable
    <3>3. (k1 \o r) \o k = k1 \o (r \o k)
      BY <2>1, <3>2, ByteAssoc
    <3> QED BY <2>1, <3>1, <3>2, <3>3
  <2> QED BY <2>2, <2>3
<1>3. p \in S
  <2> HIDE DEF S
  <2> QED BY <1>1, <1>2 DEF Typeable
<1> QED BY <1>3

-----------------------------------------------------------------------------
\* The inductive invariant.  Lines in the history are whole text; while the
\* history is browsed the line that was left is kept; after the cursor is whole
\* text, and of a character that is unfinished before it the rest comes next.
WholeLine == {l \in Seq(Byte) : Whole(l)}

Midway(p) == \E q \in Seq(Byte), r \in Typeable :
               p \o q \in Typed /\ q # <<>> /\ pending = q \o r

TypeInv ==
  /\ mode \in {"idle", "reading", "closed"}
  /\ buf \in Seq(Byte) /\ cursor \in 0 .. Len(buf) /\ history \in Seq(WholeLine)

BrowseInv ==
  Reading => /\ pos \in -1 .. Len(history) - 1
             /\ saved = <<>> \/ \E l \in WholeLine : saved = <<l>>
             /\ pos >= 0 => saved # <<>>

QueueInv ==
  IF Reading THEN /\ After.part = <<>>
                  /\ IF Before.part = <<>> THEN pending \in Typeable ELSE Midway(Before.part)
  ELSE pending \in Typeable

Inv == TypeInv /\ BrowseInv /\ QueueInv

\* A step of the editor of whole characters, or none.
Follows == Editor!Next \/ UNCHANGED Editor!vars

-----------------------------------------------------------------------------
\* The view of the line while it is edited, before and after a step.
LEMMA ViewNow ==
  ASSUME TypeInv, mode = "reading"
  PROVE  \E l, r \in Seq(Byte) :
           /\ buf = l \o r /\ cursor = Len(l)
           /\ Before = Decode(l) /\ After = Decode(r)
           /\ Line = Text(l) \o Text(r) /\ Column = Len(Text(l)) /\ Entry = pos
<1> DEFINE l == SubSeq(buf, 1, cursor)
           r == SubSeq(buf, cursor + 1, Len(buf))
<1>1. l \in Seq(Byte) /\ r \in Seq(Byte) /\ buf = l \o r /\ Len(l) = cursor
  BY Halves DEF TypeInv
<1>2. Before = Decode(l) /\ After = Decode(r)
  BY DEF Before, After
<1> HIDE DEF l, r
<1>3. Line = Text(l) \o Text(r) /\ Column = Len(Text(l)) /\ Entry = pos
  BY <1>2 DEF Line, Column, Entry, Reading, Text
<1> QED BY <1>1, <1>2, <1>3

LEMMA ViewNext ==
  ASSUME mode' = "reading", NEW l \in Seq(Byte), NEW r \in Seq(Byte),
         buf' = l \o r, cursor' = Len(l)
  PROVE  /\ buf' \in Seq(Byte) /\ cursor' \in 0 .. Len(buf')
         /\ Before' = Decode(l) /\ After' = Decode(r)
         /\ Line' = Text(l) \o Text(r) /\ Column' = Len(Text(l)) /\ Entry' = pos'
<1>1. /\ l \o r \in Seq(Byte) /\ Len(l) \in 0 .. Len(l \o r)
      /\ SubSeq(l \o r, 1, Len(l)) = l
      /\ SubSeq(l \o r, Len(l) + 1, Len(l \o r)) = r
  BY Rejoined
<1>2. Before' = Decode(l) /\ After' = Decode(r)
  BY <1>1 DEF Before, After
<1>3. Line' = Text(l) \o Text(r) /\ Column' = Len(Text(l)) /\ Entry' = pos'
  BY <1>2 DEF Line, Column, Entry, Reading, Text
<1> QED BY <1>1, <1>2, <1>3

\* What a step that leaves the buffer, the history and the answers alone shows.
LEMMA SameShown ==
  ASSUME UNCHANGED <<mode, buf, cursor, history, pos, saved, answer>>
  PROVE  /\ UNCHANGED Editor!vars /\ UNCHANGED <<Before, After>>
         /\ TypeInv => TypeInv' /\ (BrowseInv => BrowseInv')
<1>1. UNCHANGED <<Before, After>>
  BY DEF Before, After
<1>2. UNCHANGED Reading
  BY DEF Reading
<1>3. UNCHANGED Line /\ UNCHANGED Column
  BY <1>1, <1>2, Zenon DEF Line, Column
<1>4. UNCHANGED Lines /\ UNCHANGED Reply /\ UNCHANGED Entry /\ UNCHANGED Draft
  BY <1>2, Zenon DEF Lines, Reply, Entry, Draft
<1>5. UNCHANGED Editor!vars
  BY <1>3, <1>4, Zenon DEF Editor!vars
<1>6. TypeInv => TypeInv' /\ (BrowseInv => BrowseInv')
  BY <1>2 DEF TypeInv, BrowseInv
<1> QED BY <1>1, <1>5, <1>6

LEMMA SameLines == history' = history => Lines' = Lines
BY DEF Lines

LEMMA SameReply == answer' = answer => Reply' = Reply
BY DEF Reply

\* What the user sees of the history.
LEMMA LinesNow ==
  ASSUME history \in Seq(WholeLine)
  PROVE  /\ Lines \in Seq(Seq(Char)) /\ Len(Lines) = Len(history) /\ Len(history) \in Nat
         /\ \A i \in 1 .. Len(history) : Lines[i] = Text(history[i]) /\ history[i] \in WholeLine
         /\ history = <<>> <=> Lines = <<>>
<1>1. /\ Len(history) \in Nat /\ DOMAIN history = 1 .. Len(history)
      /\ \A i \in 1 .. Len(history) : history[i] \in WholeLine
  BY LenProperties, ElementOfSeq
<1>2. \A i \in 1 .. Len(history) : Text(history[i]) \in Seq(Char)
  BY <1>1, TextType DEF WholeLine
<1>3. Lines = [i \in 1 .. Len(history) |-> Text(history[i])]
  BY <1>1 DEF Lines
<1>4. Lines \in Seq(Seq(Char)) /\ Len(Lines) = Len(history)
  BY <1>1, <1>2, <1>3
<1>5. history = <<>> <=> Len(history) = 0
  BY EmptySeq
<1>6. Lines = <<>> <=> Len(Lines) = 0
  BY <1>4, EmptySeq
<1> QED BY <1>1, <1>3, <1>4, <1>5, <1>6

LEMMA DecodeNothing == <<>> \in Seq(Byte) /\ Text(<<>>) = <<>> /\ Decode(<<>>).part = <<>> /\ <<>> \in WholeLine
BY EmptySeq, DecodeEmpty DEF Text, Zero, WholeLine, Whole

-----------------------------------------------------------------------------
\* Outside the line editor, and entering it.
LEMMA InitFollows ==
  ASSUME Init PROVE Inv /\ Editor!Init
<1>1. TypeInv
  BY EmptySeq DEF Init, TypeInv
<1>2. BrowseInv /\ QueueInv
  BY NothingTyped DEF Init, BrowseInv, QueueInv, Reading
<1>3. Line = <<>> /\ Column = 0 /\ Entry = -1 /\ Draft = <<>> /\ Lines = <<>> /\ Reply = <<>>
  BY DEF Init, Line, Column, Entry, Draft, Lines, Reply, Reading
<1> QED BY <1>1, <1>2, <1>3 DEF Inv, Init, Editor!Init

LEMMA TypeFollows ==
  ASSUME TextAssumption, Inv, Type PROVE Inv' /\ Follows
<1>1. UNCHANGED <<mode, buf, cursor, history, pos, saved, answer>>
  BY DEF Type
<1>2. PICK k \in Keys : pending' = pending \o k
  BY DEF Type
<1>3. /\ UNCHANGED Editor!vars /\ UNCHANGED <<Before, After>> /\ TypeInv' /\ BrowseInv'
      /\ UNCHANGED Reading
  BY <1>1, SameShown DEF Inv, Reading
<1>4. pending \in Typeable => pending' \in Typeable
  BY <1>2, OneKeyMore
<1>5. ASSUME NEW p, Midway(p) PROVE Midway(p)'
  <2>1. PICK q \in Seq(Byte), r \in Typeable : p \o q \in Typed /\ q # <<>> /\ pending = q \o r
    BY <1>5 DEF Midway
  <2>2. r \in Seq(Byte) /\ k \in Seq(Byte) /\ r \o k \in Typeable
    BY KeyBytes, OneKeyMore DEF Typeable
  <2>3. pending' = q \o (r \o k)
    BY <1>2, <2>1, <2>2, ByteAssoc
  <2> QED BY <2>1, <2>2, <2>3 DEF Midway
<1>6. QueueInv'
  BY <1>3, <1>4, <1>5 DEF Inv, QueueInv
<1> QED BY <1>3, <1>6 DEF Inv, Follows

LEMMA StartFollows ==
  ASSUME Inv, Start PROVE Inv' /\ Follows
<1>1. mode = "idle" /\ mode' = "reading" /\ buf' = <<>> \o <<>> /\ cursor' = Len(<<>>)
      /\ pos' = -1 /\ saved' = <<>> /\ pending' = <<>> /\ history' = history /\ answer' = answer
  BY EmptySeq, ConcatEmptySeq DEF Start
<1>2. /\ buf' \in Seq(Byte) /\ cursor' \in 0 .. Len(buf')
      /\ Before' = Decode(<<>>) /\ After' = Decode(<<>>)
      /\ Line' = Text(<<>>) \o Text(<<>>) /\ Column' = Len(Text(<<>>)) /\ Entry' = pos'
  BY <1>1, DecodeNothing, ViewNext
<1>3. Line' = <<>> /\ Column' = 0 /\ Entry' = -1 /\ Draft' = <<>>
  BY <1>1, <1>2, DecodeNothing DEF Draft
<1>4. Lines' = Lines /\ Reply' = Reply
  BY <1>1, SameLines, SameReply
<1>5. Inv'
  <2>1. TypeInv'
    BY <1>1, <1>2 DEF Inv, TypeInv
  <2>2. BrowseInv'
    <3>1. Len(history) \in Nat
      BY LenProperties DEF Inv, TypeInv
    <3> QED BY <1>1, <3>1 DEF BrowseInv
  <2>3. QueueInv'
    BY <1>1, <1>2, DecodeNothing, NothingTyped DEF QueueInv, Reading
  <2> QED BY <2>1, <2>2, <2>3 DEF Inv
<1>6. Editor!Prompt
  BY <1>1, <1>3, <1>4 DEF Editor!Prompt
<1> QED BY <1>5, <1>6 DEF Follows, Editor!Next

-----------------------------------------------------------------------------
\* The next byte read: a control byte comes between two characters and is a key
\* of its own, any other is the next one of a character that was typed.
Printable == (32 .. 255) \ {127}

LEMMA ControlBytes ==
  /\ \A b \in {3, 4, 8, 9, 10, 13, 127} : b \notin Printable /\ b # Esc
  /\ Esc \notin Printable
BY DEF Printable, Esc

LEMMA MidwayByte ==
  ASSUME TextAssumption, NEW p \in Seq(Byte), Midway(p)
  PROVE  /\ pending # <<>> /\ Head(pending) \in Printable
         /\ \E c \in Char : IsPrefix(c, p \o pending)
<1>1. PICK q \in Seq(Byte), r \in Typeable : p \o q \in Typed /\ q # <<>> /\ pending = q \o r
  BY DEF Midway
<1> DEFINE c == p \o q
<1>2. c \in Char /\ r \in Seq(Byte)
  BY <1>1 DEF TextAssumption, Typeable
<1>3. /\ Len(c) = Len(p) + Len(q) /\ Len(p) \in Nat /\ Len(q) \in Nat \ {0}
      /\ c[Len(p) + 1] = q[1]
  <2>1. Len(q) \in Nat \ {0} /\ 1 \in 1 .. Len(q)
    BY <1>1, EmptySeq
  <2> QED BY <2>1, ByteConcat
<1>4. pending \in Seq(Byte) /\ Len(pending) = Len(q) + Len(r) /\ Len(r) \in Nat /\ pending[1] = q[1]
  <2>1. 1 \in 1 .. Len(q)
    BY <1>3
  <2> QED BY <1>1, <1>2, <2>1, ByteConcat
<1>5. pending # <<>> /\ Head(pending) = q[1]
  BY <1>3, <1>4
<1>6. /\ c[1] \in Printable /\ Len(c) \in Nat \ {0}
      /\ \A i \in 2 .. Len(c) : Continuation(c[i])
  BY <1>2, CharBytes DEF Printable
<1>7. q[1] \in Printable
  <2> HIDE DEF c
  <2>1. CASE Len(p) = 0
    BY <1>3, <1>6, <2>1
  <2>2. CASE Len(p) # 0
    <3>1. Len(p) + 1 \in 2 .. Len(c)
      BY <1>3, <2>2
    <3>2. Continuation(c[Len(p) + 1])
      BY <1>6, <3>1
    <3>3. q[1] \in 128 .. 191
      BY <1>3, <3>2 DEF Continuation
    <3>4. \A b \in 128 .. 191 : b \in Printable
      BY DEF Printable
    <3> QED BY <3>3, <3>4
  <2> QED BY <2>1, <2>2
<1>8. IsPrefix(c, p \o pending)
  <2>1. p \o pending = c \o r
    BY <1>1, <1>2, ByteAssoc
  <2>2. c \in Seq(Byte)
    BY <1>2, CharBytes
  <2> QED BY <1>2, <2>1, <2>2, SplitsPrefix
<1> QED BY <1>2, <1>5, <1>7, <1>8

LEMMA OneByteKey ==
  ASSUME TextAssumption, NEW k \in Keys, k[1] \notin Printable, k[1] # Esc
  PROVE  k = <<k[1]>>
<1>1. k \notin Typed
  BY CharBytes DEF TextAssumption, Printable
<1>2. PICK n \in {"up", "down", "left", "right", "enter", "back", "tab",
                  "ctrl-c", "ctrl-d", "escape"} : k = Key(n)
  BY <1>1 DEF Keys
<1>3. n \notin {"up", "down", "left", "right", "escape"}
  BY <1>2 DEF Key
<1>4. n \in {"enter", "back", "tab", "ctrl-c", "ctrl-d"}
  BY <1>2, <1>3
<1>5. k \in {<<13>>, <<127>>, <<9>>, <<3>>, <<4>>}
  BY <1>2, <1>4 DEF Key
<1> QED BY <1>5

LEMMA TypedOrControl ==
  ASSUME TextAssumption, NEW k \in Keys
  PROVE  /\ k \in Seq(Byte) /\ k # <<>> /\ Len(k) \in Nat \ {0}
         /\ k[1] \in Printable => k \in Typed
<1>1. ASSUME k \in Typed PROVE k \in Seq(Byte) /\ k # <<>> /\ Len(k) \in Nat \ {0}
  BY <1>1, CharBytes DEF TextAssumption
<1>2. ASSUME k \notin Typed
      PROVE  k \in Seq(Byte) /\ k # <<>> /\ k[1] \notin Printable
  <2>1. PICK n \in {"up", "down", "left", "right", "enter", "back", "tab",
                    "ctrl-c", "ctrl-d", "escape"} : k = Key(n)
    BY <1>2 DEF Keys
  <2>2. k # <<>> /\ k[1] \in {27, 13, 127, 9, 3, 4}
    BY <2>1 DEF Key, Esc
  <2>3. k \in Seq(Byte)
    BY KeyBytes
  <2>4. k[1] \notin Printable
    <3>1. \A b \in {27, 13, 127, 9, 3, 4} : b \notin Printable
      BY DEF Printable
    <3> QED BY <2>2, <3>1
  <2> QED BY <2>2, <2>3, <2>4
<1> QED BY <1>1, <1>2, EmptySeq

LEMMA NextByte ==
  ASSUME TextAssumption, Inv, mode = "reading", pending # <<>>
  PROVE  /\ pending \in Seq(Byte)
         /\ IF Head(pending) \in Printable THEN Midway(Before.part)
            ELSE Before.part = <<>> /\ (Head(pending) # Esc => Tail(pending) \in Typeable)
<1>1. CASE Before.part = <<>>
  <2>1. pending \in Typeable
    BY <1>1 DEF Inv, QueueInv, Reading
  <2>2. PICK k \in Keys, r \in Typeable : pending = k \o r
    BY <2>1, FirstKey
  <2>3. /\ k \in Seq(Byte) /\ k # <<>> /\ Len(k) \in Nat \ {0} /\ r \in Seq(Byte)
        /\ k[1] \in Printable => k \in Typed
    BY TypedOrControl DEF Typeable
  <2>4. pending \in Seq(Byte) /\ Head(pending) = k[1]
    <3>1. 1 \in 1 .. Len(k)
      BY <2>3
    <3>2. pending[1] = k[1] /\ pending \in Seq(Byte)
      BY <2>2, <2>3, <3>1, ByteConcat
    <3> QED BY <3>2
  <2>5. ASSUME Head(pending) \in Printable PROVE Midway(Before.part)
    <3>1. <<>> \o k = k
      BY <2>3, ConcatEmptySeq
    <3>2. Before.part \o k \in Typed /\ k # <<>> /\ pending = k \o r
      BY <1>1, <2>2, <2>3, <2>4, <2>5, <3>1
    <3> QED BY <2>3, <3>2 DEF Midway
  <2>6. ASSUME Head(pending) \notin Printable, Head(pending) # Esc PROVE Tail(pending) \in Typeable
    <3>1. k = <<k[1]>>
      BY <2>4, <2>6, OneByteKey
    <3>2. k[1] \in Byte
      BY <2>3, ElementOfSeq
    <3>3. Tail(<<k[1]>> \o r) = r
      BY <2>3, <3>2
    <3> QED BY <2>2, <3>1, <3>3
  <2> QED BY <1>1, <2>4, <2>5, <2>6
<1>2. CASE Before.part # <<>>
  <2>1. Midway(Before.part)
    BY <1>2 DEF Inv, QueueInv, Reading
  <2>2. Before.part \in Seq(Byte)
    <3>1. PICK l \in Seq(Byte) : Before = Decode(l)
      BY ViewNow DEF Inv
    <3> QED BY <3>1, TextType
  <2>3. Head(pending) \in Printable
    BY <2>1, <2>2, MidwayByte
  <2>4. pending \in Seq(Byte)
    BY <2>1, ByteConcat DEF Midway, Typeable
  <2> QED BY <2>1, <2>3, <2>4
<1> QED BY <1>1, <1>2

LEMMA NothingWaits ==
  ASSUME TextAssumption, Inv, mode = "reading", pending = <<>>
  PROVE  Before.part = <<>>
<1> SUFFICES ASSUME Before.part # <<>> PROVE FALSE
  OBVIOUS
<1>1. Midway(Before.part)
  BY DEF Inv, QueueInv, Reading
<1>2. Before.part \in Seq(Byte)
  <2>1. PICK l \in Seq(Byte) : Before = Decode(l)
    BY ViewNow DEF Inv
  <2> QED BY <2>1, TextType
<1> QED BY <1>1, <1>2, MidwayByte

\* The invariant gives the property that the runs check.
LEMMA InvGivesWhole ==
  ASSUME TextAssumption, Inv PROVE WholeCharacters
<1> SUFFICES ASSUME mode = "reading", Before.part # <<>>
             PROVE  \E c \in Char : IsPrefix(c, Before.part \o pending)
  BY DEF WholeCharacters, Inv, QueueInv, Reading
<1>1. Midway(Before.part)
  BY DEF Inv, QueueInv, Reading
<1>2. Before.part \in Seq(Byte)
  <2>1. PICK l \in Seq(Byte) : Before = Decode(l)
    BY ViewNow DEF Inv
  <2> QED BY <2>1, TextType
<1> QED BY <1>1, <1>2, MidwayByte

-----------------------------------------------------------------------------
\* A control byte that changes nothing the user sees.
LEMMA IgnoredFollows ==
  ASSUME TextAssumption, Inv, mode = "reading", Before.part = <<>>, pending' \in Typeable,
         UNCHANGED <<mode, buf, cursor, history, pos, saved, answer>>
  PROVE  Inv' /\ Follows
<1>1. UNCHANGED Editor!vars /\ UNCHANGED <<Before, After>> /\ TypeInv' /\ BrowseInv' /\ UNCHANGED Reading
  BY SameShown DEF Inv, Reading
<1>2. QueueInv'
  BY <1>1 DEF Inv, QueueInv, Reading
<1> QED BY <1>1, <1>2 DEF Inv, Follows

\* What the user sees after an edit that leaves whole text on both sides.
LEMMA EditStays ==
  ASSUME Inv, mode' = "reading", history' = history, answer' = answer, pending' \in Typeable,
         NEW l \in Seq(Byte), NEW r \in Seq(Byte), Whole(l), Whole(r),
         buf' = l \o r, cursor' = Len(l),
         pos' \in -1 .. Len(history) - 1,
         saved' = <<>> \/ \E m \in WholeLine : saved' = <<m>>,
         pos' >= 0 => saved' # <<>>
  PROVE  /\ Inv'
         /\ Line' = Text(l) \o Text(r) /\ Column' = Len(Text(l)) /\ Entry' = pos'
         /\ Lines' = Lines /\ Reply' = Reply
         /\ Draft' = IF pos' >= 0 THEN Text(saved'[1]) ELSE <<>>
<1>1. /\ buf' \in Seq(Byte) /\ cursor' \in 0 .. Len(buf')
      /\ Before' = Decode(l) /\ After' = Decode(r)
      /\ Line' = Text(l) \o Text(r) /\ Column' = Len(Text(l)) /\ Entry' = pos'
  BY ViewNext
<1>2. Lines' = Lines /\ Reply' = Reply
  BY SameLines, SameReply
<1>3. Draft' = IF pos' >= 0 THEN Text(saved'[1]) ELSE <<>>
  BY DEF Draft, Reading
<1>4. TypeInv'
  BY <1>1 DEF Inv, TypeInv
<1>5. BrowseInv'
  BY DEF BrowseInv
<1>6. QueueInv'
  BY <1>1 DEF QueueInv, Reading, Whole
<1> QED BY <1>1, <1>2, <1>3, <1>4, <1>5, <1>6 DEF Inv

\* While the line is whole: the two halves of the buffer and what is seen of them.
LEMMA WholeNow ==
  ASSUME Inv, mode = "reading", Before.part = <<>>
  PROVE  \E l, r \in Seq(Byte) :
           /\ buf = l \o r /\ cursor = Len(l) /\ Whole(l) /\ Whole(r)
           /\ Line = Text(l) \o Text(r) /\ Column = Len(Text(l)) /\ Entry = pos
           /\ buf \in WholeLine /\ Text(buf) = Line
<1>1. PICK l \in Seq(Byte), r \in Seq(Byte) :
        /\ buf = l \o r /\ cursor = Len(l)
        /\ Before = Decode(l) /\ After = Decode(r)
        /\ Line = Text(l) \o Text(r) /\ Column = Len(Text(l)) /\ Entry = pos
  BY ViewNow DEF Inv
<1>2. Whole(l) /\ Whole(r)
  BY <1>1 DEF Inv, QueueInv, Reading, Whole
<1>3. buf \in Seq(Byte) /\ Decode(buf).part = Decode(r).part /\ Text(buf) = Text(l) \o Text(r)
  BY <1>1, <1>2, DecodeConcat, ByteConcat
<1>4. buf \in WholeLine
  BY <1>2, <1>3 DEF WholeLine, Whole
<1> QED BY <1>1, <1>2, <1>3, <1>4

-----------------------------------------------------------------------------
\* The ways a call returns.
Texts(h) == [i \in DOMAIN h |-> Text(h[i])]

LEMMA TextsAppend ==
  ASSUME NEW h \in Seq(WholeLine), NEW b \in WholeLine
  PROVE  Append(h, b) \in Seq(WholeLine) /\ Texts(Append(h, b)) = Append(Texts(h), Text(b))
<1> DEFINE g == Append(h, b)
<1>1. /\ g \in Seq(WholeLine) /\ Len(g) = Len(h) + 1 /\ Len(h) \in Nat
      /\ \A i \in 1 .. Len(h) : g[i] = h[i]
      /\ g[Len(h) + 1] = b
      /\ DOMAIN h = 1 .. Len(h)
  BY AppendProperties, LenProperties
<1> HIDE DEF g
<1>2. DOMAIN g = 1 .. Len(h) + 1
  BY <1>1, LenProperties
<1>3. \A i \in 1 .. Len(h) : Text(h[i]) \in Seq(Char)
  BY <1>1, TextType, ElementOfSeq DEF WholeLine
<1>4. Texts(h) = [i \in 1 .. Len(h) |-> Text(h[i])] /\ Texts(g) = [i \in 1 .. Len(h) + 1 |-> Text(g[i])]
  BY <1>1, <1>2 DEF Texts
<1>5. Text(b) \in Seq(Char)
  BY TextType DEF WholeLine
<1>6. Texts(h) \in Seq(Seq(Char)) /\ Len(Texts(h)) = Len(h)
  BY <1>1, <1>3, <1>4
<1>7. /\ Append(Texts(h), Text(b)) \in Seq(Seq(Char)) /\ Len(Append(Texts(h), Text(b))) = Len(h) + 1
      /\ \A i \in 1 .. Len(h) : Append(Texts(h), Text(b))[i] = Texts(h)[i]
      /\ Append(Texts(h), Text(b))[Len(h) + 1] = Text(b)
  BY <1>5, <1>6, AppendProperties
<1>8. \A i \in 1 .. Len(h) + 1 : Text(g[i]) \in Seq(Char)
  <2> SUFFICES ASSUME NEW i \in 1 .. Len(h) + 1 PROVE Text(g[i]) \in Seq(Char)
    OBVIOUS
  <2>1. i \in 1 .. Len(h) \/ i = Len(h) + 1
    BY <1>1
  <2> QED BY <1>1, <1>3, <1>5, <2>1
<1>9. Texts(g) \in Seq(Seq(Char)) /\ Len(Texts(g)) = Len(h) + 1
  BY <1>1, <1>4, <1>8
<1>10. \A i \in 1 .. Len(h) + 1 : Texts(g)[i] = Append(Texts(h), Text(b))[i]
  <2> SUFFICES ASSUME NEW i \in 1 .. Len(h) + 1 PROVE Texts(g)[i] = Append(Texts(h), Text(b))[i]
    OBVIOUS
  <2>1. Texts(g)[i] = Text(g[i])
    BY <1>4
  <2>2. CASE i \in 1 .. Len(h)
    BY <1>1, <1>4, <1>7, <2>1, <2>2
  <2>3. CASE i = Len(h) + 1
    BY <1>1, <1>7, <2>1, <2>3
  <2>4. i \in 1 .. Len(h) \/ i = Len(h) + 1
    BY <1>1
  <2> QED BY <2>2, <2>3, <2>4
<1>11. Texts(g) = Append(Texts(h), Text(b))
  BY <1>7, <1>9, <1>10, SeqEqual
<1> QED BY <1>1, <1>11 DEF g

LEMMA TextsTail ==
  ASSUME NEW h \in Seq(WholeLine), h # <<>>
  PROVE  Tail(h) \in Seq(WholeLine) /\ Texts(Tail(h)) = Tail(Texts(h))
<1> DEFINE g == Tail(h)
<1>1. /\ g \in Seq(WholeLine) /\ Len(g) = Len(h) - 1 /\ Len(h) \in Nat \ {0}
      /\ \A i \in 1 .. Len(g) : g[i] = h[i + 1]
      /\ DOMAIN h = 1 .. Len(h)
  BY HeadTailProperties, LenProperties, EmptySeq
<1> HIDE DEF g
<1>2. DOMAIN g = 1 .. Len(h) - 1
  BY <1>1, LenProperties
<1>3. \A i \in 1 .. Len(h) : Text(h[i]) \in Seq(Char)
  BY <1>1, TextType, ElementOfSeq DEF WholeLine
<1>4. Texts(h) = [i \in 1 .. Len(h) |-> Text(h[i])] /\ Texts(g) = [i \in 1 .. Len(h) - 1 |-> Text(g[i])]
  BY <1>1, <1>2 DEF Texts
<1>5. Texts(h) \in Seq(Seq(Char)) /\ Len(Texts(h)) = Len(h) /\ Texts(h) # <<>>
  <2>1. Texts(h) \in Seq(Seq(Char)) /\ Len(Texts(h)) = Len(h)
    BY <1>1, <1>3, <1>4
  <2> QED BY <1>1, <2>1, EmptySeq
<1>6. /\ Tail(Texts(h)) \in Seq(Seq(Char)) /\ Len(Tail(Texts(h))) = Len(h) - 1
      /\ \A i \in 1 .. Len(h) - 1 : Tail(Texts(h))[i] = Texts(h)[i + 1]
  BY <1>5, HeadTailProperties
<1>7. \A i \in 1 .. Len(h) - 1 : i + 1 \in 1 .. Len(h) /\ Texts(g)[i] = Text(h[i + 1])
  BY <1>1, <1>4
<1>8. \A i \in 1 .. Len(h) - 1 : Texts(h)[i + 1] = Text(h[i + 1])
  BY <1>4, <1>7
<1>9. Texts(g) \in Seq(Seq(Char)) /\ Len(Texts(g)) = Len(h) - 1
  <2>1. \A i \in 1 .. Len(h) - 1 : Text(g[i]) \in Seq(Char)
    BY <1>1, <1>3, <1>7
  <2> QED BY <1>1, <1>4, <2>1
<1>10. Texts(g) = Tail(Texts(h))
  BY <1>6, <1>7, <1>8, <1>9, SeqEqual
<1> QED BY <1>1, <1>10 DEF g

\* The history of bytes and that of characters take a line the same way.
LEMMA Remembered ==
  ASSUME TextAssumption, NEW h \in Seq(WholeLine), NEW b \in WholeLine
  PROVE  /\ history_add(h, b) \in Seq(WholeLine)
         /\ Texts(history_add(h, b)) = Editor!Remember(Texts(h), Text(b))
<1>1. b \in Seq(Byte) /\ Whole(b) /\ (Text(b) = <<>> <=> b = <<>>) /\ HistoryMax \in Nat \ {0}
  BY TextIsEmpty DEF WholeLine, TextAssumption
<1>2. /\ Len(h) \in Nat /\ DOMAIN h = 1 .. Len(h) /\ (h = <<>> <=> Len(h) = 0)
      /\ \A i \in 1 .. Len(h) : h[i] \in WholeLine
  BY LenProperties, ElementOfSeq, EmptySeq
<1>3. /\ Texts(h) = [i \in 1 .. Len(h) |-> Text(h[i])]
      /\ Texts(h) \in Seq(Seq(Char)) /\ Len(Texts(h)) = Len(h)
  <2>1. \A i \in 1 .. Len(h) : Text(h[i]) \in Seq(Char)
    BY <1>2, TextType DEF WholeLine
  <2>2. Texts(h) = [i \in 1 .. Len(h) |-> Text(h[i])]
    BY <1>2 DEF Texts
  <2> QED BY <1>2, <2>1, <2>2
<1>4. Texts(h) = <<>> <=> h = <<>>
  BY <1>2, <1>3, EmptySeq
<1>5. ASSUME h # <<>> PROVE Last(h) = b <=> Editor!Last(Texts(h)) = Text(b)
  <2>1. Len(h) \in 1 .. Len(h)
    BY <1>2, <1>5
  <2>2. h[Len(h)] \in WholeLine /\ Texts(h)[Len(h)] = Text(h[Len(h)])
    BY <1>2, <1>3, <2>1
  <2>3. h[Len(h)] = b <=> Text(h[Len(h)]) = Text(b)
    BY <1>1, <2>2, SameText DEF WholeLine
  <2> QED BY <1>3, <2>2, <2>3 DEF Last, Editor!Last
<1>6. CASE b = <<>>
  BY <1>1, <1>6 DEF history_add, Editor!Remember
<1>7. CASE b # <<>> /\ h # <<>> /\ Last(h) = b
  <2>1. history_add(h, b) = h
    BY <1>7 DEF history_add
  <2> QED BY <1>4, <1>5, <1>7, <2>1 DEF Editor!Remember
<1>8. CASE b # <<>> /\ ~(h # <<>> /\ Last(h) = b)
  <2>1. history_add(h, b) = Append(IF Len(h) >= HistoryMax THEN Tail(h) ELSE h, b)
    BY <1>8 DEF history_add
  <2>2. Editor!Remember(Texts(h), Text(b)) =
          IF Len(h) >= HistoryMax THEN Append(Tail(Texts(h)), Text(b)) ELSE Append(Texts(h), Text(b))
    BY <1>1, <1>3, <1>4, <1>5, <1>8 DEF Editor!Remember
  <2>3. CASE Len(h) >= HistoryMax
    <3>1. h # <<>>
      BY <1>1, <1>2, <2>3
    <3>2. Tail(h) \in Seq(WholeLine) /\ Texts(Tail(h)) = Tail(Texts(h))
      BY <3>1, TextsTail
    <3> QED BY <2>1, <2>2, <2>3, <3>2, TextsAppend
  <2>4. CASE ~(Len(h) >= HistoryMax)
    BY <2>1, <2>2, <2>4, TextsAppend
  <2> QED BY <2>3, <2>4
<1> QED BY <1>6, <1>7, <1>8

LEMMA ReturnLeaves ==
  ASSUME Inv, mode = "reading", NEW next \in {"idle", "closed"}, NEW ans, NEW h \in Seq(WholeLine),
         Return(next, ans, h)
  PROVE  /\ Inv' /\ mode' = next
         /\ Line' = <<>> /\ Column' = 0 /\ Entry' = -1 /\ Draft' = <<>>
         /\ Lines' = Texts(h) /\ Reply' = [i \in DOMAIN ans |-> Text(ans[i])]
<1>1. /\ mode' = next /\ answer' = ans /\ history' = h /\ saved' = <<>> /\ pending' = <<>>
      /\ buf' = buf /\ cursor' = cursor
  BY DEF Return
<1>2. mode' # "reading"
  BY <1>1
<1>3. Line' = <<>> /\ Column' = 0 /\ Entry' = -1 /\ Draft' = <<>>
  BY <1>2 DEF Line, Column, Entry, Draft, Reading
<1>4. Lines' = Texts(h) /\ Reply' = [i \in DOMAIN ans |-> Text(ans[i])]
  BY <1>1 DEF Lines, Reply, Texts
<1>5. TypeInv' /\ BrowseInv' /\ QueueInv'
  BY <1>1, <1>2, NothingTyped DEF Inv, TypeInv, BrowseInv, QueueInv, Reading
<1> QED BY <1>1, <1>3, <1>4, <1>5 DEF Inv

LEMMA ReturnsFollow ==
  ASSUME TextAssumption, Inv, ReadFails \/ Enter \/ CtrlD \/ CtrlC PROVE Inv' /\ Follows
<1>1. history \in Seq(WholeLine) /\ mode = "reading"
  BY DEF Inv, TypeInv, ReadFails, Enter, CtrlD, CtrlC, Read
<1>2. Lines = Texts(history)
  BY DEF Lines, Texts
<1>3. CASE ReadFails \/ CtrlD
  <2>1. Return("closed", <<>>, history)
    BY <1>3 DEF ReadFails, CtrlD
  <2>2. /\ Inv' /\ mode' = "closed"
        /\ Line' = <<>> /\ Column' = 0 /\ Entry' = -1 /\ Draft' = <<>>
        /\ Lines' = Texts(history) /\ Reply' = [i \in DOMAIN <<>> |-> Text(<<>>[i])]
    BY <1>1, <2>1, ReturnLeaves
  <2>3. Reply' = <<>>
    BY <2>2
  <2>4. Editor!Close
    BY <1>1, <1>2, <2>2, <2>3 DEF Editor!Close, Editor!Editing, Editor!Leave
  <2> QED BY <2>2, <2>4 DEF Follows, Editor!Next
<1>4. CASE CtrlC
  <2>1. Return("idle", <<<<>>>>, history)
    BY <1>4 DEF CtrlC
  <2> DEFINE ans == <<<<>>>>
  <2>2. /\ Inv' /\ mode' = "idle"
        /\ Line' = <<>> /\ Column' = 0 /\ Entry' = -1 /\ Draft' = <<>>
        /\ Lines' = Texts(history) /\ Reply' = [i \in DOMAIN ans |-> Text(ans[i])]
    BY <1>1, <2>1, ReturnLeaves
  <2>3. Reply' = <<<<>>>>
    <3>1. DOMAIN ans = {1} /\ ans[1] = <<>>
      OBVIOUS
    <3>2. Reply' = [i \in {1} |-> <<>>]
      BY <2>2, <3>1, DecodeNothing
    <3> QED BY <3>2
  <2>4. Editor!Abandon
    BY <1>1, <1>2, <2>2, <2>3 DEF Editor!Abandon, Editor!Editing, Editor!Leave
  <2> QED BY <2>2, <2>4 DEF Follows, Editor!Next
<1>5. CASE Enter
  <2> DEFINE h == history_add(history, buf)
             ans == <<buf>>
  <2>1. Return("idle", ans, h) /\ pending # <<>> /\ Head(pending) \in {10, 13}
    BY <1>5 DEF Enter, Read
  <2>2. Before.part = <<>>
    <3>1. Head(pending) \notin Printable
      BY <2>1, ControlBytes
    <3> QED BY <1>1, <2>1, <3>1, NextByte
  <2>3. buf \in WholeLine /\ Text(buf) = Line
    BY <1>1, <2>2, WholeNow
  <2>4. h \in Seq(WholeLine) /\ Texts(h) = Editor!Remember(Lines, Line)
    BY <1>1, <1>2, <2>3, Remembered
  <2> HIDE DEF h
  <2>5. /\ Inv' /\ mode' = "idle"
        /\ Line' = <<>> /\ Column' = 0 /\ Entry' = -1 /\ Draft' = <<>>
        /\ Lines' = Texts(h) /\ Reply' = [i \in DOMAIN ans |-> Text(ans[i])]
    BY <1>1, <2>1, <2>4, ReturnLeaves
  <2>6. Reply' = <<Line>>
    <3>1. DOMAIN ans = {1} /\ ans[1] = buf
      OBVIOUS
    <3>2. Reply' = [i \in {1} |-> Line]
      BY <2>3, <2>5, <3>1
    <3> QED BY <3>2
  <2>7. Editor!Submit
    BY <1>1, <2>4, <2>5, <2>6 DEF Editor!Submit, Editor!Editing, Editor!Leave
  <2> QED BY <2>5, <2>7 DEF Follows, Editor!Next
<1> QED BY <1>3, <1>4, <1>5

-----------------------------------------------------------------------------
\* Wiping, erasing and completing the line.
LEMMA InterruptedFollows ==
  ASSUME TextAssumption, Inv, Interrupted PROVE Inv' /\ Follows
<1>1. /\ mode = "reading" /\ pending = <<>> /\ mode' = mode /\ history' = history /\ pos' = pos
      /\ saved' = saved /\ pending' = pending /\ answer' = answer
      /\ buf' = <<>> \o <<>> /\ cursor' = Len(<<>>)
  BY EmptySeq, ConcatEmptySeq DEF Interrupted
<1>2. <<>> \in Seq(Byte) /\ Whole(<<>>) /\ Text(<<>>) = <<>>
  BY DecodeNothing DEF Whole
<1>3. /\ pos \in -1 .. Len(history) - 1 /\ (pos >= 0 => saved # <<>>)
      /\ saved = <<>> \/ \E m \in WholeLine : saved = <<m>>
  BY <1>1 DEF Inv, BrowseInv, Reading
<1>4. /\ Inv' /\ Line' = Text(<<>>) \o Text(<<>>) /\ Column' = Len(Text(<<>>)) /\ Entry' = pos'
      /\ Lines' = Lines /\ Reply' = Reply
      /\ Draft' = IF pos' >= 0 THEN Text(saved'[1]) ELSE <<>>
  <2>1. pending' \in Typeable
    BY <1>1, NothingTyped
  <2> QED BY <1>1, <1>2, <1>3, <2>1, EditStays
<1>5. Entry = pos /\ Draft = IF pos >= 0 THEN Text(saved[1]) ELSE <<>>
  BY <1>1, <1>3 DEF Entry, Draft, Reading
<1>6. Line' = <<>> /\ Column' = 0
  BY <1>2, <1>4
<1>7. Editor!Wipe
  BY <1>1, <1>4, <1>5, <1>6 DEF Editor!Wipe, Editor!Editing, Editor!Put
<1> QED BY <1>4, <1>7 DEF Follows, Editor!Next

\* A character taken out of the middle, and one put into it.
LEMMA TakenOut ==
  ASSUME NEW a \in Seq(Char), NEW c \in Char, NEW r \in Seq(Char)
  PROVE  /\ Editor!RemoveAt(Append(a, c) \o r, Len(Append(a, c))) = a \o r
         /\ Len(Append(a, c)) = Len(a) + 1 /\ Len(a) \in Nat
<1> DEFINE ac == Append(a, c)
<1>1. ac \in Seq(Char) /\ ac = a \o <<c>> /\ Len(ac) = Len(a) + 1 /\ Len(a) \in Nat /\ <<c>> \in Seq(Char)
  BY AppendProperties, AppendIsConcat, LenProperties
<1> HIDE DEF ac
<1>2. SubSeq(ac \o r, Len(ac) + 1, Len(ac \o r)) = r
  BY <1>1, Rejoined
<1>3. SubSeq(ac \o r, 1, Len(a)) = a
  <2>1. ac \o r = a \o (<<c>> \o r)
    BY <1>1, ConcatAssociative
  <2>2. <<c>> \o r \in Seq(Char)
    BY <1>1, ConcatProperties
  <2>3. SubSeq(a \o (<<c>> \o r), 1, Len(a)) = a
    BY <2>2, Rejoined
  <2> QED BY <2>1, <2>3
<1>4. Editor!RemoveAt(ac \o r, Len(ac)) = SubSeq(ac \o r, 1, Len(a)) \o SubSeq(ac \o r, Len(ac) + 1, Len(ac \o r))
  <2>1. Len(ac) - 1 = Len(a)
    BY <1>1
  <2> QED BY <2>1, Zenon DEF Editor!RemoveAt
<1> QED BY <1>1, <1>2, <1>3, <1>4 DEF ac

LEMMA PutIn ==
  ASSUME NEW a \in Seq(Char), NEW c \in Char, NEW r \in Seq(Char)
  PROVE  /\ Editor!InsertAt(a \o r, Len(a) + 1, c) = Append(a, c) \o r
         /\ Len(Append(a, c)) = Len(a) + 1 /\ Len(a) \in Nat
<1>1. Append(a, c) = a \o <<c>> /\ Len(Append(a, c)) = Len(a) + 1 /\ Len(a) \in Nat
  BY AppendProperties, AppendIsConcat, LenProperties
<1>2. SubSeq(a \o r, 1, Len(a)) = a /\ SubSeq(a \o r, Len(a) + 1, Len(a \o r)) = r
  BY Rejoined
<1> DEFINE i == Len(a) + 1
<1>3. i - 1 = Len(a) /\ i = Len(a) + 1
  BY <1>1
<1> HIDE DEF i
<1>4. Editor!InsertAt(a \o r, i, c) = SubSeq(a \o r, 1, i - 1) \o <<c>> \o SubSeq(a \o r, i, Len(a \o r))
  BY Zenon DEF Editor!InsertAt
<1> QED BY <1>1, <1>2, <1>3, <1>4

LEMMA BackspaceFollows ==
  ASSUME TextAssumption, Inv, Backspace PROVE Inv' /\ Follows
<1>1. /\ mode = "reading" /\ pending # <<>> /\ Head(pending) \in {8, 127}
      /\ pending' = Tail(pending)
  BY DEF Backspace, Read, Drop
<1>2. Before.part = <<>> /\ pending' \in Typeable
  BY <1>1, ControlBytes, NextByte
<1>3. CASE cursor = 0
  <2>1. UNCHANGED <<mode, buf, cursor, history, pos, saved, answer>>
    BY <1>3 DEF Backspace, Ignore, Edit
  <2> QED BY <1>1, <1>2, <2>1, IgnoredFollows
<1>4. CASE cursor # 0
  <2>1. PICK l \in Seq(Byte), r \in Seq(Byte) :
          /\ buf = l \o r /\ cursor = Len(l) /\ Whole(l) /\ Whole(r)
          /\ Line = Text(l) \o Text(r) /\ Column = Len(Text(l))
    BY <1>1, <1>2, WholeNow
  <2>2. l # <<>>
    BY <1>4, <2>1, EmptySeq
  <2>3. PICK a \in Seq(Byte), c \in Char : EndsWith(l, a, c)
    BY <2>1, <2>2, LastChar
  <2>4. l = a \o c /\ Whole(a) /\ Text(l) = Append(Text(a), c) /\ c \in Seq(Byte)
    BY <2>3, CharBytes DEF EndsWith
  <2>5. cursor = Len(a) + Len(c) /\ buf = (a \o c) \o r
    BY <2>1, <2>4, ByteConcat
  <2>6. cursor_prev(buf, cursor) = Len(a)
    BY <2>5, ScanStopsAtChar
  <2>7. SubSeq(buf, cursor + 1, Len(buf)) = r
    BY <2>1, Rejoined
  <2>8. SubSeq(buf, 1, Len(a)) = a
    <3>1. c \in Seq(Byte)
      BY <2>4
    <3>2. c \o r \in Seq(Byte)
      BY <3>1, ByteConcat
    <3>3. (a \o c) \o r = a \o (c \o r)
      BY <3>1, ByteAssoc
    <3>4. buf = a \o (c \o r)
      BY <2>5, <3>3, Zenon
    <3> QED BY <3>2, <3>4, Rejoined
  <2>9. /\ buf' = a \o r /\ cursor' = Len(a) /\ UNCHANGED <<mode, history, answer>>
        /\ pos' = -1 /\ saved' = saved
    BY <1>4, <2>6, <2>7, <2>8 DEF Backspace, Edit
  <2>10. /\ saved = <<>> \/ \E m \in WholeLine : saved = <<m>>
         /\ Len(history) \in Nat
    BY <1>1, LenProperties DEF Inv, BrowseInv, Reading, TypeInv
  <2>11. /\ pos' \in -1 .. Len(history) - 1 /\ ~(pos' >= 0)
         /\ saved' = <<>> \/ \E m \in WholeLine : saved' = <<m>>
         /\ mode' = "reading"
    BY <1>1, <2>9, <2>10
  <2>12. /\ Inv' /\ Line' = Text(a) \o Text(r) /\ Column' = Len(Text(a)) /\ Entry' = pos'
         /\ Lines' = Lines /\ Reply' = Reply
         /\ Draft' = IF pos' >= 0 THEN Text(saved'[1]) ELSE <<>>
    BY <1>2, <2>1, <2>4, <2>9, <2>11, EditStays
  <2>13. Text(a) \in Seq(Char) /\ Text(r) \in Seq(Char)
    BY TextType
  <2>14. /\ Editor!RemoveAt(Line, Column) = Line'
         /\ Column > 0 /\ Column' = Column - 1
    <3>1. /\ Editor!RemoveAt(Append(Text(a), c) \o Text(r), Len(Append(Text(a), c))) = Text(a) \o Text(r)
          /\ Len(Append(Text(a), c)) = Len(Text(a)) + 1 /\ Len(Text(a)) \in Nat
      BY <2>13, TakenOut
    <3> QED BY <2>1, <2>4, <2>12, <3>1
  <2>15. Editor!Erase
    BY <1>1, <2>9, <2>11, <2>12, <2>14 DEF Editor!Erase, Editor!Editing, Editor!Put
  <2> QED BY <2>12, <2>15 DEF Follows, Editor!Next
<1> QED BY <1>3, <1>4

LEMMA TabFollows ==
  ASSUME TextAssumption, Inv, Tab PROVE Inv' /\ Follows
<1> DEFINE t == tab_complete(buf)
           bell == Len(t) <= Len(buf) /\ IsPrefix(buf, t)
<1>1. /\ mode = "reading" /\ pending # <<>> /\ Head(pending) = 9
      /\ pending' = Tail(pending)
  BY DEF Tab, Read, Drop
<1>2. Before.part = <<>> /\ pending' \in Typeable
  BY <1>1, ControlBytes, NextByte
<1>3. CASE buf = <<>> \/ t = <<>> \/ bell
  <2>1. UNCHANGED <<mode, buf, cursor, history, pos, saved, answer>>
    BY <1>3 DEF Tab, Ignore, Edit
  <2> QED BY <1>1, <1>2, <2>1, IgnoredFollows
<1>4. CASE ~(buf = <<>> \/ t = <<>> \/ bell)
  <2>1. /\ buf' = t /\ cursor' = Len(t) /\ UNCHANGED <<mode, history, answer>>
        /\ UNCHANGED <<pos, saved>>
    BY <1>4 DEF Tab, Edit
  <2>2. buf \in WholeLine /\ Text(buf) = Line /\ Entry = pos
    BY <1>1, <1>2, WholeNow
  <2>3. t \in Seq(Byte) /\ Whole(t) /\ IsPrefix(buf, t) /\ buf \in Seq(Byte) /\ Whole(buf) /\ buf # <<>>
    BY <1>4, <2>2, CompletionExtends DEF WholeLine
  <2> HIDE DEF t
  <2>4. PICK s \in Seq(Byte) : t = buf \o s
    BY <2>3, PrefixSplits
  <2>5. s # <<>>
    BY <1>4, <2>3, <2>4, ConcatEmptySeq, LenProperties
  <2>6. Text(t) = Text(buf) \o Text(s) /\ Decode(t).part = Decode(s).part
    BY <2>3, <2>4, DecodeConcat
  <2>7. Whole(s) /\ Text(s) # <<>> /\ Text(buf) # <<>>
    <3>1. Whole(s)
      BY <2>3, <2>6 DEF Whole
    <3> QED BY <2>3, <2>5, <3>1, TextIsEmpty
  <2>8. /\ pos \in -1 .. Len(history) - 1 /\ (pos >= 0 => saved # <<>>)
        /\ saved = <<>> \/ \E m \in WholeLine : saved = <<m>>
    BY <1>1 DEF Inv, BrowseInv, Reading
  <2>9. t = t \o <<>> /\ <<>> \in Seq(Byte) /\ Whole(<<>>) /\ Text(<<>>) = <<>>
    BY <2>3, ConcatEmptySeq, DecodeNothing DEF Whole
  <2>10. /\ Inv' /\ Line' = Text(t) \o Text(<<>>) /\ Column' = Len(Text(t)) /\ Entry' = pos'
         /\ Lines' = Lines /\ Reply' = Reply
         /\ Draft' = IF pos' >= 0 THEN Text(saved'[1]) ELSE <<>>
    BY <1>1, <1>2, <2>1, <2>3, <2>8, <2>9, EditStays
  <2>11. /\ Text(t) \in Seq(Char) /\ Text(buf) \in Seq(Char) /\ Text(s) \in Seq(Char)
    BY <2>3, TextType
  <2>12. Line' = Text(t)
    BY <2>9, <2>10, <2>11, ConcatEmptySeq
  <2>13. Entry' = Entry /\ Draft' = Draft
    <3>1. Draft = IF pos >= 0 THEN Text(saved[1]) ELSE <<>>
      BY <1>1, <2>8 DEF Draft, Reading
    <3> QED BY <2>1, <2>2, <2>10, <3>1
  <2>14. Editor!IsStrictPrefix(Line, Line')
    <3>1. Line' = Line \o Text(s) /\ Line \in Seq(Char) /\ Line' \in Seq(Char)
      BY <2>2, <2>6, <2>11, <2>12
    <3>2. SubSeq(Line \o Text(s), 1, Len(Line)) = Line /\ Len(Line) <= Len(Line \o Text(s))
      BY <2>11, <3>1, Rejoined
    <3>3. SubSeq(Line, 1, Len(Line)) = Line
      BY <3>1, SubSeqFull
    <3>4. Line # Line \o Text(s)
      BY <2>7, <2>11, <3>1, ConcatSimplifications
    <3> QED BY <3>1, <3>2, <3>3, <3>4 DEF Editor!IsStrictPrefix, Editor!IsPrefix
  <2>15. /\ Editor!Editing /\ Line # <<>> /\ Line' \in Seq(Char) /\ Column' = Len(Line')
    BY <1>1, <2>2, <2>7, <2>10, <2>11, <2>12 DEF Editor!Editing
  <2>16. Editor!Complete
    BY <2>1, <2>10, <2>13, <2>14, <2>15 DEF Editor!Complete
  <2> QED BY <2>10, <2>16 DEF Follows, Editor!Next
<1> QED BY <1>3, <1>4

-----------------------------------------------------------------------------
\* The arrows.
LEMMA Regrouped ==
  ASSUME NEW a \in Seq(Char), NEW c \in Char, NEW r \in Seq(Char)
  PROVE  a \o (<<c>> \o r) = Append(a, c) \o r
<1>1. Append(a, c) = a \o <<c>> /\ <<c>> \in Seq(Char)
  BY AppendIsConcat
<1>2. (a \o <<c>>) \o r = a \o (<<c>> \o r)
  BY <1>1, ConcatAssociative
<1> QED BY <1>1, <1>2

LEMMA UpFollows ==
  ASSUME TextAssumption, Inv, mode = "reading", Before.part = <<>>, pending' \in Typeable, Up
  PROVE  Inv' /\ Follows
<1>1. CASE history = <<>> \/ pos = 0
  <2>1. UNCHANGED <<mode, buf, cursor, history, pos, saved, answer>>
    BY <1>1 DEF Up, Ignore, Edit
  <2> QED BY <2>1, IgnoredFollows
<1>2. CASE ~(history = <<>> \/ pos = 0)
  <2> DEFINE p == IF pos < 0 THEN Len(history) - 1 ELSE pos - 1
             h == history[p + 1]
  <2>1. /\ pos \in -1 .. Len(history) - 1 /\ (pos >= 0 => saved # <<>>)
        /\ saved = <<>> \/ \E m \in WholeLine : saved = <<m>>
    BY DEF Inv, BrowseInv, Reading
  <2>2. /\ Lines \in Seq(Seq(Char)) /\ Len(Lines) = Len(history) /\ Len(history) \in Nat \ {0}
        /\ \A i \in 1 .. Len(history) : Lines[i] = Text(history[i]) /\ history[i] \in WholeLine
        /\ Lines # <<>>
    <3>1. history \in Seq(WholeLine) /\ history # <<>>
      BY <1>2 DEF Inv, TypeInv
    <3> QED BY <3>1, LinesNow, EmptySeq
  <2>3. p \in 0 .. Len(history) - 1 /\ p + 1 \in 1 .. Len(history)
    BY <1>2, <2>1, <2>2
  <2>4. history_get(p) = h
    BY <2>2, <2>3 DEF history_get
  <2>5. /\ pos' = p /\ saved' = (IF pos < 0 THEN <<buf>> ELSE saved)
        /\ buf' = h /\ cursor' = Len(h) /\ UNCHANGED <<mode, history, answer>>
    BY <1>2, <2>4 DEF Up, Edit
  <2>6. h \in Seq(Byte) /\ Whole(h) /\ Lines[p + 1] = Text(h)
    BY <2>2, <2>3 DEF WholeLine
  <2> HIDE DEF p, h
  <2>7. buf \in WholeLine /\ Text(buf) = Line /\ Entry = pos
    BY WholeNow
  <2>8. /\ pos' \in -1 .. Len(history) - 1 /\ pos' >= 0 /\ saved' # <<>> /\ mode' = "reading"
        /\ saved' = <<>> \/ \E m \in WholeLine : saved' = <<m>>
    <3>1. pos' \in -1 .. Len(history) - 1 /\ pos' >= 0 /\ mode' = "reading"
      BY <2>3, <2>5
    <3>2. CASE pos < 0
      <4>1. saved' = <<buf>>
        BY <2>5, <3>2
      <4> QED BY <2>7, <3>1, <4>1
    <3>3. CASE ~(pos < 0)
      <4>1. saved' = saved /\ pos >= 0
        BY <2>1, <2>5, <3>3
      <4> QED BY <2>1, <3>1, <4>1
    <3> QED BY <3>2, <3>3
  <2>9. h = h \o <<>> /\ <<>> \in Seq(Byte) /\ Whole(<<>>) /\ Text(<<>>) = <<>>
    BY <2>6, ConcatEmptySeq, DecodeNothing DEF Whole
  <2>10. /\ Inv' /\ Line' = Text(h) \o Text(<<>>) /\ Column' = Len(Text(h)) /\ Entry' = pos'
         /\ Lines' = Lines /\ Reply' = Reply
         /\ Draft' = IF pos' >= 0 THEN Text(saved'[1]) ELSE <<>>
    BY <2>5, <2>6, <2>8, <2>9, EditStays
  <2>11. Line' = Text(h)
    BY <2>6, <2>9, <2>10, TextType, ConcatEmptySeq
  <2>12. Draft' = IF Entry = -1 THEN Line ELSE Draft
    <3>1. CASE pos < 0
      <4>1. saved' = <<buf>> /\ Entry = -1
        BY <2>1, <2>2, <2>5, <2>7, <3>1
      <4> QED BY <2>7, <2>8, <2>10, <4>1
    <3>2. CASE ~(pos < 0)
      <4>1. saved' = saved /\ Entry # -1 /\ pos >= 0
        BY <2>1, <2>2, <2>5, <2>7, <3>2
      <4>2. Draft = Text(saved[1])
        BY <2>1, <4>1 DEF Draft, Reading
      <4> QED BY <2>8, <2>10, <4>1, <4>2
    <3> QED BY <3>1, <3>2
  <2>13. Entry' = (IF Entry = -1 THEN Len(Lines) - 1 ELSE Entry - 1) /\ Entry # 0
    BY <1>2, <2>1, <2>2, <2>5, <2>7, <2>10 DEF p
  <2>14. Line' = Lines[Entry' + 1] /\ Column' = Len(Lines[Entry' + 1])
    BY <2>5, <2>6, <2>10, <2>11
  <2>15. Editor!Older
    BY <2>2, <2>5, <2>10, <2>12, <2>13, <2>14 DEF Editor!Older, Editor!Editing, Editor!Put
  <2> QED BY <2>10, <2>15 DEF Follows, Editor!Next
<1> QED BY <1>1, <1>2

LEMMA DownFollows ==
  ASSUME TextAssumption, Inv, mode = "reading", Before.part = <<>>, pending' \in Typeable, Down
  PROVE  Inv' /\ Follows
<1>1. CASE pos < 0
  <2>1. UNCHANGED <<mode, buf, cursor, history, pos, saved, answer>>
    BY <1>1 DEF Down, Ignore, Edit
  <2> QED BY <2>1, IgnoredFollows
<1>2. CASE ~(pos < 0)
  <2>1. /\ pos \in -1 .. Len(history) - 1 /\ saved # <<>> /\ pos >= 0
        /\ \E m \in WholeLine : saved = <<m>>
    <3>1. Len(history) \in Nat
      BY LenProperties DEF Inv, TypeInv
    <3> QED BY <1>2, <3>1 DEF Inv, BrowseInv, Reading
  <2>2. /\ Lines \in Seq(Seq(Char)) /\ Len(Lines) = Len(history) /\ Len(history) \in Nat
        /\ \A i \in 1 .. Len(history) : Lines[i] = Text(history[i]) /\ history[i] \in WholeLine
    BY LinesNow DEF Inv, TypeInv
  <2>3. Entry = pos /\ Draft = Text(saved[1])
    BY <2>1 DEF Entry, Draft, Reading
  <2>4. PICK m \in WholeLine : saved = <<m>>
    BY <2>1
  <2>5. <<>> \in Seq(Byte) /\ Whole(<<>>) /\ Text(<<>>) = <<>>
    BY DecodeNothing DEF Whole
  <2>6. CASE pos < Len(history) - 1
    <3> DEFINE h == history[(pos + 1) + 1]
    <3>1. (pos + 1) + 1 \in 1 .. Len(history) /\ pos + 1 \in 0 .. Len(history) - 1
      BY <2>1, <2>2, <2>6
    <3>2. history_get(pos + 1) = h
      BY <2>2, <3>1 DEF history_get
    <3>3. /\ pos' = pos + 1 /\ saved' = saved
          /\ buf' = h /\ cursor' = Len(h) /\ UNCHANGED <<mode, history, answer>>
      BY <1>2, <2>6, <3>2 DEF Down, Edit
    <3>4. h \in Seq(Byte) /\ Whole(h) /\ Lines[(pos + 1) + 1] = Text(h)
      BY <2>2, <3>1 DEF WholeLine
    <3> HIDE DEF h
    <3>5. h = h \o <<>>
      BY <3>4, ConcatEmptySeq
    <3>6. pos' \in -1 .. Len(history) - 1 /\ pos' >= 0 /\ saved' = <<m>> /\ saved' # <<>> /\ mode' = "reading"
      BY <2>1, <2>2, <2>4, <3>1, <3>3
    <3>7. /\ Inv' /\ Line' = Text(h) \o Text(<<>>) /\ Column' = Len(Text(h)) /\ Entry' = pos'
          /\ Lines' = Lines /\ Reply' = Reply
          /\ Draft' = IF pos' >= 0 THEN Text(saved'[1]) ELSE <<>>
      BY <2>5, <3>3, <3>4, <3>5, <3>6, EditStays
    <3>8. Line' = Text(h)
      BY <2>5, <3>4, <3>7, TextType, ConcatEmptySeq
    <3>9. Draft' = Draft /\ Entry' = Entry + 1
      BY <2>3, <3>3, <3>6, <3>7
    <3>10. Line' = Lines[Entry' + 1] /\ Column' = Len(Lines[Entry' + 1])
      BY <3>3, <3>4, <3>7, <3>8
    <3>11. Editor!Newer
      BY <2>1, <2>2, <2>3, <2>6, <3>3, <3>7, <3>9, <3>10 DEF Editor!Newer, Editor!Editing, Editor!Put
    <3> QED BY <3>7, <3>11 DEF Follows, Editor!Next
  <2>7. CASE ~(pos < Len(history) - 1)
    <3>1. m \in Seq(Byte) /\ Whole(m) /\ saved[1] = m
      BY <2>4 DEF WholeLine
    <3>2. /\ pos' = -1 /\ saved' = <<>> /\ buf' = m /\ cursor' = Len(m)
          /\ UNCHANGED <<mode, history, answer>>
      BY <1>2, <2>1, <2>7, <3>1 DEF Down, Edit
    <3>3. m = m \o <<>>
      BY <3>1, ConcatEmptySeq
    <3>4. pos' \in -1 .. Len(history) - 1 /\ ~(pos' >= 0) /\ mode' = "reading"
      BY <2>2, <3>2
    <3>5. /\ Inv' /\ Line' = Text(m) \o Text(<<>>) /\ Column' = Len(Text(m)) /\ Entry' = pos'
          /\ Lines' = Lines /\ Reply' = Reply
          /\ Draft' = IF pos' >= 0 THEN Text(saved'[1]) ELSE <<>>
      BY <2>5, <3>1, <3>2, <3>3, <3>4, EditStays
    <3>6. Line' = Draft /\ Column' = Len(Draft) /\ Entry' = -1 /\ Draft' = <<>>
      BY <2>3, <2>5, <3>1, <3>2, <3>4, <3>5, TextType, ConcatEmptySeq
    <3>7. Editor!Newer
      BY <2>1, <2>2, <2>3, <2>7, <3>2, <3>5, <3>6 DEF Editor!Newer, Editor!Editing, Editor!Put
    <3> QED BY <3>5, <3>7 DEF Follows, Editor!Next
  <2> QED BY <2>6, <2>7
<1> QED BY <1>1, <1>2

\* A move that leaves the same text around another place.
LEMMA MoveStays ==
  ASSUME TextAssumption, Inv, mode = "reading", pending' \in Typeable,
         UNCHANGED <<mode, buf, history, answer, pos, saved>>,
         NEW l \in Seq(Byte), NEW r \in Seq(Byte), Whole(l), Whole(r),
         buf = l \o r, cursor' = Len(l), Line = Text(l) \o Text(r),
         Column = Len(Text(l)) - 1 \/ Column = Len(Text(l)) + 1
  PROVE  Inv' /\ Follows
<1>1. /\ pos \in -1 .. Len(history) - 1 /\ (pos >= 0 => saved # <<>>)
      /\ saved = <<>> \/ \E m \in WholeLine : saved = <<m>>
  BY DEF Inv, BrowseInv, Reading
<1>2. /\ Inv' /\ Line' = Text(l) \o Text(r) /\ Column' = Len(Text(l)) /\ Entry' = pos'
      /\ Lines' = Lines /\ Reply' = Reply
      /\ Draft' = IF pos' >= 0 THEN Text(saved'[1]) ELSE <<>>
  BY <1>1, EditStays
<1>3. Entry = pos /\ Draft = IF pos >= 0 THEN Text(saved[1]) ELSE <<>>
  BY <1>1 DEF Entry, Draft, Reading
<1>4. Column' \in 0 .. Len(Line)
  BY <1>2, TextType, Rejoined
<1>5. Column' \in {Column - 1, Column + 1}
  <2>1. Len(Text(l)) \in Nat
    BY TextType, LenProperties
  <2> QED BY <1>2, <2>1
<1>6. Editor!Move
  BY <1>2, <1>3, <1>4, <1>5 DEF Editor!Move, Editor!Editing, Editor!Put
<1> QED BY <1>2, <1>6 DEF Follows, Editor!Next

LEMMA LeftFollows ==
  ASSUME TextAssumption, Inv, mode = "reading", Before.part = <<>>, pending' \in Typeable, Left
  PROVE  Inv' /\ Follows
<1>1. PICK l \in Seq(Byte), r \in Seq(Byte) :
        /\ buf = l \o r /\ cursor = Len(l) /\ Whole(l) /\ Whole(r)
        /\ Line = Text(l) \o Text(r) /\ Column = Len(Text(l))
  BY WholeNow
<1>2. buf' = buf /\ cursor' = cursor_prev(buf, cursor) /\ UNCHANGED <<mode, history, answer, pos, saved>>
  BY DEF Left, Edit
<1>3. CASE l = <<>>
  <2>1. cursor' = cursor
    BY <1>1, <1>2, <1>3, EmptySeq DEF cursor_prev
  <2> QED BY <1>2, <2>1, IgnoredFollows
<1>4. CASE l # <<>>
  <2>1. PICK a \in Seq(Byte), c \in Char : EndsWith(l, a, c)
    BY <1>1, <1>4, LastChar
  <2>2. l = a \o c /\ Whole(a) /\ Text(l) = Append(Text(a), c) /\ c \in Seq(Byte)
    BY <2>1, CharBytes DEF EndsWith
  <2>3. cursor = Len(a) + Len(c) /\ buf = (a \o c) \o r
    BY <1>1, <2>2, ByteConcat
  <2>4. cursor' = Len(a)
    BY <1>2, <2>3, ScanStopsAtChar
  <2>5. buf = a \o (c \o r)
    BY <2>2, <2>3, ByteAssoc
  <2>6. c \o r \in Seq(Byte) /\ Whole(c \o r) /\ Text(c \o r) = <<c>> \o Text(r)
    BY <1>1, CharThenText DEF BeginsWith
  <2>7. Text(a) \in Seq(Char) /\ Text(r) \in Seq(Char)
    BY TextType
  <2>8. Line = Text(a) \o Text(c \o r)
    BY <1>1, <2>2, <2>6, <2>7, Regrouped
  <2>9. Column = Len(Text(a)) + 1
    BY <1>1, <2>2, <2>7, AppendProperties
  <2> QED BY <1>2, <2>2, <2>4, <2>5, <2>6, <2>8, <2>9, MoveStays
<1> QED BY <1>3, <1>4

LEMMA RightFollows ==
  ASSUME TextAssumption, Inv, mode = "reading", Before.part = <<>>, pending' \in Typeable, Right
  PROVE  Inv' /\ Follows
<1>1. PICK l \in Seq(Byte), r \in Seq(Byte) :
        /\ buf = l \o r /\ cursor = Len(l) /\ Whole(l) /\ Whole(r)
        /\ Line = Text(l) \o Text(r) /\ Column = Len(Text(l))
  BY WholeNow
<1>2. buf' = buf /\ cursor' = cursor_next(buf, cursor) /\ UNCHANGED <<mode, history, answer, pos, saved>>
  BY DEF Right, Edit
<1>3. CASE r = <<>>
  <2>1. cursor = Len(buf) /\ Len(buf) \in Nat
    BY <1>1, <1>3, ConcatEmptySeq, LenProperties
  <2>2. cursor' = cursor
    BY <1>2, <2>1 DEF cursor_next
  <2> QED BY <1>2, <2>2, IgnoredFollows
<1>4. CASE r # <<>>
  <2>1. PICK c \in Char, z \in Seq(Byte) : BeginsWith(r, c, z)
    BY <1>1, <1>4, FirstChar
  <2>2. r = c \o z /\ Whole(z) /\ Text(r) = <<c>> \o Text(z) /\ c \in Seq(Byte)
    BY <2>1, CharBytes DEF BeginsWith
  <2>3. cursor' = Len(l) + Len(c)
    BY <1>1, <1>2, <2>2, StepOverChar
  <2>4. l \o c \in Seq(Byte) /\ Whole(l \o c) /\ Text(l \o c) = Append(Text(l), c)
    BY <1>1, TextThenChar DEF EndsWith
  <2>5. buf = (l \o c) \o z /\ Len(l \o c) = Len(l) + Len(c)
    <3>1. (l \o c) \o z = l \o (c \o z)
      BY <2>2, ByteAssoc
    <3>2. Len(l \o c) = Len(l) + Len(c)
      BY <2>2, ByteConcat
    <3> QED BY <1>1, <2>2, <3>1, <3>2
  <2>6. Text(l) \in Seq(Char) /\ Text(z) \in Seq(Char)
    BY TextType
  <2>7. Line = Text(l \o c) \o Text(z)
    BY <1>1, <2>2, <2>4, <2>6, Regrouped
  <2>8. Column = Len(Text(l \o c)) - 1
    <3>1. Len(Append(Text(l), c)) = Len(Text(l)) + 1 /\ Len(Text(l)) \in Nat
      BY <2>6, AppendProperties, LenProperties
    <3> QED BY <1>1, <2>4, <3>1
  <2> QED BY <1>2, <2>2, <2>3, <2>4, <2>5, <2>7, <2>8, MoveStays
<1> QED BY <1>3, <1>4

-----------------------------------------------------------------------------
\* An escape takes its sequence, and everything else that waits, with it.
LEMMA EscapeFollows ==
  ASSUME TextAssumption, Inv, EscapesSwallowAll, Escape PROVE Inv' /\ Follows
<1> DEFINE sn == IF Len(pending) - 1 < EscapeRead THEN Len(pending) - 1 ELSE EscapeRead
           seq == SubSeq(pending, 2, sn + 1)
           final == IF sn >= 2 /\ seq[1] = 91 THEN seq[2] ELSE 0
<1>1. mode = "reading" /\ pending # <<>> /\ Head(pending) = Esc /\ Len(pending) > 1
  BY DEF Escape, Read
<1>2. Before.part = <<>> /\ pending \in Seq(Byte)
  BY <1>1, ControlBytes, NextByte
<1>3. sn = Len(pending) - 1
  <2>1. Len(pending) \in Nat /\ Len(pending) <= EscapeRead + 1 /\ EscapeRead \in Nat
    BY <1>1, <1>2, LenProperties DEF EscapesSwallowAll, TextAssumption
  <2> QED BY <2>1
<1>4. /\ pending' = SubSeq(pending, sn + 2, Len(pending))
      /\ (CASE final = 65 -> Up [] final = 66 -> Down
            [] final = 67 -> Right [] final = 68 -> Left
            [] OTHER -> Ignore)
  BY Zenon DEF Escape
<1> HIDE DEF sn, final
<1>5. pending' \in Typeable
  <2>1. Len(pending) \in Nat /\ sn + 2 = Len(pending) + 1
    BY <1>2, <1>3, LenProperties
  <2>2. SubSeq(pending, Len(pending) + 1, Len(pending)) = <<>>
    BY <2>1, SubSeqEmpty
  <2> QED BY <1>4, <2>1, <2>2, NothingTyped
<1>6. Up \/ Down \/ Right \/ Left \/ Ignore
  BY <1>4
<1>7. CASE Ignore
  <2>1. UNCHANGED <<mode, buf, cursor, history, pos, saved, answer>>
    BY <1>7 DEF Ignore, Edit
  <2> QED BY <1>1, <1>2, <1>5, <2>1, IgnoredFollows
<1> QED BY <1>1, <1>2, <1>5, <1>6, <1>7, UpFollows, DownFollows, RightFollows, LeftFollows

LEMMA EscapeCutFollows ==
  ASSUME TextAssumption, Inv, EscapeCut PROVE Inv' /\ Follows
<1>1. /\ mode = "reading" /\ pending # <<>> /\ Head(pending) = Esc /\ Len(pending) = 1
      /\ pending' = Tail(pending)
      /\ UNCHANGED <<mode, buf, cursor, history, pos, saved, answer>>
  BY DEF EscapeCut, Read, Drop, Ignore, Edit
<1>2. Before.part = <<>> /\ pending \in Seq(Byte)
  BY <1>1, ControlBytes, NextByte
<1>3. Tail(pending) = <<>>
  BY <1>1, <1>2, HeadTailProperties, EmptySeq
<1>4. pending' \in Typeable
  BY <1>1, <1>3, NothingTyped
<1> QED BY <1>1, <1>2, <1>4, IgnoredFollows

LEMMA UnusedFollows ==
  ASSUME TextAssumption, Inv, Unused PROVE Inv' /\ Follows
<1>1. /\ mode = "reading" /\ pending # <<>> /\ Head(pending) = 4 /\ pending' = Tail(pending)
      /\ UNCHANGED <<mode, buf, cursor, history, pos, saved, answer>>
  BY DEF Unused, Read, Drop, Ignore, Edit
<1>2. Before.part = <<>> /\ pending' \in Typeable
  BY <1>1, ControlBytes, NextByte
<1> QED BY <1>1, <1>2, IgnoredFollows

-----------------------------------------------------------------------------
\* The next byte of a character: the last one writes it, the others wait.
LEMMA UnfinishedChar ==
  ASSUME TextAssumption, NEW p \in Seq(Byte), NEW q \in Seq(Byte), p # <<>>, q # <<>>, p \o q \in Char
  PROVE  p \notin Char
<1> DEFINE c == p \o q
<1>1. Len(p) \in Nat \ {0} /\ Len(q) \in Nat \ {0}
  BY EmptySeq, ByteConcat
<1>2. Len(c) = Len(p) + Len(q) /\ c[1] = p[1]
  <2>1. 1 \in 1 .. Len(p)
    BY <1>1
  <2> QED BY <2>1, ByteConcat
<1> HIDE DEF c
<1>3. c \in Char
  BY DEF c
<1>4. Len(c) = encoding_char_len(c[1])
  BY <1>3, CharBytes
<1>5. ASSUME p \in Char PROVE Len(p) = encoding_char_len(p[1])
  BY <1>5, CharBytes
<1> QED BY <1>1, <1>2, <1>4, <1>5

FirstMoves(p, q, r) ==
  /\ Head(pending) \in Byte
  /\ \E z \in Seq(Byte) : /\ Append(p, Head(pending)) \o z = p \o q
                          /\ Tail(pending) = z \o r

LEMMA FirstOfRest ==
  ASSUME NEW p \in Seq(Byte), NEW q \in Seq(Byte), NEW r \in Seq(Byte), q # <<>>, pending = q \o r
  PROVE  FirstMoves(p, q, r)
<1> DEFINE y == q[1]
           z == Tail(q)
<1>1. z \in Seq(Byte) /\ y \in Byte /\ q = <<y>> \o z
  <2>1. /\ q = <<Head(q)>> \o Tail(q) /\ Tail(q) \in Seq(Byte) /\ Head(q) \in Byte
    BY HeadTailProperties
  <2> QED BY <2>1
<1> HIDE DEF y, z
<1>2. <<y>> \in Seq(Byte) /\ z \o r \in Seq(Byte)
  BY <1>1, ByteConcat
<1>3. pending = <<y>> \o (z \o r)
  <2>1. (<<y>> \o z) \o r = <<y>> \o (z \o r)
    BY <1>1, <1>2, ByteAssoc
  <2> QED BY <1>1, <2>1
<1>4. Head(pending) = y /\ Tail(pending) = z \o r
  BY <1>1, <1>2, <1>3
<1>5. Append(p, y) \o z = p \o q
  <2>1. Append(p, y) = p \o <<y>>
    BY <1>1, AppendIsConcat
  <2>2. (p \o <<y>>) \o z = p \o (<<y>> \o z)
    BY <1>1, <1>2, ByteAssoc
  <2> QED BY <1>1, <2>1, <2>2
<1> QED BY <1>1, <1>4, <1>5 DEF FirstMoves

LEMMA InsertFollows ==
  ASSUME TextAssumption, Inv, Insert PROVE Inv' /\ Follows
<1> DEFINE x == Head(pending)
           p == Before.part
           part == Append(p, x)
<1>1. /\ mode = "reading" /\ pending # <<>> /\ x \in Printable
      /\ buf' = InsertAt(buf, cursor + 1, x) /\ cursor' = cursor + 1
      /\ UNCHANGED <<mode, history, answer>> /\ pending' = Tail(pending)
      /\ pos' = -1 /\ saved' = IF pos >= 0 THEN <<>> ELSE saved
  BY DEF Insert, Read, Edit, Drop, Printable
<1>2. PICK l \in Seq(Byte), t \in Seq(Byte) :
        /\ buf = l \o t /\ cursor = Len(l) /\ Before = Decode(l) /\ After = Decode(t)
        /\ Line = Text(l) \o Text(t) /\ Column = Len(Text(l))
  BY <1>1, ViewNow DEF Inv
<1>3. p \in Seq(Byte) /\ Whole(t) /\ p = Decode(l).part
  BY <1>1, <1>2, TextType DEF Inv, QueueInv, Reading, Whole
<1>4. Midway(p)
  BY <1>1, NextByte
<1>5. PICK q \in Seq(Byte), r \in Typeable : p \o q \in Typed /\ q # <<>> /\ pending = q \o r
  BY <1>4 DEF Midway
<1>6. PICK z \in Seq(Byte) : part \o z = p \o q /\ Tail(pending) = z \o r /\ x \in Byte
  <2>1. r \in Seq(Byte)
    BY DEF Typeable
  <2>2. FirstMoves(p, q, r)
    BY <1>3, <1>5, <2>1, FirstOfRest
  <2> QED BY <2>2 DEF FirstMoves
<1> DEFINE m == Append(l, x)
<1>7. /\ m \in Seq(Byte) /\ Len(m) = Len(l) + 1 /\ part \in Seq(Byte) /\ part # <<>>
  BY <1>3, <1>6, AppendProperties
<1>8. buf' = m \o t /\ cursor' = Len(m)
  <2> DEFINE i == cursor + 1
  <2>1. InsertAt(buf, i, x) = SubSeq(buf, 1, i - 1) \o <<x>> \o SubSeq(buf, i, Len(buf))
    BY Zenon DEF InsertAt
  <2>2. i - 1 = Len(l) /\ i = Len(l) + 1
    BY <1>2, LenProperties
  <2>3. SubSeq(buf, 1, Len(l)) = l /\ SubSeq(buf, Len(l) + 1, Len(buf)) = t
    BY <1>2, Rejoined
  <2>4. m = l \o <<x>>
    BY <1>6, AppendIsConcat
  <2> HIDE DEF m, i
  <2>5. InsertAt(buf, i, x) = l \o <<x>> \o t
    BY <2>1, <2>2, <2>3
  <2> QED BY <1>1, <1>2, <1>7, <2>4, <2>5 DEF i
<1>9. /\ Text(m) = IF part \in Char THEN Append(Text(l), part) ELSE Text(l)
      /\ Decode(m).part = IF part \in Char THEN <<>> ELSE part
  BY <1>3, <1>6, OneByteMore
<1> HIDE DEF x, p, part, m
<1>10. /\ buf' \in Seq(Byte) /\ cursor' \in 0 .. Len(buf')
       /\ Before' = Decode(m) /\ After' = Decode(t)
       /\ Line' = Text(m) \o Text(t) /\ Column' = Len(Text(m)) /\ Entry' = pos'
  BY <1>1, <1>7, <1>8, ViewNext
<1>11. Lines' = Lines /\ Reply' = Reply /\ Draft' = <<>> /\ Entry' = -1
  BY <1>1, <1>10, SameLines, SameReply DEF Draft
<1>12. TypeInv'
  BY <1>1, <1>10 DEF Inv, TypeInv
<1>13. BrowseInv'
  <2>1. /\ saved = <<>> \/ \E k \in WholeLine : saved = <<k>>
        /\ Len(history) \in Nat
    BY <1>1, LenProperties DEF Inv, BrowseInv, Reading, TypeInv
  <2>2. saved' = <<>> \/ \E k \in WholeLine : saved' = <<k>>
    BY <1>1, <2>1
  <2>3. pos' \in -1 .. Len(history') - 1 /\ ~(pos' >= 0)
    BY <1>1, <2>1
  <2> QED BY <2>2, <2>3 DEF BrowseInv
<1>14. Text(l) \in Seq(Char) /\ Text(t) \in Seq(Char)
  BY TextType
<1>15. CASE z = <<>>
  <2>1. part \in Char
    <3>1. part = p \o q
      BY <1>6, <1>7, <1>15, ConcatEmptySeq
    <3> QED BY <1>5, <3>1 DEF TextAssumption
  <2>2. pending' = r
    <3>1. r \in Seq(Byte)
      BY DEF Typeable
    <3> QED BY <1>1, <1>6, <1>15, <3>1, ConcatEmptySeq
  <2>3. QueueInv'
    BY <1>1, <1>3, <1>9, <1>10, <2>1, <2>2 DEF QueueInv, Reading, Whole
  <2>4. Text(m) = Append(Text(l), part)
    BY <1>9, <2>1
  <2>5. /\ Editor!InsertAt(Line, Column + 1, part) = Line' /\ Column' = Column + 1
    <3>1. /\ Editor!InsertAt(Text(l) \o Text(t), Len(Text(l)) + 1, part) = Append(Text(l), part) \o Text(t)
          /\ Len(Append(Text(l), part)) = Len(Text(l)) + 1
      BY <1>14, <2>1, PutIn
    <3> QED BY <1>2, <1>10, <2>4, <3>1
  <2>6. Editor!Write
    BY <1>1, <1>11, <2>1, <2>5 DEF Editor!Write, Editor!Editing, Editor!Put
  <2> QED BY <1>12, <1>13, <2>3, <2>6 DEF Inv, Follows, Editor!Next
<1>16. CASE z # <<>>
  <2>1. part \notin Char
    <3>1. part \o z \in Char
      BY <1>5, <1>6 DEF TextAssumption
    <3> QED BY <1>7, <1>16, <3>1, UnfinishedChar
  <2>2. PICK w \in Seq(Byte) : w = part
    BY <1>7
  <2>3. Before'.part = w /\ w # <<>>
    BY <1>7, <1>9, <1>10, <2>1, <2>2
  <2>4. QueueInv'
    <3>1. w \o z \in Typed /\ z # <<>> /\ pending' = z \o r
      BY <1>1, <1>5, <1>6, <1>16, <2>2
    <3>2. Midway(w)'
      BY <3>1 DEF Midway
    <3>3. Midway(Before.part)'
      BY <2>3, <3>2
    <3> QED BY <1>1, <1>3, <1>10, <2>3, <3>3 DEF QueueInv, Reading, Whole
  <2>5. Line' = Line /\ Column' = Column
    BY <1>2, <1>9, <1>10, <2>1
  <2>6. Editor!Adopt
    BY <1>1, <1>11, <2>5 DEF Editor!Adopt, Editor!Editing, Editor!Put
  <2> QED BY <1>12, <1>13, <2>4, <2>6 DEF Inv, Follows, Editor!Next
<1> QED BY <1>15, <1>16

-----------------------------------------------------------------------------
LEMMA StepFollows ==
  ASSUME TextAssumption, Inv, EscapesSwallowAll, [Next]_vars PROVE Inv' /\ Follows
<1>1. CASE Type \/ Start \/ Interrupted
  BY <1>1, TypeFollows, StartFollows, InterruptedFollows
<1>2. CASE ReadFails \/ Enter \/ CtrlD \/ CtrlC
  BY <1>2, ReturnsFollow
<1>3. CASE Backspace \/ Tab
  BY <1>3, BackspaceFollows, TabFollows
<1>4. CASE Escape \/ EscapeCut \/ Unused
  BY <1>4, EscapeFollows, EscapeCutFollows, UnusedFollows
<1>5. CASE Insert
  BY <1>5, InsertFollows
<1>6. CASE UNCHANGED vars
  <2>1. /\ UNCHANGED <<mode, buf, cursor, history, pos, saved, answer>> /\ pending' = pending
    BY <1>6 DEF vars
  <2>2. /\ UNCHANGED Editor!vars /\ UNCHANGED <<Before, After>> /\ TypeInv' /\ BrowseInv'
        /\ UNCHANGED Reading
    BY <2>1, SameShown DEF Inv, Reading
  <2>3. \A p : Midway(p) => Midway(p)'
    BY <2>1 DEF Midway
  <2>4. QueueInv'
    BY <2>1, <2>2, <2>3 DEF Inv, QueueInv
  <2> QED BY <2>2, <2>4 DEF Inv, Follows
<1> QED BY <1>1, <1>2, <1>3, <1>4, <1>5, <1>6, Zenon DEF Next

\* However keys are typed, read, swallowed and interrupted, the queue and the
\* buffer keep to the invariant, as long as no escape splits what waits behind it.
THEOREM Invariance ==
  ASSUME TextAssumption PROVE Spec /\ []EscapesSwallowAll => []Inv
<1>1. Init => Inv
  BY InitFollows
<1>2. Inv /\ EscapesSwallowAll /\ [Next]_vars => Inv'
  BY StepFollows
<1> QED BY <1>1, <1>2, PTL DEF Spec

\* The buffer never holds half a character, save the one that is being read.
THEOREM NoHalfCharacters ==
  ASSUME TextAssumption PROVE Spec /\ []EscapesSwallowAll => []WholeCharacters
<1>1. Inv => WholeCharacters
  BY InvGivesWhole
<1> QED BY <1>1, Invariance, PTL

\* On bytes the editor does what an editor of whole characters does.
THEOREM Refinement ==
  ASSUME TextAssumption PROVE Spec /\ []EscapesSwallowAll => ImplementsEditor
<1>1. Init => Editor!Init
  BY InitFollows
<1>2. Inv /\ EscapesSwallowAll /\ [Next]_vars => [Editor!Next]_(Editor!vars)
  <2> SUFFICES ASSUME Inv, EscapesSwallowAll, [Next]_vars PROVE [Editor!Next]_(Editor!vars)
    OBVIOUS
  <2>1. Follows
    BY StepFollows
  <2> QED BY <2>1 DEF Follows
<1> QED BY <1>1, <1>2, Invariance, PTL DEF Spec, ImplementsEditor, Editor!Spec
=============================================================================
