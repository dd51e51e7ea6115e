-------------------------- MODULE ChildProcess_proofs --------------------------
(***************************************************************************)
(* Proofs about the two components that talk to a child process of their    *)
(* own through pipes and a clock.                                           *)
(*                                                                          *)
(* McpSession, for any number of requests and of unasked lines: type        *)
(* correctness, that a result belongs to its request, that a silent server  *)
(* is asked nothing more, and that no server is left behind.                *)
(*                                                                          *)
(* OsExec, for every timeout, slice and cap, however much the command       *)
(* writes and however often the user presses Ctrl-C: type correctness, that *)
(* no output is lost, that nothing is left running, and that a call takes   *)
(* at most twice its timeout.                                               *)
(***************************************************************************)
EXTENDS OsExec, McpSession, SequenceTheorems, TLAPS

-----------------------------------------------------------------------------
(***************************************************************************)
(* The session with an MCP server                                           *)
(***************************************************************************)
Lines == [from : {"response", "request", "noise"}, id : 0..MaxId,
          body : {"result", "error", "no result", "none"}]
Bodies == {"result", "error", "no result"}
Methods == {"initialize", "tools/list", "tools/call"}
Chunks == [id : 0..MaxId, rest : Nat]
Outcomes == {"result", "error", "no result", "no answer"}

\* What is under way: pieces of requests that were sent, such requests, and no
\* result but of a request the server has served.
PipeInv == stdin \in Seq(Chunks) /\ \A k \in 1..Len(stdin) : stdin[k].id <= Current
DownInv == down \in Seq(Ids) /\ \A k \in 1..Len(down) : down[k] <= Current
Proper(line, S) ==
  line.from = "response" => line.body # "none" /\ (line.body = "result" => line.id \in S)
UpInv == up \in Seq(Lines) /\ \A k \in 1..Len(up) : Proper(up[k], served)

\* Where the session is in its life, and that every request up to the last one
\* has come to something unless the client still waits for it.
PhaseInv ==
  /\ phase = "start" /\ method = "none" => next_id = 1
  /\ method = "initialize" => next_id = 2
  /\ method = "tools/list" => next_id = 3
  /\ phase = "start" => method \in {"none", "initialize"}
  /\ phase \in {"write", "wait"} => method # "none" /\ Current \in Ids
  /\ phase = "write" => left > 0
  /\ phase = "notify" => method = "initialize"
  /\ phase \in {"start", "notify", "idle", "stopped"} =>
       \A k \in 1..Current : outcome[k] # "none"

\* A session that is starting is alive; one that met with silence is not, and
\* waits for nothing.
LifeInv ==
  /\ phase \in {"start", "notify"} => alive
  /\ silent => ~alive /\ phase \in {"idle", "stopped"}

IInv ==
  /\ PipeInv /\ DownInv /\ UpInv
  /\ PhaseInv /\ LifeInv
  /\ ResultIsGenuine /\ NoServerLeftBehind

\* The part of TypeOK that is not about truth values.
Typed ==
  /\ phase \in Phases
  /\ method \in {"none", "initialize", "tools/list", "tools/call"}
  /\ next_id \in 1..(MaxId + 1)
  /\ left \in Nat
  /\ chatter \in 0..Chatter
  /\ served \subseteq 1..Current
  /\ outcome \in [Ids -> {"none", "result", "error", "no result", "no answer"}]
  /\ \A k \in Ids : k > Current => outcome[k] = "none"
  /\ \A k \in 1..(Current - 1) : outcome[k] # "none"

Flags ==
  /\ alive \in BOOLEAN /\ silent \in BOOLEAN /\ server \in BOOLEAN
  /\ phase \in {"write", "wait"} => alive

LEMMA TypeParts == TypeOK <=> Typed /\ Flags
BY Zenon DEF TypeOK, Typed, Flags

LEMMA InitInv == Init => TypeOK /\ IInv
<1> SUFFICES ASSUME Init PROVE TypeOK /\ IInv
  OBVIOUS
<1>1. Flags /\ LifeInv
  BY Zenon DEF Init, Flags, LifeInv
<1>2. Typed
  BY ConstantsAssumption DEF Init, Typed, Phases, MaxId, Ids, Current
<1>3. PipeInv /\ DownInv /\ UpInv
  BY EmptySeq DEF Init, PipeInv, DownInv, UpInv
<1>4. PhaseInv /\ ResultIsGenuine /\ NoServerLeftBehind
  BY DEF Init, PhaseInv, ResultIsGenuine, NoServerLeftBehind, Current
<1> QED BY <1>1, <1>2, <1>3, <1>4, TypeParts DEF IInv

\* A sequence that is appended to, and one whose head is taken.
LEMMA Appended ==
  ASSUME NEW S, NEW s \in Seq(S), NEW e \in S
  PROVE  /\ Append(s, e) \in Seq(S)
         /\ \A k \in 1..Len(Append(s, e)) :
              (k \in 1..Len(s) /\ Append(s, e)[k] = s[k]) \/ Append(s, e)[k] = e
<1>1. /\ Append(s, e) \in Seq(S) /\ Len(Append(s, e)) = Len(s) + 1
      /\ \A k \in 1..Len(s) : Append(s, e)[k] = s[k]
      /\ Append(s, e)[Len(s) + 1] = e /\ Len(s) \in Nat
  BY AppendProperties, LenProperties
<1>2. \A k \in 1..Len(Append(s, e)) : k \in 1..Len(s) \/ k = Len(s) + 1
  BY <1>1
<1> QED BY <1>1, <1>2, Zenon

LEMMA Shortened ==
  ASSUME NEW S, NEW s \in Seq(S), s # << >>
  PROVE  /\ Head(s) \in S /\ Head(s) = s[1] /\ 1 \in 1..Len(s) /\ Tail(s) \in Seq(S)
         /\ \A k \in 1..Len(Tail(s)) : k + 1 \in 1..Len(s) /\ Tail(s)[k] = s[k + 1]
<1>1. /\ Head(s) \in S /\ Tail(s) \in Seq(S) /\ Len(Tail(s)) = Len(s) - 1
      /\ \A k \in 1..Len(Tail(s)) : Tail(s)[k] = s[k + 1]
      /\ Len(s) \in Nat /\ Len(s) >= 1 /\ Head(s) = s[1]
  BY HeadTailProperties, LenProperties
<1>2. \A k \in 1..Len(Tail(s)) : k + 1 \in 1..Len(s)
  BY <1>1
<1>3. 1 \in 1..Len(s)
  BY <1>1
<1> QED BY <1>1, <1>2, <1>3, Zenon

\* What a request that is written makes of the ids and of the outcomes.
LEMMA SendKeepsTypes ==
  ASSUME Typed, PhaseInv, phase \in {"start", "idle"}, next_id \in Ids, NEW m \in Methods,
         m = "initialize" => next_id = 1, m = "tools/list" => next_id = 2,
         NEW n \in Nat \ {0},
         UNCHANGED <<outcome, served, chatter>>,
         method' = m, next_id' = next_id + 1, phase' = "write", left' = n
  PROVE  Typed' /\ PhaseInv'
<1> USE ConstantsAssumption DEF Ids, MaxId, Current
<1>1. Calls \in Nat /\ next_id \in Int /\ 1 <= next_id /\ next_id <= Calls + 2
  OBVIOUS
<1>2. next_id' \in Int /\ next_id' \in 1..(MaxId + 1) /\ next_id' - 1 = next_id
  BY <1>1
<1>3. /\ served \in SUBSET (1..Current)
      /\ \A k \in Ids : k > Current => outcome[k] = "none"
  BY DEF Typed
<1>4. served' \subseteq 1..next_id /\ \A k \in Ids : k > next_id => outcome[k] = "none"
  BY <1>1, <1>3
<1>5. \A k \in 1..(next_id - 1) : outcome[k] # "none"
  BY <1>1 DEF PhaseInv
<1>6. Typed'
  BY <1>1, <1>2, <1>4, <1>5 DEF Typed, Methods, Phases
<1>7. PhaseInv'
  BY <1>1, <1>2 DEF PhaseInv, Methods
<1> QED BY <1>6, <1>7

\* The session may send: it is alive and waits for nothing.
MaySend == alive /\ phase \in {"start", "idle"}

\* A request may be begun whenever the session is alive, waits for nothing and has
\* an id left.
LEMMA SendKeepsInv ==
  ASSUME TypeOK, IInv, MaySend, NEW m \in Methods, NEW n \in Nat \ {0}, Send(m, n),
         next_id \in Ids,
         m = "initialize" => next_id = 1, m = "tools/list" => next_id = 2
  PROVE  TypeOK' /\ IInv'
<1>1. Typed /\ PhaseInv /\ PipeInv /\ DownInv /\ UpInv /\ ResultIsGenuine
  BY TypeParts, Zenon DEF IInv
<1>2. Flags /\ LifeInv
  BY TypeParts, Zenon DEF IInv
<1>3. /\ UNCHANGED <<outcome, stdin, down, up, served, chatter, alive, server, silent>>
      /\ method' = m /\ next_id' = next_id + 1 /\ phase' = "write" /\ left' = n
  BY Zenon DEF Send, process
<1>4. phase' # "start" /\ phase' # "notify" /\ phase' # "stopped"
  BY <1>3
<1>5. Typed' /\ PhaseInv'
  BY <1>1, <1>3, SendKeepsTypes, Zenon DEF MaySend
<1>6. Flags' /\ LifeInv'
  <2>1. ~silent
    BY <1>2, Zenon DEF LifeInv, MaySend
  <2>2. phase' \notin {"start", "notify"}
    BY <1>3
  <2> QED BY <1>2, <1>3, <2>1, <2>2, Zenon DEF Flags, LifeInv, MaySend
<1>7. DownInv' /\ PipeInv'
  <2>1. next_id \in Int /\ Current = next_id - 1 /\ Current' = next_id
    BY <1>3, ConstantsAssumption DEF Ids, MaxId, Current
  <2>2. /\ \A k \in 1..Len(down) : down[k] \in Int /\ down[k] <= Current
        /\ down \in Seq(Ids)
    BY <1>1, ElementOfSeq, ConstantsAssumption DEF DownInv, Ids, MaxId
  <2>3. /\ \A k \in 1..Len(stdin) : stdin[k].id \in Int /\ stdin[k].id <= Current
        /\ stdin \in Seq(Chunks)
    <3>1. stdin \in Seq(Chunks) /\ \A k \in 1..Len(stdin) : stdin[k] \in Chunks
      BY <1>1, ElementOfSeq DEF PipeInv
    <3>2. \A c \in Chunks : c.id \in Int
      BY ConstantsAssumption DEF Chunks, MaxId
    <3> QED BY <1>1, <3>1, <3>2, Zenon DEF PipeInv
  <2>4. DownInv'
    BY <1>3, <2>1, <2>2 DEF DownInv
  <2>5. PipeInv'
    BY <1>3, <2>1, <2>3 DEF PipeInv
  <2> QED BY <2>4, <2>5
<1>8. UpInv'
  BY <1>1, <1>3, Zenon DEF UpInv, Proper
<1>9. ResultIsGenuine' /\ NoServerLeftBehind'
  BY <1>1, <1>3, <1>4, Zenon DEF ResultIsGenuine, NoServerLeftBehind
<1>10. TypeOK'
  BY <1>5, <1>6, Zenon DEF TypeOK, Typed, Flags
<1> QED BY <1>5, <1>6, <1>7, <1>8, <1>9, <1>10, Zenon DEF IInv

\* What is put into the pipe is a piece of a request that was sent.
LEMMA PutKeepsPipeInv ==
  ASSUME PipeInv, NEW i \in 0..MaxId, NEW n \in Nat, i <= Current,
         Put([id |-> i, rest |-> n]), next_id' = next_id
  PROVE  PipeInv'
<1> DEFINE c == [id |-> i, rest |-> n]
<1>1. c \in Chunks /\ c.id = i
  BY DEF Chunks
<1>2. stdin' = stdin \/ stdin' = Append(stdin, c)
  BY Zenon DEF Put
<1> HIDE DEF c
<1>3. CASE stdin' = stdin
  BY <1>3, Zenon DEF PipeInv, Current
<1>4. CASE stdin' = Append(stdin, c)
  <2>1. stdin \in Seq(Chunks) /\ \A k \in 1..Len(stdin) : stdin[k].id <= Current
    BY Zenon DEF PipeInv
  <2>2. /\ stdin' \in Seq(Chunks)
        /\ \A k \in 1..Len(stdin') : (k \in 1..Len(stdin) /\ stdin'[k] = stdin[k]) \/ stdin'[k] = c
    BY <1>1, <1>4, <2>1, Appended, Zenon
  <2>3. \A k \in 1..Len(stdin') : stdin'[k].id <= Current
    BY <1>1, <2>1, <2>2, Zenon
  <2> QED BY <2>2, <2>3, Zenon DEF PipeInv, Current
<1> QED BY <1>2, <1>3, <1>4, Zenon

\* Writing, a step of it: the request goes on, is complete, or the end of cgent; or
\* the notification is written.
LEMMA WritingKeepsInv ==
  ASSUME TypeOK, IInv, PipeInv', left' \in Nat,
         UNCHANGED <<method, next_id, alive, outcome, silent, down, up, process>>,
         \/ phase = "write" /\ phase' \in {"write", "wait", "dead"} /\ (phase' = "write" => left' > 0)
         \/ phase = "notify" /\ phase' \in {"start", "dead"}
  PROVE  TypeOK' /\ IInv'
<1>1. Typed /\ Flags /\ PhaseInv /\ LifeInv /\ DownInv /\ UpInv /\ ResultIsGenuine
  BY TypeParts, Zenon DEF IInv
<1>2. phase \notin {"idle", "stopped"} /\ phase' \in Phases /\ phase' \notin {"idle", "stopped"}
  BY DEF Phases
<1>3. Typed'
  BY <1>1, <1>2, Zenon DEF Typed, Current, process
<1>4. PhaseInv'
  <2>1. Current' = Current
    BY Zenon DEF Current
  <2>2. UNCHANGED <<method, next_id, outcome>>
    BY Zenon
  <2>3. Ids' = Ids
    BY DEF Ids, MaxId
  <2> HIDE DEF Current, Ids
  <2>4. CASE phase = "write"
    BY <1>1, <2>1, <2>2, <2>3, <2>4 DEF PhaseInv
  <2>5. CASE phase = "notify"
    BY <1>1, <2>1, <2>2, <2>3, <2>5 DEF PhaseInv
  <2> QED BY <2>4, <2>5, Zenon
<1>5. Flags' /\ LifeInv'
  <2>1. ~silent /\ ~silent' /\ alive /\ alive'
    <3>1. ~silent
      BY <1>1, <1>2, Zenon DEF LifeInv
    <3>2. phase \in {"write", "wait"} \/ phase \in {"start", "notify"}
      OBVIOUS
    <3> QED BY <1>1, <3>1, <3>2, Zenon DEF LifeInv, Flags
  <2> QED BY <1>1, <2>1, Zenon DEF Flags, LifeInv, process
<1>6. DownInv' /\ UpInv' /\ ResultIsGenuine'
  BY <1>1, Zenon DEF DownInv, UpInv, Proper, ResultIsGenuine, Current, process
<1>7. NoServerLeftBehind'
  BY <1>2 DEF NoServerLeftBehind
<1>8. TypeOK'
  BY <1>3, <1>5, Zenon DEF TypeOK, Typed, Flags
<1> QED BY <1>4, <1>5, <1>6, <1>7, <1>8, Zenon DEF IInv

LEMMA WriteKeepsInv == TypeOK /\ IInv /\ Write => TypeOK' /\ IInv'
<1> SUFFICES ASSUME TypeOK, IInv, Write PROVE TypeOK' /\ IInv'
  OBVIOUS
<1>1. Typed /\ PhaseInv /\ PipeInv
  BY TypeParts, Zenon DEF IInv
<1>2. /\ phase = "write" /\ Put([id |-> Current, rest |-> left - 1]) /\ left' = left - 1
      /\ phase' = IF ~server THEN "dead" ELSE IF left = 1 THEN "wait" ELSE "write"
      /\ UNCHANGED <<method, next_id, alive, outcome, silent, down, up, process>>
  BY Zenon DEF Write
<1>3. left \in Nat /\ left > 0
  BY <1>1, <1>2 DEF Typed, PhaseInv
<1>4. left - 1 \in Nat /\ (left # 1 => left - 1 > 0)
  BY <1>3
<1>5. Current \in 0..MaxId /\ Current <= Current
  <2>1. Current \in Ids
    BY <1>1, <1>2 DEF PhaseInv
  <2>2. MaxId \in Int
    BY ConstantsAssumption DEF MaxId
  <2> QED BY <2>1, <2>2 DEF Ids
<1>6. PipeInv'
  BY <1>1, <1>2, <1>4, <1>5, PutKeepsPipeInv, Zenon
<1>7. phase' \in {"write", "wait", "dead"} /\ (phase' = "write" => left' > 0)
  BY <1>2, <1>4
<1> QED BY <1>2, <1>4, <1>6, <1>7, WritingKeepsInv, Zenon

LEMMA NotifyKeepsInv == TypeOK /\ IInv /\ Notify => TypeOK' /\ IInv'
<1> SUFFICES ASSUME TypeOK, IInv, Notify PROVE TypeOK' /\ IInv'
  OBVIOUS
<1>1. Typed /\ PipeInv
  BY TypeParts, Zenon DEF IInv
<1>2. /\ phase = "notify" /\ Put([id |-> 0, rest |-> 0]) /\ left' = left
      /\ phase' = (IF server THEN "start" ELSE "dead")
      /\ UNCHANGED <<method, next_id, alive, outcome, silent, down, up, process>>
  BY Zenon DEF Notify
<1>3. 0 \in 0..MaxId /\ 0 <= Current /\ left \in Nat /\ 0 \in Nat
  <2>1. MaxId \in Nat
    BY ConstantsAssumption DEF MaxId
  <2>2. next_id \in 1..(MaxId + 1) /\ left \in Nat
    BY <1>1, Zenon DEF Typed
  <2> QED BY <2>1, <2>2 DEF Current
<1>4. PipeInv'
  BY <1>1, <1>2, <1>3, PutKeepsPipeInv, Zenon
<1>5. phase' \in {"start", "dead"}
  BY <1>2
<1> QED BY <1>2, <1>3, <1>4, <1>5, WritingKeepsInv, Zenon

\* What the end of a request makes of the session: it goes on starting, serves, or
\* is stopped.
LEMMA FinishCases ==
  ASSUME NEW o, Finish(o)
  PROVE  /\ outcome' = [outcome EXCEPT ![Current] = o]
         /\ UNCHANGED <<method, next_id, left, stdin, down, served, chatter>>
         /\ \/ method = "initialize" /\ phase' = "notify" /\ o = "result"
            \/ method \in {"tools/list", "tools/call"} /\ phase' = "idle"
            \/ phase' = "stopped"
         /\ phase' # "start" /\ (phase' = "notify" => UNCHANGED <<alive, server>>)
         /\ o = "no answer" => ~alive' /\ phase' \in {"idle", "stopped"}
         /\ alive' \in BOOLEAN \/ alive' = alive
         /\ server' \in BOOLEAN \/ server' = server
         /\ phase' = "stopped" => ~server'
<1>1. outcome' = [outcome EXCEPT ![Current] = o] /\ UNCHANGED <<method, next_id, left, stdin, down>>
  BY Zenon DEF Finish
<1>2. CASE method = "initialize" /\ o = "result"
  <2>1. phase' = "notify" /\ UNCHANGED <<alive, process>>
    BY <1>2, Zenon DEF Finish
  <2>2. phase' # "start" /\ phase' # "stopped"
    BY <2>1
  <2> QED BY <1>1, <1>2, <2>1, <2>2, "result" # "no answer", Zenon DEF process
<1>3. CASE method = "tools/list" /\ o = "result"
  <2>1. phase' = "idle" /\ UNCHANGED <<alive, process>> /\ method # "initialize"
    BY <1>3, Zenon DEF Finish
  <2>2. /\ phase' # "stopped" /\ phase' # "start" /\ phase' # "notify"
        /\ method \in {"tools/list", "tools/call"}
    BY <1>3, <2>1
  <2> QED BY <1>1, <1>3, <2>1, <2>2, "result" # "no answer", Zenon DEF process
<1>4. CASE method = "tools/call"
  <2>1. phase' = "idle" /\ alive' = (o # "no answer") /\ UNCHANGED process
    BY <1>4, Zenon DEF Finish
  <2>2. /\ phase' # "stopped" /\ phase' # "start" /\ phase' # "notify"
        /\ phase' \in {"idle", "stopped"}
        /\ method \in {"tools/list", "tools/call"}
    BY <1>4, <2>1
  <2> QED BY <1>1, <1>4, <2>1, <2>2, Zenon DEF process
<1>5. CASE ~(method \in {"initialize", "tools/list"} /\ o = "result") /\ method # "tools/call"
  <2>1. Stop
    BY <1>5, Zenon DEF Finish
  <2>2. /\ phase' = "stopped" /\ alive' = FALSE /\ server' = FALSE
        /\ UNCHANGED <<chatter, served>>
    BY <2>1, Zenon DEF Stop
  <2>3. phase' # "start" /\ phase' # "notify" /\ phase' \in {"idle", "stopped"}
    BY <2>2
  <2> QED BY <1>1, <2>2, <2>3, Zenon
<1> QED BY <1>2, <1>3, <1>4, <1>5, Zenon

\* The outcome that is written down leaves the types and the phases as they are.
LEMMA FinishKeepsTypes ==
  ASSUME Typed, PhaseInv, phase = "wait", NEW o \in Outcomes,
         outcome' = [outcome EXCEPT ![Current] = o],
         UNCHANGED <<method, next_id, left, served, chatter>>,
         \/ method = "initialize" /\ phase' = "notify"
         \/ method \in {"tools/list", "tools/call"} /\ phase' = "idle"
         \/ phase' = "stopped"
  PROVE  Typed' /\ PhaseInv'
<1>1. /\ MaxId \in Int /\ Current \in Int /\ Current' = Current
      /\ Current \in Ids /\ Current >= 1 /\ Current <= MaxId
  <2>1. MaxId \in Int
    BY ConstantsAssumption DEF MaxId
  <2>2. next_id \in 1..(MaxId + 1)
    BY DEF Typed
  <2>3. next_id \in Int
    BY <2>1, <2>2
  <2>4. Current \in Ids
    BY DEF PhaseInv
  <2> QED BY <2>1, <2>3, <2>4 DEF Current, Ids
<1>2. Ids \subseteq Int
  BY ConstantsAssumption DEF Ids, MaxId
<1>3. /\ phase' \in Phases /\ phase' \notin {"write", "wait", "start"}
      /\ method' \in {"none", "initialize", "tools/list", "tools/call"}
      /\ phase' = "notify" => method' = "initialize"
  BY DEF Typed, Phases
<1>4. /\ outcome \in [Ids -> {"none"} \cup Outcomes]
      /\ \A k \in Ids : k > Current => outcome[k] = "none"
      /\ \A k \in 1..(Current - 1) : outcome[k] # "none"
  BY DEF Typed, Outcomes
<1>5. /\ outcome' \in [Ids -> {"none"} \cup Outcomes]
      /\ \A k \in Ids : k > Current => outcome'[k] = "none"
  BY <1>1, <1>2, <1>4
<1>6. \A k \in 1..Current : outcome'[k] # "none"
  <2> SUFFICES ASSUME NEW k \in 1..Current PROVE outcome'[k] # "none"
    OBVIOUS
  <2>1. k \in Ids /\ (k = Current \/ k \in 1..(Current - 1))
    BY <1>1 DEF Ids
  <2>2. o # "none"
    BY DEF Outcomes
  <2> QED BY <1>1, <1>4, <2>1, <2>2
<1>7. \A k \in 1..(Current - 1) : outcome'[k] # "none"
  BY <1>1, <1>6
<1>8. Typed'
  BY <1>1, <1>3, <1>5, <1>7 DEF Typed, Outcomes
<1>9. PhaseInv'
  BY <1>1, <1>3, <1>6 DEF PhaseInv
<1> QED BY <1>8, <1>9

\* A request may end with an answer that is its own, or with none.
LEMMA FinishKeepsInv ==
  ASSUME TypeOK, IInv, phase = "wait", NEW o \in Outcomes, Finish(o), UpInv',
         o = "result" => Current \in served,
         silent' \in BOOLEAN, silent' => o = "no answer"
  PROVE  TypeOK' /\ IInv'
<1>1. Typed /\ Flags
  BY TypeParts, Zenon
<1>2. PhaseInv /\ PipeInv /\ DownInv /\ ResultIsGenuine
  BY Zenon DEF IInv
<1>3. Typed' /\ PhaseInv'
  BY <1>1, <1>2, FinishCases, FinishKeepsTypes, Zenon
<1>4. phase' \notin {"write", "wait"}
  <2>1. phase' \in {"notify", "idle", "stopped"}
    BY FinishCases
  <2> QED BY <2>1
<1>5. Flags'
  BY <1>1, <1>4, FinishCases, Zenon DEF Flags
<1>6. LifeInv'
  BY <1>1, FinishCases, Zenon DEF Flags, LifeInv
<1>7. DownInv' /\ PipeInv'
  BY <1>2, FinishCases, Zenon DEF DownInv, PipeInv, Current
<1>8. ResultIsGenuine'
  <2>1. outcome \in [Ids -> {"none"} \cup Outcomes] /\ Ids' = Ids
    BY <1>1 DEF Typed, Outcomes, Ids, MaxId
  <2>2. outcome' = [outcome EXCEPT ![Current] = o] /\ served' = served
    BY FinishCases, Zenon
  <2>3. \A k \in Ids : outcome'[k] = "result" => k \in served
    BY <1>2, <2>1, <2>2 DEF ResultIsGenuine
  <2> QED BY <2>2, <2>3, Zenon DEF ResultIsGenuine, Ids, MaxId
<1>9. NoServerLeftBehind'
  BY FinishCases, Zenon DEF NoServerLeftBehind
<1>10. TypeOK'
  BY <1>3, <1>5, Zenon DEF TypeOK, Typed, Flags
<1> QED BY <1>3, <1>6, <1>7, <1>8, <1>9, <1>10, Zenon DEF IInv

\* Reading a line: whatever is answered to the request now under way is its own.
LEMMA ReadLineKeepsInv == TypeOK /\ IInv /\ ReadLine => TypeOK' /\ IInv'
<1> SUFFICES ASSUME TypeOK, IInv, ReadLine PROVE TypeOK' /\ IInv'
  OBVIOUS
<1> DEFINE line == Head(up)
<1>1. phase = "wait" /\ up # << >> /\ up' = Tail(up)
  BY Zenon DEF ReadLine
<1>2. /\ up \in Seq(Lines) /\ \A k \in 1..Len(up) : Proper(up[k], served)
      /\ silent \in BOOLEAN /\ ~silent
  <2>1. UpInv /\ Flags /\ LifeInv
    BY TypeParts, Zenon DEF IInv
  <2>2. phase \notin {"idle", "stopped"}
    BY <1>1
  <2> QED BY <2>1, <2>2, Zenon DEF UpInv, Flags, LifeInv
<1>3. /\ line \in Lines /\ Proper(line, served) /\ Tail(up) \in Seq(Lines)
      /\ \A k \in 1..Len(Tail(up)) : Proper(Tail(up)[k], served)
  <2>1. /\ line \in Lines /\ line = up[1] /\ 1 \in 1..Len(up) /\ Tail(up) \in Seq(Lines)
        /\ \A k \in 1..Len(Tail(up)) : k + 1 \in 1..Len(up) /\ Tail(up)[k] = up[k + 1]
    BY <1>1, <1>2, Shortened, Zenon
  <2> HIDE DEF line
  <2> QED BY <1>2, <2>1, Zenon
<1> HIDE DEF line
<1>4. CASE line.id = Current
  <2>1. Finish(Verdict(line)) /\ silent' = silent
    BY <1>4, Zenon DEF ReadLine, line
  <2>2. served' = served /\ outcome' = [outcome EXCEPT ![Current] = Verdict(line)]
    BY <2>1, FinishCases, Zenon
  <2>3. /\ Verdict(line) \in Outcomes /\ Verdict(line) # "no answer"
        /\ Verdict(line) = "result" => line.id \in served
    BY <1>3 DEF Lines, Proper, Verdict, Outcomes
  <2>4. UpInv'
    BY <1>1, <1>3, <2>2, Zenon DEF UpInv, Proper
  <2>5. silent' \in BOOLEAN /\ ~silent'
    BY <1>2, <2>1, Zenon
  <2> QED BY <1>1, <1>4, <2>1, <2>3, <2>4, <2>5, FinishKeepsInv, Zenon
<1>5. CASE line.id # Current
  <2>1. UNCHANGED <<session, stdin, down, process>>
    BY <1>5, Zenon DEF ReadLine, line
  <2>2. UpInv'
    BY <1>1, <1>3, <2>1, Zenon DEF UpInv, Proper, process
  <2>3. TypeOK'
    BY <2>1, Zenon DEF TypeOK, session, process, Current
  <2>4. /\ PipeInv' /\ DownInv' /\ PhaseInv' /\ LifeInv'
        /\ ResultIsGenuine' /\ NoServerLeftBehind'
    BY <2>1, Zenon DEF IInv, session, process, Current, PipeInv, DownInv, PhaseInv, LifeInv,
                       ResultIsGenuine, NoServerLeftBehind
  <2> QED BY <2>2, <2>3, <2>4, Zenon DEF IInv
<1> QED BY <1>4, <1>5, Zenon

LEMMA NoAnswerKeepsInv == TypeOK /\ IInv /\ NoAnswer => TypeOK' /\ IInv'
<1> SUFFICES ASSUME TypeOK, IInv, NoAnswer PROVE TypeOK' /\ IInv'
  OBVIOUS
<1>1. phase = "wait" /\ Finish("no answer") /\ silent' = TRUE /\ up' = up
  BY Zenon DEF NoAnswer
<1>2. UpInv'
  BY <1>1, FinishCases, Zenon DEF IInv, UpInv, Proper
<1>3. "no answer" \in Outcomes /\ "no answer" # "result"
  BY DEF Outcomes
<1> QED BY <1>1, <1>2, <1>3, FinishKeepsInv, Zenon

LEMMA StopBridgeKeepsInv == TypeOK /\ IInv /\ StopBridge => TypeOK' /\ IInv'
<1> SUFFICES ASSUME TypeOK, IInv, StopBridge PROVE TypeOK' /\ IInv'
  OBVIOUS
<1>1. /\ phase = "idle" /\ phase' = "stopped" /\ alive' = FALSE /\ server' = FALSE
      /\ UNCHANGED <<method, next_id, left, outcome, silent, stdin, down, up, chatter, served>>
  BY Zenon DEF StopBridge, Stop
<1>2. Typed /\ Flags /\ PhaseInv
  BY TypeParts, Zenon DEF IInv
<1>3. /\ phase' \notin {"write", "wait"} /\ phase' \notin {"start", "notify"}
      /\ phase' # "write" /\ phase' # "start" /\ phase' # "notify"
      /\ phase' \in {"idle", "stopped"}
  BY <1>1
<1>4. Flags' /\ LifeInv'
  BY <1>1, <1>2, <1>3, Zenon DEF Flags, LifeInv
<1>5. phase' \in Phases
  BY <1>1 DEF Phases
<1>6. Typed'
  BY <1>1, <1>2, <1>5, Zenon DEF Typed, Current
<1>7. PhaseInv'
  <2>1. \A k \in 1..Current : outcome[k] # "none"
    BY <1>1, <1>2 DEF PhaseInv
  <2>2. /\ method = "initialize" => next_id = 2
        /\ method = "tools/list" => next_id = 3
    BY <1>2, Zenon DEF PhaseInv
  <2> QED BY <1>1, <1>3, <2>1, <2>2, Zenon DEF PhaseInv, Current
<1>8. PipeInv' /\ DownInv' /\ UpInv' /\ ResultIsGenuine' /\ NoServerLeftBehind'
  BY <1>1, Zenon DEF IInv, PipeInv, DownInv, UpInv, Proper, ResultIsGenuine, NoServerLeftBehind, Current
<1>9. TypeOK'
  BY <1>4, <1>6, Zenon DEF TypeOK, Typed, Flags
<1> QED BY <1>4, <1>7, <1>8, <1>9, Zenon DEF IInv

LEMMA SendsKeepInv == TypeOK /\ IInv /\ (SendInitialize \/ SendList \/ SendCall) => TypeOK' /\ IInv'
<1> SUFFICES ASSUME TypeOK, IInv, SendInitialize \/ SendList \/ SendCall
             PROVE  TypeOK' /\ IInv'
  OBVIOUS
<1>1. Typed /\ PhaseInv /\ LifeInv
  BY TypeParts, Zenon DEF IInv
<1>2. \E m \in Methods, n \in Nat \ {0} :
        /\ phase \in {"start", "idle"} /\ Send(m, n) /\ next_id \in Ids
        /\ m = "initialize" => next_id = 1
        /\ m = "tools/list" => next_id = 2
  <2> USE ConstantsAssumption, PipeAssumption DEF Ids, MaxId, Methods
  <2>1. CASE SendInitialize
    <3>1. phase = "start" /\ method = "none" /\ Send("initialize", 1)
      BY <2>1 DEF SendInitialize
    <3>2. next_id = 1
      BY <1>1, <3>1 DEF PhaseInv
    <3> QED BY <3>1, <3>2
  <2>2. CASE SendList
    <3>1. phase = "start" /\ method = "initialize" /\ Send("tools/list", 1)
      BY <2>2 DEF SendList
    <3>2. next_id = 2
      BY <1>1, <3>1 DEF PhaseInv
    <3> QED BY <3>1, <3>2
  <2>3. CASE SendCall
    <3>1. /\ phase = "idle" /\ next_id <= MaxId
          /\ \E n \in Sizes : Send("tools/call", n)
      BY <2>3, Zenon DEF SendCall
    <3>2. next_id \in 1..(MaxId + 1)
      BY <1>1 DEF Typed
    <3>3. next_id \in Ids
      BY <3>1, <3>2
    <3>4. \E n \in Nat \ {0} : Send("tools/call", n)
      BY <3>1
    <3>5. "tools/call" \in Methods
      OBVIOUS
    <3> QED BY <3>1, <3>3, <3>4, <3>5, "tools/call" # "initialize", "tools/call" # "tools/list", Zenon
  <2> QED BY <2>1, <2>2, <2>3, Zenon
<1>3. MaySend
  <2>1. CASE phase = "start"
    BY <1>1, <1>2, <2>1, Zenon DEF LifeInv, MaySend
  <2>2. CASE phase # "start"
    <3>1. SendCall
      BY <2>2, Zenon DEF SendInitialize, SendList
    <3> QED BY <1>2, <3>1, Zenon DEF SendCall, MaySend
  <2> QED BY <2>1, <2>2, Zenon
<1> QED BY <1>2, <1>3, SendKeepsInv, Zenon

\* The server says one proper line more, and may have served a request.
LEMMA SayKeepsUpInv ==
  ASSUME UpInv, NEW line \in Lines, up' = Append(up, line), served \subseteq served',
         Proper(line, served')
  PROVE  UpInv'
<1>1. up \in Seq(Lines) /\ \A k \in 1..Len(up) : Proper(up[k], served)
  BY Zenon DEF UpInv
<1>2. /\ up' \in Seq(Lines)
      /\ \A k \in 1..Len(up') : (k \in 1..Len(up) /\ up'[k] = up[k]) \/ up'[k] = line
  BY <1>1, Appended, Zenon
<1>3. \A k \in 1..Len(up) : Proper(up[k], served')
  BY <1>1 DEF Proper
<1> QED BY <1>2, <1>3, Zenon DEF UpInv

\* What the server does leaves the session, its phases and its life alone.
LEMMA ServerStep ==
  ASSUME TypeOK, IInv, UNCHANGED session, PipeInv', DownInv', UpInv',
         server' \in BOOLEAN, server' => server,
         chatter' \in 0..Chatter, served \subseteq served', served' \subseteq 1..Current
  PROVE  TypeOK' /\ IInv'
<1>1. UNCHANGED <<phase, method, next_id, alive, left, outcome, silent>>
  BY Zenon DEF session
<1>2. TypeOK'
  BY <1>1, Zenon DEF TypeOK, Current
<1>3. PhaseInv' /\ LifeInv' /\ NoServerLeftBehind'
  BY <1>1, Zenon DEF IInv, PhaseInv, LifeInv, NoServerLeftBehind, Current
<1>4. ResultIsGenuine'
  BY <1>1, Zenon DEF IInv, ResultIsGenuine
<1> QED BY <1>2, <1>3, <1>4, Zenon DEF IInv

\* A piece that the server reads may make a request complete.
LEMMA TakeKeepsInv == TypeOK /\ IInv /\ Take => TypeOK' /\ IInv'
<1> SUFFICES ASSUME TypeOK, IInv, Take PROVE TypeOK' /\ IInv'
  OBVIOUS
<1> DEFINE c == Head(stdin)
<1>1. /\ stdin # << >> /\ stdin' = Tail(stdin) /\ UNCHANGED <<session, up, process>>
      /\ down' = IF c.rest = 0 /\ c.id # 0 THEN Append(down, c.id) ELSE down
  BY Zenon DEF Take
<1>2. Typed /\ Flags /\ PipeInv /\ DownInv /\ UpInv
  BY TypeParts, Zenon DEF IInv
<1>3. stdin \in Seq(Chunks) /\ \A k \in 1..Len(stdin) : stdin[k].id <= Current
  BY <1>2, Zenon DEF PipeInv
<1>4. /\ c \in Chunks /\ c = stdin[1] /\ 1 \in 1..Len(stdin) /\ Tail(stdin) \in Seq(Chunks)
      /\ \A k \in 1..Len(Tail(stdin)) : k + 1 \in 1..Len(stdin) /\ Tail(stdin)[k] = stdin[k + 1]
  BY <1>1, <1>3, Shortened, Zenon
<1> HIDE DEF c
<1>5. PipeInv'
  BY <1>1, <1>3, <1>4, Zenon DEF PipeInv, Current, session
<1>6. c.id \in 0..MaxId /\ c.id <= Current
  BY <1>3, <1>4 DEF Chunks
<1>7. DownInv'
  <2>1. CASE down' = down
    BY <1>1, <1>2, <2>1, Zenon DEF DownInv, Current, session
  <2>2. CASE c.id # 0 /\ down' = Append(down, c.id)
    <3>1. c.id \in Ids
      BY <1>6, <2>2, ConstantsAssumption DEF Ids, MaxId
    <3>2. down \in Seq(Ids) /\ \A k \in 1..Len(down) : down[k] <= Current
      BY <1>2, Zenon DEF DownInv
    <3>3. /\ Append(down, c.id) \in Seq(Ids)
          /\ \A k \in 1..Len(Append(down, c.id)) :
               \/ k \in 1..Len(down) /\ Append(down, c.id)[k] = down[k]
               \/ Append(down, c.id)[k] = c.id
      BY <3>1, <3>2, Appended, Zenon
    <3>4. \A k \in 1..Len(Append(down, c.id)) : Append(down, c.id)[k] <= Current
      BY <1>6, <3>2, <3>3, Zenon
    <3> QED BY <1>1, <2>2, <3>3, <3>4, Zenon DEF DownInv, Current, session
  <2> QED BY <1>1, <2>1, <2>2, Zenon
<1>8. UpInv'
  BY <1>1, <1>2, Zenon DEF UpInv, Proper, process
<1> QED BY <1>1, <1>2, <1>5, <1>7, <1>8, ServerStep, Zenon DEF Typed, Flags, process

LEMMA ServeKeepsInv ==
  ASSUME TypeOK, IInv, NEW b \in Bodies, Serve(b)
  PROVE  TypeOK' /\ IInv'
<1>1. /\ down # << >> /\ down' = Tail(down) /\ chatter' = chatter
      /\ up' = Append(up, Answer(Head(down), b)) /\ UNCHANGED <<session, server, stdin>>
      /\ served' = IF b = "result" THEN served \cup {Head(down)} ELSE served
  BY Zenon DEF Serve, Say
<1>2. Typed /\ Flags /\ DownInv /\ UpInv
  BY TypeParts, Zenon DEF IInv
<1>3. next_id \in Int /\ Current \in Int /\ Current' = Current /\ MaxId \in Int
  <2>1. MaxId \in Int
    BY ConstantsAssumption DEF MaxId
  <2>2. next_id \in 1..(MaxId + 1) /\ next_id' = next_id
    BY <1>1, <1>2, Zenon DEF Typed, session
  <2> QED BY <2>1, <2>2 DEF Current
<1>4. /\ Head(down) \in Ids /\ Head(down) <= Current
      /\ Tail(down) \in Seq(Ids)
      /\ \A k \in 1..Len(Tail(down)) : Tail(down)[k] <= Current
  <2>1. down \in Seq(Ids) /\ \A k \in 1..Len(down) : down[k] <= Current
    BY <1>2, Zenon DEF DownInv
  <2>2. /\ Head(down) \in Ids /\ Head(down) = down[1] /\ 1 \in 1..Len(down)
        /\ Tail(down) \in Seq(Ids)
        /\ \A k \in 1..Len(Tail(down)) : k + 1 \in 1..Len(down) /\ Tail(down)[k] = down[k + 1]
    BY <1>1, <2>1, Shortened, Zenon
  <2> QED BY <2>1, <2>2, Zenon
<1>5. DownInv' /\ PipeInv'
  <2>1. PipeInv
    BY Zenon DEF IInv
  <2> QED BY <1>1, <1>3, <1>4, <2>1, Zenon DEF DownInv, PipeInv
<1>6. /\ served \subseteq served' /\ served' \subseteq 1..Current
      /\ b = "result" => Head(down) \in served'
  <2>1. Head(down) \in 1..Current
    BY <1>3, <1>4 DEF Ids
  <2>2. served \subseteq 1..Current
    BY <1>2, Zenon DEF Typed
  <2> QED BY <1>1, <2>1, <2>2, Zenon
<1>7. UpInv'
  <2>1. Answer(Head(down), b) \in Lines
    <3>1. Head(down) \in 0..MaxId
      BY <1>3, <1>4 DEF Ids
    <3>2. b \in {"result", "error", "no result", "none"}
      BY DEF Bodies
    <3> QED BY <3>1, <3>2 DEF Lines, Answer
  <2>2. Proper(Answer(Head(down), b), served')
    BY <1>6 DEF Proper, Answer, Bodies
  <2> QED BY <1>1, <1>2, <1>6, <2>1, <2>2, SayKeepsUpInv, Zenon
<1>8. chatter' \in 0..Chatter
  BY <1>1, <1>2, Zenon DEF Typed
<1> QED BY <1>1, <1>2, <1>5, <1>6, <1>7, <1>8, ServerStep, Zenon DEF Flags

LEMMA ChatKeepsInv == TypeOK /\ IInv /\ Chat => TypeOK' /\ IInv'
<1> SUFFICES ASSUME TypeOK, IInv, Chat PROVE TypeOK' /\ IInv'
  OBVIOUS
<1>1. Typed /\ Flags /\ DownInv /\ UpInv
  BY TypeParts, Zenon DEF IInv
<1>2. /\ chatter < Chatter /\ chatter' = chatter + 1 /\ UNCHANGED <<stdin, down, served>>
  BY Zenon DEF Chat
<1>3. UNCHANGED <<session, server>>
  BY Zenon DEF Chat, Say
<1>4. /\ MaxId \in Int /\ served \subseteq 1..Current /\ next_id \in 1..(MaxId + 1)
      /\ chatter \in 0..Chatter
  <2>1. MaxId \in Int
    BY ConstantsAssumption DEF MaxId
  <2> QED BY <1>1, <2>1, Zenon DEF Typed
<1>5. /\ \A k \in served : k \in 0..MaxId
      /\ \A k \in Ids : k \in 0..MaxId
  BY <1>4 DEF Current, Ids
<1>6. \E line \in Lines : up' = Append(up, line) /\ Proper(line, served)
  <2>1. CASE Say(Noise)
    <3>1. Noise \in Lines /\ Proper(Noise, served)
      BY <1>4 DEF Lines, Noise, Proper
    <3> QED BY <2>1, <3>1, Zenon DEF Say
  <2>2. CASE \E id \in Ids : Say(Asks(id))
    <3>1. PICK id \in Ids : Say(Asks(id))
      BY <2>2, Zenon
    <3>2. Asks(id) \in Lines /\ Proper(Asks(id), served)
      BY <1>5 DEF Lines, Asks, Proper
    <3> QED BY <3>1, <3>2, Zenon DEF Say
  <2>3. CASE \E id \in served : Say(Answer(id, "result"))
    <3>1. PICK id \in served : Say(Answer(id, "result"))
      BY <2>3, Zenon
    <3>2. Answer(id, "result") \in Lines /\ Proper(Answer(id, "result"), served)
      BY <1>5 DEF Lines, Answer, Proper
    <3> QED BY <3>1, <3>2, Zenon DEF Say
  <2> QED BY <2>1, <2>2, <2>3, Zenon DEF Chat
<1>7. UpInv'
  <2>1. PICK line \in Lines : up' = Append(up, line) /\ Proper(line, served)
    BY <1>6, Zenon
  <2>2. Proper(line, served')
    BY <1>2, <2>1, Zenon DEF Proper
  <2> QED BY <1>1, <1>2, <2>1, <2>2, SayKeepsUpInv, Zenon
<1>8. DownInv' /\ PipeInv'
  BY <1>2, <1>3, Zenon DEF IInv, DownInv, PipeInv, session, Current
<1>9. chatter' \in 0..Chatter
  BY <1>2, <1>4, ConstantsAssumption
<1> QED BY <1>1, <1>2, <1>3, <1>4, <1>7, <1>8, <1>9, ServerStep, Zenon DEF Flags

LEMMA DieKeepsInv == TypeOK /\ IInv /\ Die => TypeOK' /\ IInv'
<1> SUFFICES ASSUME TypeOK, IInv, Die PROVE TypeOK' /\ IInv'
  OBVIOUS
<1>1. Typed /\ Flags /\ DownInv /\ UpInv
  BY TypeParts, Zenon DEF IInv
<1>2. server' = FALSE /\ UNCHANGED <<session, stdin, down, up, chatter, served>>
  BY Zenon DEF Die
<1>3. PipeInv' /\ DownInv' /\ UpInv'
  BY <1>2, Zenon DEF IInv, PipeInv, DownInv, UpInv, Proper, session, Current
<1> QED BY <1>1, <1>2, <1>3, ServerStep, Zenon DEF Typed

\* Every variable keeps its type, and the invariant above holds throughout.
THEOREM Invariance == Spec => [](TypeOK /\ IInv)
<1>1. TypeOK /\ IInv /\ UNCHANGED vars => (TypeOK /\ IInv)'
  <2> SUFFICES ASSUME TypeOK, IInv, UNCHANGED vars PROVE TypeOK' /\ IInv'
    OBVIOUS
  <2>1. UNCHANGED <<session, stdin, down, up, server, chatter, served>>
    BY Zenon DEF vars, process
  <2>2. Typed /\ Flags /\ PipeInv' /\ DownInv' /\ UpInv'
    BY <2>1, TypeParts, Zenon DEF IInv, PipeInv, DownInv, UpInv, session, Current
  <2> QED BY <2>1, <2>2, ServerStep, Zenon DEF Typed, Flags
<1>2. TypeOK /\ IInv /\ Next => (TypeOK /\ IInv)'
  BY SendsKeepInv, WriteKeepsInv, NotifyKeepsInv, ReadLineKeepsInv, NoAnswerKeepsInv,
     StopBridgeKeepsInv, TakeKeepsInv, ServeKeepsInv, ChatKeepsInv, DieKeepsInv, Zenon DEF Next, Client, Bodies
<1> QED BY InitInv, <1>1, <1>2, PTL DEF Spec

\* A result that a call returns has been served by the server for that call.
THEOREM OwnResults == Spec => []ResultIsGenuine
<1>1. IInv => ResultIsGenuine
  BY Zenon DEF IInv
<1> QED BY <1>1, Invariance, PTL

\* A session that is stopped has no server process left.
THEOREM ServerIsReaped == Spec => []NoServerLeftBehind
<1>1. IInv => NoServerLeftBehind
  BY Zenon DEF IInv
<1> QED BY <1>1, Invariance, PTL

\* After a request that got no answer no further one is written.
THEOREM SilenceIsFinal == Spec => NoCallAfterSilence
<1>1. TypeOK /\ IInv /\ [Next]_vars => [silent => next_id' = next_id]_vars
  <2> SUFFICES ASSUME TypeOK, IInv, Next, silent PROVE next_id' = next_id
    BY Zenon
  <2>1. LifeInv
    BY Zenon DEF IInv
  <2>2. phase \notin {"start", "write", "wait", "notify"} /\ ~alive
    <3>1. ~alive /\ phase \in {"idle", "stopped"}
      BY <2>1, Zenon DEF LifeInv
    <3>2. phase \notin {"start", "write", "wait", "notify"}
      BY <3>1
    <3> QED BY <3>1, <3>2, Zenon
  <2> QED BY <2>2, Zenon DEF Next, Client, SendInitialize, SendList, SendCall, Write, Notify,
                  ReadLine, NoAnswer, StopBridge, Take, Serve, Chat, Die, Say, session
<1> QED BY <1>1, Invariance, PTL DEF Spec, NoCallAfterSilence

-----------------------------------------------------------------------------
(***************************************************************************)
(* The command that a tool runs                                             *)
(***************************************************************************)
\* A chunk that was written is in the pipe or in the buffer; once the parent has
\* seen the end of the output the pipe stays empty.
OutputInv ==
  /\ written = len + pipe
  /\ pc = "reap" \/ code = "status" => pipe = 0
  /\ code = "status" => pc = "done"

\* The clock: a poll ends within the timeout, only the reaping loop adds to it, and
\* a waitpid that blocks, which comes of an interrupt before the group was made.
ClockInv ==
  /\ now <= Timeout + waited \/ (missed /\ code = "130")
  /\ pc = "waitpid" /\ ShAlive => missed /\ code = "130"
  /\ pc \in {"loop", "poll"} => waited = 0
  /\ pc = "poll" => wake \in 1..Timeout

\* A shell that has not made its group has had no time to do anything; so the
\* group that is killed for a timeout or for too much output is the whole command.
GroupInv ==
  /\ sh = "forked" => now = 0 /\ waited = 0 /\ written = 0 /\ job = "none"
  /\ pc = "kill" => marker # "none" /\ (sh = "forked" => marker = "interrupted")
  /\ code # "none" => pc \in {"waitpid", "done"}
  /\ code \in {"124", "-1"} => ~ShAlive /\ job # "running"

ExecInv == OutputInv /\ ClockInv /\ GroupInv

\* What Min of the community modules is on two numbers.
LEMMA MinOfTwo ==
  ASSUME NEW a \in Int, NEW b \in Int
  PROVE  Min({a, b}) = IF a <= b THEN a ELSE b
<1>1. CASE a <= b
  <2>1. a \in {a, b} /\ \A y \in {a, b} : a <= y
    BY <1>1
  <2>2. \A x \in {a, b} : (\A y \in {a, b} : x <= y) => x = a
    BY <1>1
  <2> QED BY <1>1, <2>1, <2>2 DEF Min
<1>2. CASE ~(a <= b)
  <2>1. b \in {a, b} /\ \A y \in {a, b} : b <= y
    BY <1>2
  <2>2. \A x \in {a, b} : (\A y \in {a, b} : x <= y) => x = b
    BY <1>2
  <2> QED BY <1>2, <2>1, <2>2 DEF Min
<1> QED BY <1>1, <1>2

LEMMA ExecInitInv ==
  ASSUME ExecInit
  PROVE  ExecTypeOK /\ ExecInv
<1>1. /\ intr \in BOOLEAN /\ shOut \in BOOLEAN /\ eintr \in BOOLEAN
      /\ missed \in BOOLEAN
  BY Zenon DEF ExecInit
<1>2. /\ now \in Nat /\ wake \in Nat /\ waited \in 0..Timeout /\ len \in 0..Cap
      /\ pipe \in 0..written /\ written \in 0..MaxOutput /\ sigints \in 0..Sigints
  BY ExecAssumption DEF ExecAssumption, ExecInit
<1>3. /\ pc \in {"loop", "poll", "kill", "waitpid", "reap", "done"}
      /\ marker \in {"none", "interrupted", "timed_out", "truncated"}
      /\ code \in {"none", "status", "124", "130", "-1"}
      /\ sh \in {"forked", "running", "exited", "killed"}
      /\ job \in {"none", "running", "ended", "killed"}
  BY DEF ExecInit
<1>4. ExecTypeOK
  BY <1>1, <1>2, <1>3, Zenon DEF ExecTypeOK
<1>5. ExecInv
  BY ExecAssumption DEF ExecAssumption, ExecInit, ExecInv, OutputInv, ClockInv, GroupInv
<1> QED BY <1>4, <1>5

\* Each step of the parent keeps the invariant.
LEMMA ParentKeepsInv ==
  ASSUME ExecTypeOK, ExecInv, Parent
  PROVE  ExecTypeOK' /\ ExecInv'
<1> USE ExecAssumption DEF ExecAssumption, ExecTypeOK, ExecInv, OutputInv, ClockInv, GroupInv, time, command, signal, ShAlive
<1>1. CASE LoopHead
  <2> DEFINE slice == Min({Timeout - now, Slice})
             Polls == /\ pc' = "poll" /\ wake' = now + slice /\ eintr' = FALSE
                      /\ UNCHANGED <<now, waited, len, marker, code, missed, command, intr, sigints>>
  <2>1. CASE GiveUp("interrupted")
    BY <1>1, <2>1 DEF LoopHead, GiveUp
  <2>2. CASE now >= Timeout /\ GiveUp("timed_out")
    BY <1>1, <2>2 DEF LoopHead, GiveUp
  <2>3. CASE ~(now >= Timeout) /\ Polls
    <3>1. slice = IF Timeout - now <= Slice THEN Timeout - now ELSE Slice
      BY MinOfTwo, Timeout - now \in Int, Slice \in Int
    <3>2. slice \in 1..(Timeout - now)
      BY <2>3, <3>1
    <3>3. pc = "loop"
      BY <1>1 DEF LoopHead
    <3>4. /\ eintr' \in BOOLEAN /\ intr' \in BOOLEAN /\ shOut' \in BOOLEAN
          /\ missed' \in BOOLEAN
      BY <2>3, Zenon
    <3> HIDE DEF slice
    <3> QED BY <2>3, <3>2, <3>3, <3>4
  <2> QED BY <1>1, <2>1, <2>2, <2>3, Zenon DEF LoopHead
<1>2. CASE PollReady
  <2>1. CASE len >= Cap
    BY <1>2, <2>1 DEF PollReady, GiveUp
  <2>2. CASE len < Cap
    <3> DEFINE n == Min({pipe, Cap - len})
    <3>1. n = IF pipe <= Cap - len THEN pipe ELSE Cap - len
      BY MinOfTwo, pipe \in Int, Cap - len \in Int
    <3>2. n \in 0..pipe /\ n <= Cap - len
      BY <2>2, <3>1
    <3> HIDE DEF n
    <3>3. /\ len' = len + n /\ pipe' = pipe - n
          /\ pc = "poll" /\ pc' = IF pipe > 0 THEN "loop" ELSE "reap"
          /\ UNCHANGED <<time, marker, code, missed, sh, job, shOut, written, signal>>
      BY <1>2, <2>2 DEF PollReady, n
    <3> QED BY <3>2, <3>3, <2>2
  <2> QED BY <2>1, <2>2
<1>3. CASE PollQuiet
  BY <1>3 DEF PollQuiet, GiveUp
<1>4. CASE PollEintr
  BY <1>4 DEF PollEintr, GiveUp
<1>5. CASE KillCommand
  BY <1>5 DEF KillCommand, KillGroup
<1>6. CASE Reaped
  BY <1>6 DEF Reaped
<1>7. CASE ReapExited
  BY <1>7 DEF ReapExited
<1>8. CASE ReapLate
  BY <1>8 DEF ReapLate, KillGroup
<1> QED
  BY <1>1, <1>2, <1>3, <1>4, <1>5, <1>6, <1>7, <1>8 DEF Parent

\* So does each step of the command, of the clock and of the user.
LEMMA OthersKeepInv ==
  ASSUME ExecTypeOK, ExecInv,
         \/ MakeGroup \/ WriteOutput \/ ShStep
         \/ JobEnds \/ Tick \/ Sigint
  PROVE  ExecTypeOK' /\ ExecInv'
<1> USE ExecAssumption DEF ExecAssumption, ExecTypeOK, ExecInv, OutputInv, ClockInv, GroupInv, time, command, signal, ShAlive
<1>1. CASE MakeGroup
  BY <1>1 DEF MakeGroup
<1>2. CASE WriteOutput
  BY <1>2 DEF WriteOutput
<1>3. CASE ShStep
  <2>1. CASE sh' = "exited" /\ UNCHANGED <<job, shOut>>
    BY <1>3, <2>1 DEF ShStep
  <2>2. CASE job = "none" /\ job' = "running" /\ UNCHANGED <<sh, shOut>>
    BY <1>3, <2>2 DEF ShStep
  <2>3. CASE shOut' = FALSE /\ UNCHANGED <<sh, job>>
    <3>1. shOut' \in BOOLEAN
      BY <2>3, Zenon
    <3>2. /\ UNCHANGED <<pc, time, len, marker, code, missed, pipe, written, signal>>
          /\ UNCHANGED <<sh, job>>
      BY <1>3, <2>3, Zenon DEF ShStep
    <3> QED BY <3>1, <3>2
  <2> QED BY <1>3, <2>1, <2>2, <2>3, Zenon DEF ShStep
<1>4. CASE JobEnds
  BY <1>4 DEF JobEnds
<1>5. CASE Tick
  BY <1>5 DEF Tick
<1>6. CASE Sigint
  <2>1. intr' \in BOOLEAN /\ eintr' \in BOOLEAN
    BY <1>6, Zenon DEF Sigint
  <2>2. /\ sigints' \in 0..Sigints
        /\ pc' \in {"loop", "poll", "kill", "waitpid", "reap", "done"}
        /\ UNCHANGED <<time, len, marker, code, missed, command>>
    BY <1>6 DEF Sigint
  <2>3. ExecTypeOK'
    BY <2>1, <2>2, Zenon
  <2>4. ExecInv'
    BY <1>6, <2>2 DEF Sigint
  <2> QED BY <2>3, <2>4
<1> QED BY <1>1, <1>2, <1>3, <1>4, <1>5, <1>6

\* Every variable keeps its type, and the invariant above holds throughout.
THEOREM ExecInvariance == ExecSpec => [](ExecTypeOK /\ ExecInv)
<1>1. ExecTypeOK /\ ExecInv /\ UNCHANGED exec_vars => (ExecTypeOK /\ ExecInv)'
  BY DEF exec_vars, time, command, signal, ExecTypeOK, ExecInv, OutputInv, ClockInv, GroupInv, ShAlive
<1>2. ExecTypeOK /\ ExecInv /\ [ExecNext]_exec_vars => (ExecTypeOK /\ ExecInv)'
  <2> SUFFICES ASSUME ExecTypeOK, ExecInv, [ExecNext]_exec_vars
               PROVE  ExecTypeOK' /\ ExecInv'
    OBVIOUS
  <2>1. CASE Parent
    BY <2>1, ParentKeepsInv
  <2>2. CASE \/ MakeGroup \/ WriteOutput \/ ShStep
             \/ JobEnds \/ Tick \/ Sigint
    BY <2>2, OthersKeepInv
  <2> QED BY <1>1, <2>1, <2>2 DEF ExecNext
<1> QED BY ExecInitInv, <1>2, PTL DEF ExecSpec

\* A call that ends with the command's own status has captured all it wrote.
THEOREM OutputIsKept == ExecSpec => []AllOutputKept
<1>1. ExecTypeOK /\ ExecInv => AllOutputKept
  BY DEF ExecTypeOK, ExecInv, OutputInv, AllOutputKept
<1> QED BY <1>1, ExecInvariance, PTL

\* A command that timed out or wrote too much leaves no process behind.
THEOREM NothingRunsOn == ExecSpec => []NothingLeftRunning
<1>1. ExecTypeOK /\ ExecInv => NothingLeftRunning
  BY DEF ExecInv, GroupInv, NothingLeftRunning
<1> QED BY <1>1, ExecInvariance, PTL

\* The call takes at most the timeout to read and the timeout to reap.
THEOREM BoundedTime == ExecSpec => []TwiceTimeoutAtMost
<1>1. ExecTypeOK /\ ExecInv => TwiceTimeoutAtMost
  BY ExecAssumption DEF ExecAssumption, ExecTypeOK, ExecInv, ClockInv, TwiceTimeoutAtMost
<1> QED BY <1>1, ExecInvariance, PTL
=============================================================================
