--------------------------- MODULE Subagent_proofs ---------------------------
(***************************************************************************)
(* Proofs about Subagent for any number of follow-ups and any pipe: type    *)
(* correctness, that answers are heard in order, that a stop is graceful,   *)
(* that no child is left behind and that an answer is lost only to the      *)
(* first deadline.                                                          *)
(***************************************************************************)
EXTENDS Subagent, SequenceTheorems, TLAPS

DownMsgs == {Task, Stop} \cup {Followup(k) : k \in 1..Followups}
UpMsgs == [type : {"result", "update", "garbled"}, turn : 0..Followups,
           text : BOOLEAN, error : BOOLEAN]
\* Only an update answers a follow-up, and "garbled" is one message.
UpMsg(m) == (m.type # "update" <=> m.turn = 0) /\ (m.type = "garbled" <=> m = Garbled)

\* What is under way, and what was heard, keep their types.
PipesInv ==
  /\ down \in Seq(DownMsgs)
  /\ up \in Seq(UpMsgs) /\ \A j \in DOMAIN up : UpMsg(up[j])
  /\ heard \in Seq(0..Followups)

\* Along the way of an instruction (heard <- up <- child <- down) its numbers rise.
OrderInv ==
  /\ turn <= sent
  /\ \A i \in DOMAIN heard :
       /\ heard[i] <= turn
       /\ \A j \in DOMAIN heard : j < i => heard[j] < heard[i]
       /\ \A j \in DOMAIN up : heard[i] < up[j].turn
  /\ \A j \in DOMAIN up :
       /\ up[j].turn <= turn
       /\ \A i \in DOMAIN up : i < j => up[i].turn < up[j].turn
  /\ child = "turn" =>
       /\ \A i \in DOMAIN heard : heard[i] < turn
       /\ \A j \in DOMAIN up : up[j].turn < turn
  /\ child = "start" => turn = 0 /\ up = << >> /\ heard = << >>

DownInv ==
  /\ \A j \in DOMAIN down : down[j].type = "followup" =>
       /\ down[j].turn > turn /\ down[j].turn <= sent
       /\ \A i \in DOMAIN down : i < j =>
            /\ down[i].type = "followup" => down[i].turn < down[j].turn
            /\ down[i].type = "stop" => down[j].turn > queued
  /\ phase = "send" =>
       /\ down = << >> /\ sent = 0 /\ child \notin {"turn", "listen", "killed"}
       /\ ~h.stopped
  /\ child = "start" /\ phase # "send" => down # << >> /\ down[1].type = "task"
  /\ \A j \in DOMAIN down : down[j].type = "task" =>
       j = 1 /\ child \notin {"turn", "listen"}
  /\ ~h.stopped => \A j \in DOMAIN down : down[j].type # "stop"

\* While the child serves, every follow-up is on its way or answered; a child that
\* left of its own accord has answered those before the stop.
Answered(k) ==
  \/ \E i \in DOMAIN heard : heard[i] = k
  \/ \E j \in DOMAIN up : up[j].turn = k
OnItsWay(k) ==
  \/ child = "turn" /\ turn = k
  \/ \E j \in DOMAIN down : down[j].type = "followup" /\ down[j].turn = k

GraceInv ==
  ~intr =>
    /\ child \in {"start", "turn", "listen"} =>
         \A k \in 1..sent : Answered(k) \/ OnItsWay(k)
    /\ child \in {"leaving", "exited"} /\ code = 0 =>
         /\ h.stopped \/ phase \in Over
         /\ \A k \in 1..queued : Answered(k)

\* The task has been answered, or never will be.
Settled == child # "start" /\ ~(child = "turn" /\ turn = 0)

ResultInv ==
  /\ said => h.output \/ \E j \in DOMAIN up : up[j].type = "result" /\ up[j].text
  /\ h.got => Settled /\ \A j \in DOMAIN up : up[j].type # "result"
  /\ child = "start" => ~said
  /\ \A j \in DOMAIN up : up[j].type = "garbled" =>
       ~said /\ child \in {"leaving", "exited", "killed"}
  /\ mode = "run" /\ ~late /\ phase \notin {"send", "use", "dead"} =>
       Settled /\ (said => h.output)

IInv ==
  /\ PipesInv /\ OrderInv /\ DownInv /\ GraceInv /\ ResultInv /\ NoChildLeftBehind

\* The part of TypeOK that is not about truth values.
Handles ==
  [got : BOOLEAN, stopped : BOOLEAN, output : BOOLEAN, error : BOOLEAN,
   timed_out : BOOLEAN, reaped : BOOLEAN, exit_code : {-1, 0, 1}]
Phases == {"send", "use", "stop", "wait", "drain", "check", "reap"} \cup Over
Typed ==
  /\ mode \in {"run", "handle"} /\ phase \in Phases /\ h \in Handles
  /\ sent \in 0..Followups /\ queued \in 0..sent
  /\ Len(down) <= PipeCap /\ Len(up) <= PipeCap
  /\ \A j, k \in DOMAIN down : down[j] = Stop /\ down[k] = Stop => j = k
  /\ child \in {"start", "turn", "listen", "leaving", "exited", "killed"}
  /\ turn \in 0..Followups /\ code \in {0, 1}
  /\ phase \in {"wait", "drain", "check", "reap"} => h.stopped
Flags == late \in BOOLEAN /\ intr \in BOOLEAN /\ said \in BOOLEAN

LEMMA TypeParts == TypeOK <=> Typed /\ Flags
BY Zenon DEF TypeOK, Typed, Flags, Handles, Phases
-----------------------------------------------------------------------------
\* The three kinds of messages to the child.
LEMMA DownKinds ==
  /\ Task \in DownMsgs /\ Stop \in DownMsgs
  /\ \A k \in 1..Followups : Followup(k) \in DownMsgs
  /\ Task.type = "task" /\ Stop.type = "stop"
  /\ \A k : Followup(k).type = "followup" /\ Followup(k).turn = k
<1>1. \A k \in 1..Followups : Followup(k) \in DownMsgs
  BY Zenon DEF DownMsgs
<1> QED BY <1>1 DEF DownMsgs, Task, Stop, Followup

LEMMA DownMsgParts ==
  ASSUME NEW m \in DownMsgs
  PROVE  /\ m.type \in {"task", "followup", "stop"}
         /\ m = Stop <=> m.type = "stop"
         /\ m.type = "followup" => m.turn \in 1..Followups
<1>1. CASE m \in {Task, Stop}
  BY <1>1 DEF Task, Stop
<1>2. CASE \E k \in 1..Followups : m = Followup(k)
  BY <1>2 DEF Followup, Stop
<1> QED BY <1>1, <1>2, Zenon DEF DownMsgs

\* Messages to the parent.
LEMMA UpKinds ==
  /\ \A t, e \in BOOLEAN : Result(t, e) \in UpMsgs /\ UpMsg(Result(t, e))
  /\ \A t, e : Result(t, e).turn = 0 /\ Result(t, e).type = "result" /\ Result(t, e).text = t
  /\ \A k \in 1..Followups, t \in BOOLEAN : Update(k, t) \in UpMsgs /\ UpMsg(Update(k, t))
  /\ \A k, t : Update(k, t).turn = k /\ Update(k, t).type = "update"
  /\ Garbled \in UpMsgs /\ UpMsg(Garbled) /\ Garbled.turn = 0 /\ Garbled.type = "garbled"
<1> USE DEF UpMsgs, UpMsg, Result, Update, Garbled
<1>1. \A t, e \in BOOLEAN : Result(t, e) \in UpMsgs
  BY ConstantsAssumption
<1>2. \A t, e \in BOOLEAN : UpMsg(Result(t, e))
  OBVIOUS
<1>3. \A t, e : Result(t, e).turn = 0 /\ Result(t, e).type = "result" /\ Result(t, e).text = t
  OBVIOUS
<1>4. \A k \in 1..Followups, t \in BOOLEAN : Update(k, t) \in UpMsgs
  BY ConstantsAssumption
<1>5. \A k \in 1..Followups, t \in BOOLEAN : UpMsg(Update(k, t))
  BY ConstantsAssumption
<1>6. \A k, t : Update(k, t).turn = k /\ Update(k, t).type = "update"
  OBVIOUS
<1>7. Garbled \in UpMsgs /\ UpMsg(Garbled) /\ Garbled.turn = 0 /\ Garbled.type = "garbled"
  BY ConstantsAssumption
<1> QED BY <1>1, <1>2, <1>3, <1>4, <1>5, <1>6, <1>7, Zenon

\* A pipe that is written, and one that is read.
LEMMA AppendPipe ==
  ASSUME NEW S, NEW s \in Seq(S), NEW m \in S, NEW r, r = Append(s, m)
  PROVE  /\ r \in Seq(S) /\ Len(s) \in Nat /\ Len(r) = Len(s) + 1
         /\ DOMAIN s = 1..Len(s) /\ DOMAIN r = 1..(Len(s) + 1)
         /\ \A k \in 1..Len(s) : r[k] = s[k]
         /\ r[Len(s) + 1] = m
         /\ \A k \in DOMAIN r : k \in DOMAIN s \/ k = Len(s) + 1
<1>1. /\ r \in Seq(S) /\ Len(s) \in Nat /\ Len(r) = Len(s) + 1
      /\ DOMAIN s = 1..Len(s) /\ DOMAIN r = 1..Len(r)
      /\ \A k \in 1..Len(s) : r[k] = s[k]
      /\ r[Len(s) + 1] = m
  BY AppendProperties, LenProperties
<1> QED BY <1>1

LEMMA TailPipe ==
  ASSUME NEW S, NEW s \in Seq(S), s # << >>, NEW r, r = Tail(s)
  PROVE  /\ r \in Seq(S) /\ Len(s) \in Nat /\ Len(s) >= 1 /\ Len(r) = Len(s) - 1
         /\ DOMAIN s = 1..Len(s) /\ DOMAIN r = 1..(Len(s) - 1) /\ 1 \in DOMAIN s
         /\ Head(s) = s[1] /\ Head(s) \in S
         /\ \A k \in DOMAIN r : r[k] = s[k + 1] /\ k + 1 \in DOMAIN s /\ k \in Int
         /\ \A k \in DOMAIN s : k = 1 \/ (k - 1 \in DOMAIN r /\ r[k - 1] = s[k])
<1>1. /\ r \in Seq(S) /\ Len(s) \in Nat /\ Len(r) = Len(s) - 1 /\ Len(s) >= 1
      /\ DOMAIN s = 1..Len(s) /\ DOMAIN r = 1..Len(r)
      /\ Head(s) = s[1] /\ Head(s) \in S
      /\ \A k \in 1..Len(r) : r[k] = s[k + 1]
  BY HeadTailProperties, LenProperties
<1>2. \A k \in DOMAIN s : k = 1 \/ k - 1 \in 1..Len(r)
  BY <1>1
<1>3. \A k \in DOMAIN s : k - 1 \in 1..Len(r) => r[k - 1] = s[k]
  <2> SUFFICES ASSUME NEW k \in DOMAIN s, k - 1 \in 1..Len(r) PROVE r[k - 1] = s[k]
    OBVIOUS
  <2>1. k - 1 + 1 = k
    BY <1>1
  <2> QED BY <1>1, <2>1
<1> QED BY <1>1, <1>2, <1>3
-----------------------------------------------------------------------------
LEMMA InitInv == Init => TypeOK /\ IInv
<1> SUFFICES ASSUME Init PROVE TypeOK /\ IInv
  OBVIOUS
<1>1. Flags
  BY Zenon DEF Init, Flags
<1>2. /\ mode \in {"run", "handle"} /\ phase = "send" /\ sent = 0 /\ queued = 0
      /\ down = << >> /\ up = << >> /\ heard = << >> /\ child = "start" /\ turn = 0 /\ code = 0
  BY DEF Init
<1>3. h \in Handles /\ ~h.stopped /\ ~h.got
  BY DEF Init, Handles
<1>4. Typed
  BY <1>2, <1>3, ConstantsAssumption DEF Typed, Phases
<1>5. ~said
  BY Zenon DEF Init
<1>6. PipesInv
  BY <1>2, EmptySeq DEF PipesInv
<1>7. OrderInv /\ DownInv /\ GraceInv
  BY <1>2, <1>3 DEF OrderInv, DownInv, GraceInv
<1>8. ResultInv
  BY <1>2, <1>3, <1>5 DEF ResultInv
<1>9. NoChildLeftBehind
  BY <1>2 DEF NoChildLeftBehind
<1> QED BY <1>1, <1>4, <1>6, <1>7, <1>8, <1>9, TypeParts, Zenon DEF IInv

\* A step of the parent that touches no pipe, and a child that ends.
LEMMA CalmStep ==
  ASSUME TypeOK, IInv,
         UNCHANGED <<mode, sent, queued, heard, down, up, turn, code, said, intr>>,
         h' \in Handles,
         h'.stopped = h.stopped, h'.got = h.got, h'.output = h.output,
         late' \in BOOLEAN, phase' \in Phases,
         phase' \in {"wait", "drain", "check", "reap"} => h.stopped,
         phase' = "send" <=> phase = "send",
         phase \in Over => phase' \in Over,
         \/ child' = child
         \/ child = "leaving" /\ child' = "exited"
         \/ phase # "send" /\ child # "exited" /\ child' = "killed",
         mode = "run" /\ ~late' /\ phase' \notin {"send", "use", "dead"}
           => Settled /\ (said => h.output),
         NoChildLeftBehind'
  PROVE  TypeOK' /\ IInv'
<1>1. /\ Typed /\ Flags /\ PipesInv /\ OrderInv /\ DownInv /\ GraceInv /\ ResultInv
  BY TypeParts, Zenon DEF IInv
<1>2. UNCHANGED <<mode, sent, queued, heard, down, up, turn, code>>
  BY Zenon
<1>3. said' = said /\ (said' <=> said) /\ intr' = intr /\ (intr' <=> intr)
  BY Zenon
<1>4. Typed'
  BY <1>1, <1>2 DEF Typed
<1>5. Flags'
  BY <1>1, <1>3, Zenon DEF Flags
<1>6. PipesInv'
  BY <1>1, <1>2, Zenon DEF PipesInv
<1>7. /\ child' = "turn" => child = "turn"
      /\ child' = "start" => child = "start"
      /\ child' = "listen" => child = "listen"
      /\ child' = "exited" => child \in {"leaving", "exited"}
      /\ child' = "leaving" => child = "leaving"
      /\ child \in {"leaving", "exited", "killed"} => child' \in {"leaving", "exited", "killed"}
  OBVIOUS
<1>8. OrderInv'
  BY <1>1, <1>2, <1>7, Zenon DEF OrderInv
<1>9. DownInv'
  BY <1>1, <1>2, <1>7 DEF DownInv
<1>10. GraceInv'
  <2> SUFFICES ASSUME ~intr PROVE GraceInv'
    BY <1>3, Zenon DEF GraceInv
  <2>1. ASSUME child' \in {"start", "turn", "listen"}, NEW k \in 1..sent
        PROVE  Answered(k)' \/ OnItsWay(k)'
    <3>1. child' = child /\ child \in {"start", "turn", "listen"}
      BY <2>1
    <3>2. Answered(k) \/ OnItsWay(k)
      BY <1>1, <3>1, Zenon DEF GraceInv
    <3> QED BY <1>2, <3>1, <3>2, Zenon DEF Answered, OnItsWay
  <2>2. ASSUME child' \in {"leaving", "exited"}, code = 0
        PROVE  /\ h'.stopped \/ phase' \in Over
               /\ \A k \in 1..queued : Answered(k)'
    <3>1. child \in {"leaving", "exited"}
      BY <2>2
    <3>2. /\ h.stopped \/ phase \in Over
          /\ \A k \in 1..queued : Answered(k)
      BY <1>1, <2>2, <3>1, Zenon DEF GraceInv
    <3> QED BY <1>2, <3>2, Zenon DEF Answered
  <2> QED BY <1>2, <2>1, <2>2, Zenon DEF GraceInv
<1>11. Settled => Settled'
  BY <1>2, <1>7, Zenon DEF Settled
<1>12. ResultInv'
  <2>1. said => h'.output \/ \E j \in DOMAIN up : up[j].type = "result" /\ up[j].text
    BY <1>1 DEF ResultInv
  <2>2. h'.got => Settled' /\ \A j \in DOMAIN up : up[j].type # "result"
    BY <1>1, <1>11 DEF ResultInv
  <2>3. /\ child' = "start" => ~said
        /\ \A j \in DOMAIN up : up[j].type = "garbled" =>
             ~said /\ child' \in {"leaving", "exited", "killed"}
    BY <1>1, <1>7, Zenon DEF ResultInv
  <2>4. mode = "run" /\ ~late' /\ phase' \notin {"send", "use", "dead"} =>
          Settled' /\ (said => h'.output)
    BY <1>11
  <2> QED BY <1>2, <1>3, <2>1, <2>2, <2>3, <2>4, Zenon DEF ResultInv
<1> QED BY <1>4, <1>5, <1>6, <1>8, <1>9, <1>10, <1>12, Zenon DEF IInv, TypeOK, Typed, Flags, Handles, Phases

\* What the fields of the handle become.
LEMMA HandleSteps ==
  ASSUME NEW x \in Handles
  PROVE  /\ LET y == [x EXCEPT !.stopped = TRUE]
            IN  y \in Handles /\ y.stopped /\ y.got = x.got /\ y.output = x.output
                  /\ y.exit_code = x.exit_code
         /\ LET y == [x EXCEPT !.timed_out = TRUE]
            IN  y \in Handles /\ y.stopped = x.stopped /\ y.got = x.got
                  /\ y.output = x.output /\ y.exit_code = x.exit_code
         /\ LET y == [x EXCEPT !.reaped = TRUE]
            IN  y \in Handles /\ y.stopped = x.stopped /\ y.got = x.got
                  /\ y.output = x.output /\ y.exit_code = x.exit_code
         /\ \A c \in {-1, 0, 1} :
              LET y == [x EXCEPT !.reaped = TRUE, !.exit_code = c]
              IN  y \in Handles /\ y.stopped = x.stopped /\ y.got = x.got
                    /\ y.output = x.output /\ y.exit_code = c
<1> USE DEF Handles
<1>1. LET y == [x EXCEPT !.stopped = TRUE]
      IN  y \in Handles /\ y.stopped /\ y.got = x.got /\ y.output = x.output
            /\ y.exit_code = x.exit_code
  OBVIOUS
<1>2. LET y == [x EXCEPT !.timed_out = TRUE]
      IN  y \in Handles /\ y.stopped = x.stopped /\ y.got = x.got
            /\ y.output = x.output /\ y.exit_code = x.exit_code
  OBVIOUS
<1>3. LET y == [x EXCEPT !.reaped = TRUE]
      IN  y \in Handles /\ y.stopped = x.stopped /\ y.got = x.got
            /\ y.output = x.output /\ y.exit_code = x.exit_code
  OBVIOUS
<1>4. ASSUME NEW c \in {-1, 0, 1}
      PROVE  LET y == [x EXCEPT !.reaped = TRUE, !.exit_code = c]
             IN  y \in Handles /\ y.stopped = x.stopped /\ y.got = x.got
                   /\ y.output = x.output /\ y.exit_code = c
  OBVIOUS
<1> QED BY <1>1, <1>2, <1>3, <1>4

\* A step of the parent that only moves on to another phase.
LEMMA MoveOnKeepsInv ==
  ASSUME TypeOK, IInv, NEW p \in Phases, MoveOn(p), phase # "send", phase \notin Over,
         p \notin {"send", "returned", "aborted"},
         p \in {"wait", "drain", "check", "reap"} => h.stopped,
         mode = "run" /\ ~late /\ p \notin {"use", "dead"} => Settled /\ (said => h.output)
  PROVE  TypeOK' /\ IInv'
<1>1. /\ phase' = p
      /\ UNCHANGED <<mode, sent, queued, heard, down, up, turn, code, said, intr>>
      /\ UNCHANGED <<h, child, late>>
  BY Zenon DEF MoveOn, kid
<1>2. h' \in Handles /\ h'.stopped = h.stopped /\ h'.got = h.got /\ h'.output = h.output
  BY <1>1, TypeParts, Zenon DEF Typed
<1>3. late' \in BOOLEAN /\ (late' <=> late)
  BY <1>1, TypeParts, Zenon DEF Flags
<1>4. /\ phase' \in Phases /\ (phase' = "send" <=> phase = "send")
      /\ phase' \notin {"returned", "aborted"}
      /\ phase' \in {"wait", "drain", "check", "reap"} => h.stopped
  BY <1>1
<1>5. NoChildLeftBehind'
  BY <1>4, Zenon DEF NoChildLeftBehind
<1>6. mode = "run" /\ ~late' /\ phase' \notin {"send", "use", "dead"}
        => Settled /\ (said => h.output)
  <2>1. phase' \notin {"send", "use", "dead"} => p \notin {"use", "dead"}
    BY <1>1
  <2> QED BY <1>3, <2>1, Zenon
<1> QED BY <1>1, <1>2, <1>3, <1>4, <1>5, <1>6, CalmStep, Zenon

\* When the first wait is over in time, the task is settled and what the child said
\* has reached the handle.
LEMMA FirstWaitSettles ==
  ASSUME TypeOK, IInv, h.got \/ PollFails
  PROVE  Settled /\ (said => h.output)
<1>1. PipesInv /\ OrderInv /\ ResultInv
  BY Zenon DEF IInv
<1>2. CASE h.got
  BY <1>1, <1>2, Zenon DEF ResultInv
<1>3. CASE up = << >> /\ Gone
  <2>1. Settled
    BY <1>3 DEF Settled, Gone
  <2>2. ~\E j \in DOMAIN up : TRUE
    BY <1>3
  <2> QED BY <1>1, <2>1, <2>2, Zenon DEF ResultInv
<1>4. CASE up # << >> /\ Head(up) = Garbled
  <2>1. 1 \in DOMAIN up /\ Head(up) = up[1]
    BY <1>1, <1>4, TailPipe DEF PipesInv
  <2>2. up[1].type = "garbled"
    BY <1>4, <2>1, UpKinds, Zenon
  <2>3. ~said /\ child \in {"leaving", "exited", "killed"}
    BY <1>1, <2>1, <2>2, Zenon DEF ResultInv
  <2>4. Settled
    BY <2>3 DEF Settled
  <2> QED BY <2>3, <2>4, Zenon
<1> QED BY <1>2, <1>3, <1>4, Zenon DEF PollFails

\* waitpid has found the child gone.
LEMMA CollectKeepsInv ==
  ASSUME TypeOK, IInv, phase \in {"check", "reap"}, Gone, Collect
  PROVE  TypeOK' /\ IInv'
<1>1. Typed /\ Flags /\ ResultInv
  BY TypeParts, Zenon DEF IInv
<1>2. /\ phase' = "returned" /\ h' = [h EXCEPT !.reaped = TRUE, !.exit_code = ExitCode]
      /\ UNCHANGED <<mode, sent, queued, heard, down, up, turn, code, said, intr>>
      /\ UNCHANGED <<child, late>>
  BY Zenon DEF Collect, kid
<1>3. ExitCode \in {-1, 0, 1} /\ h \in Handles
  BY <1>1 DEF ExitCode, Typed
<1>4. /\ h' \in Handles /\ h'.stopped = h.stopped /\ h'.got = h.got /\ h'.output = h.output
      /\ h'.exit_code = ExitCode
  BY <1>2, <1>3, HandleSteps, Zenon
<1>5. /\ phase' \in Phases /\ phase' # "send" /\ phase # "send"
      /\ phase' \notin {"wait", "drain", "check", "reap"} /\ phase' \in Over
      /\ phase \notin {"send", "use", "dead"}
  BY <1>2 DEF Phases, Over
<1>6. NoChildLeftBehind'
  BY <1>2, <1>4, Zenon DEF NoChildLeftBehind, Gone, ExitCode
<1>7. late' \in BOOLEAN /\ (late' <=> late)
  BY <1>1, <1>2, Zenon DEF Flags
<1>8. mode = "run" /\ ~late' => Settled /\ (said => h.output)
  BY <1>1, <1>5, <1>7, Zenon DEF ResultInv
<1> QED BY <1>2, <1>4, <1>5, <1>6, <1>7, <1>8, CalmStep, Zenon

\* The steps of the parent in which no message moves.
LEMMA QuietKeepsInv ==
  TypeOK /\ IInv
    /\ (CallWait \/ FirstResult \/ FirstDeadline \/ WaitDeadline \/ CheckChild \/ Reap
          \/ KillLate \/ Abort \/ Exit)
    => TypeOK' /\ IInv'
<1> SUFFICES ASSUME TypeOK, IInv,
                    CallWait \/ FirstResult \/ FirstDeadline \/ WaitDeadline \/ CheckChild
                      \/ Reap \/ KillLate \/ Abort \/ Exit
             PROVE  TypeOK' /\ IInv'
  OBVIOUS
<1>1. Typed /\ Flags /\ ResultInv /\ NoChildLeftBehind
  BY TypeParts, Zenon DEF IInv
<1>2. /\ {"use", "stop", "wait", "drain", "check", "reap", "returned", "aborted"} \subseteq Phases
      /\ "handle" # "run"
  BY DEF Phases, Over
<1>3. CASE CallWait
  <2>1. phase = "use" /\ mode = "handle" /\ MoveOn("stop")
    BY <1>3, Zenon DEF CallWait
  <2>2. /\ "stop" \in Phases /\ phase # "send" /\ phase \notin Over /\ mode # "run"
        /\ "stop" \notin {"send", "returned", "aborted"}
        /\ "stop" \notin {"wait", "drain", "check", "reap"}
    BY <2>1 DEF Phases, Over
  <2> QED BY <2>1, <2>2, MoveOnKeepsInv, Zenon
<1>4. CASE FirstResult
  <2>1. phase = "use" /\ MoveOn("stop") /\ (h.got \/ PollFails)
    BY <1>4, Zenon DEF FirstResult
  <2>2. /\ "stop" \in Phases /\ phase # "send" /\ phase \notin Over
        /\ "stop" \notin {"send", "returned", "aborted"}
        /\ "stop" \notin {"wait", "drain", "check", "reap"}
    BY <2>1 DEF Phases, Over
  <2> QED BY <2>1, <2>2, FirstWaitSettles, MoveOnKeepsInv, Zenon
<1>5. CASE FirstDeadline
  <2>1. /\ phase = "use" /\ phase' = "stop" /\ late' = TRUE
        /\ UNCHANGED <<mode, sent, queued, heard, down, up, turn, code, said, intr>>
        /\ UNCHANGED <<h, child>>
    BY <1>5, Zenon DEF FirstDeadline, kid
  <2>2. /\ phase' \in Phases /\ phase' # "send" /\ phase # "send"
        /\ phase' \notin {"wait", "drain", "check", "reap"} /\ phase \notin Over
        /\ phase' \notin {"returned", "aborted"}
    BY <2>1 DEF Phases, Over
  <2>3. /\ h' \in Handles /\ h'.stopped = h.stopped /\ h'.got = h.got /\ h'.output = h.output
        /\ late' \in BOOLEAN /\ NoChildLeftBehind'
    BY <1>1, <2>1, <2>2, Zenon DEF Typed, NoChildLeftBehind
  <2> QED BY <2>1, <2>2, <2>3, CalmStep, Zenon
<1>6. CASE WaitDeadline
  <2>1. /\ phase = "wait" /\ phase' = "reap" /\ h' = [h EXCEPT !.timed_out = TRUE]
        /\ UNCHANGED <<mode, sent, queued, heard, down, up, turn, code, said, intr>>
        /\ UNCHANGED <<child, late>>
    BY <1>6, Zenon DEF WaitDeadline, kid
  <2>2. /\ phase' \in Phases /\ phase' # "send" /\ phase # "send" /\ h.stopped
        /\ phase \notin Over /\ phase' \notin {"returned", "aborted"}
        /\ phase \notin {"send", "use", "dead"}
    BY <1>1, <2>1 DEF Phases, Over, Typed
  <2>3. /\ h' \in Handles /\ h'.stopped = h.stopped /\ h'.got = h.got /\ h'.output = h.output
    BY <1>1, <2>1, HandleSteps, Zenon DEF Typed
  <2>4. late' \in BOOLEAN /\ (late' <=> late) /\ NoChildLeftBehind'
    BY <1>1, <2>1, <2>2, Zenon DEF Flags, NoChildLeftBehind
  <2>5. mode = "run" /\ ~late' => Settled /\ (said => h.output)
    BY <1>1, <2>2, <2>4, Zenon DEF ResultInv
  <2> QED BY <2>1, <2>2, <2>3, <2>4, <2>5, CalmStep, Zenon
<1>7. CASE CheckChild
  <2>1. phase = "check" /\ phase \in {"check", "reap"} /\ "wait" \in Phases /\ h.stopped
        /\ phase \notin {"send", "use", "dead"} /\ phase # "send" /\ phase \notin Over
        /\ "wait" \notin {"send", "returned", "aborted"}
    BY <1>1, <1>7 DEF CheckChild, Phases, Typed, Over
  <2>2. mode = "run" /\ ~late => Settled /\ (said => h.output)
    BY <1>1, <2>1, Zenon DEF ResultInv
  <2> QED BY <1>7, <2>1, <2>2, CollectKeepsInv, MoveOnKeepsInv, Zenon DEF CheckChild
<1>8. CASE Reap
  <2>1. phase \in {"check", "reap"}
    BY <1>8 DEF Reap
  <2> QED BY <1>8, <2>1, CollectKeepsInv, Zenon DEF Reap
<1>9. CASE KillLate
  <2>1. /\ phase = "reap" /\ child # "exited" /\ child' = "killed"
        /\ UNCHANGED <<mode, sent, queued, heard, down, up, turn, code, said, intr>>
        /\ UNCHANGED <<h, late, phase>>
    BY <1>9, Zenon DEF KillLate, Kill, parent, Gone
  <2>2. /\ phase \in Phases /\ phase # "send" /\ h.stopped
        /\ phase \notin {"returned", "aborted"} /\ phase \notin {"send", "use", "dead"}
    BY <1>1, <2>1 DEF Phases, Typed
  <2>3. /\ h' \in Handles /\ h'.stopped = h.stopped /\ h'.got = h.got /\ h'.output = h.output
        /\ late' \in BOOLEAN /\ (late' <=> late) /\ NoChildLeftBehind'
    BY <1>1, <2>1, <2>2, Zenon DEF Typed, Flags, NoChildLeftBehind
  <2>4. mode = "run" /\ ~late' => Settled /\ (said => h.output)
    BY <1>1, <2>2, <2>3, Zenon DEF ResultInv
  <2> QED BY <2>1, <2>2, <2>3, <2>4, CalmStep, Zenon
<1>10. CASE Abort
  <2>1. /\ phase = "use" /\ mode = "handle" /\ phase' = "aborted"
        /\ h' = [h EXCEPT !.reaped = TRUE]
        /\ UNCHANGED <<mode, sent, queued, heard, down, up, turn, code, said, intr>>
        /\ UNCHANGED late
        /\ child' = (IF child = "exited" THEN "exited" ELSE "killed")
    BY <1>10, Zenon DEF Abort, Kill
  <2>2. /\ phase' \in Phases /\ phase' # "send" /\ phase # "send" /\ phase' \in Over
        /\ phase' \notin {"wait", "drain", "check", "reap"} /\ phase' # "returned"
        /\ mode # "run" /\ child' \in {"exited", "killed"}
        /\ child' = child \/ (child # "exited" /\ child' = "killed")
    BY <2>1 DEF Phases, Over
  <2>3. /\ h' \in Handles /\ h'.stopped = h.stopped /\ h'.got = h.got /\ h'.output = h.output
    BY <1>1, <2>1, HandleSteps, Zenon DEF Typed
  <2>4. late' \in BOOLEAN /\ NoChildLeftBehind'
    BY <1>1, <2>1, <2>2, Zenon DEF Flags, NoChildLeftBehind, Gone
  <2> QED BY <2>1, <2>2, <2>3, <2>4, CalmStep, Zenon
<1>11. CASE Exit
  <2>1. /\ child = "leaving" /\ child' = "exited"
        /\ UNCHANGED <<mode, sent, queued, heard, down, up, turn, code, said, intr>>
        /\ UNCHANGED <<h, late, phase>>
    BY <1>11, Zenon DEF Exit, parent
  <2>2. ~Gone /\ child' \in {"exited", "killed"}
    BY <2>1 DEF Gone
  <2>3. /\ h' \in Handles /\ h'.stopped = h.stopped /\ h'.got = h.got /\ h'.output = h.output
        /\ late' \in BOOLEAN /\ (late' <=> late) /\ phase' \in Phases
        /\ (phase' \in {"wait", "drain", "check", "reap"} => h.stopped)
    BY <1>1, <2>1, Zenon DEF Typed, Flags
  <2>4. NoChildLeftBehind'
    BY <1>1, <2>1, <2>2, Zenon DEF NoChildLeftBehind
  <2>5. mode = "run" /\ ~late' /\ phase' \notin {"send", "use", "dead"}
          => Settled /\ (said => h.output)
    BY <1>1, <2>1, <2>3, Zenon DEF ResultInv
  <2> QED BY <2>1, <2>3, <2>4, <2>5, CalmStep, Zenon
<1> QED BY <1>3, <1>4, <1>5, <1>6, <1>7, <1>8, <1>9, <1>10, <1>11, Zenon
-----------------------------------------------------------------------------
\* A write to a child that is gone ends the parent, whatever it wrote down before.
LEMMA WriteToGone ==
  ASSUME TypeOK, IInv, Gone, phase' = "dead", phase \notin Over,
         UNCHANGED <<mode, heard, down, up, child, turn, code, said, intr, late>>,
         h' \in Handles, h.stopped => h'.stopped, h'.got = h.got, h'.output = h.output,
         sent' \in 0..Followups, sent <= sent', queued' \in 0..sent',
         queued' = queued \/ ~h.stopped
  PROVE  TypeOK' /\ IInv'
<1>1. /\ Typed /\ Flags /\ PipesInv /\ OrderInv /\ DownInv /\ GraceInv /\ ResultInv
  BY TypeParts, Zenon DEF IInv
<1>2. UNCHANGED <<mode, heard, down, up, child, turn, code>>
  BY Zenon
<1>3. /\ said' = said /\ (said' <=> said) /\ intr' = intr /\ (intr' <=> intr)
      /\ late' = late
  BY Zenon
<1>4. sent \in Int /\ turn \in Int /\ sent' \in Int /\ queued' \in Int /\ queued \in Int
  BY <1>1 DEF Typed
<1>5. Typed'
  BY <1>1, <1>2 DEF Typed, Phases, Over
<1>6. Flags' /\ PipesInv'
  BY <1>1, <1>2, <1>3, Zenon DEF Flags, PipesInv
<1>7. child \notin {"start", "turn", "listen"}
  BY DEF Gone
<1>8. OrderInv'
  <2>1. turn <= sent'
    BY <1>1, <1>4 DEF OrderInv
  <2> QED BY <1>1, <1>2, <2>1, Zenon DEF OrderInv
<1>9. DownInv'
  <2>1. ASSUME NEW j \in DOMAIN down, down[j].type = "followup"
        PROVE  down[j].turn > turn /\ down[j].turn <= sent'
    <3>1. down[j].turn \in Int
      <4>1. down[j] \in DownMsgs
        BY <1>1, LenProperties, ElementOfSeq DEF PipesInv
      <4> QED BY <2>1, <4>1, DownMsgParts
    <3>2. down[j].turn > turn /\ down[j].turn <= sent
      BY <1>1, <2>1 DEF DownInv
    <3> QED BY <1>4, <3>1, <3>2
  <2>2. ASSUME NEW j \in DOMAIN down, down[j].type = "followup", NEW i \in DOMAIN down, i < j
        PROVE  /\ down[i].type = "followup" => down[i].turn < down[j].turn
               /\ down[i].type = "stop" => down[j].turn > queued'
    BY <1>1, <2>2 DEF DownInv
  <2>3. \A j \in DOMAIN down : down[j].type = "task" => j = 1
    BY <1>1, Zenon DEF DownInv
  <2>4. ~h'.stopped => \A j \in DOMAIN down : down[j].type # "stop"
    BY <1>1 DEF DownInv
  <2>5. phase' # "send" /\ child # "start" /\ child \notin {"turn", "listen"}
    BY <1>7
  <2> QED BY <1>2, <2>1, <2>2, <2>3, <2>4, <2>5, Zenon DEF DownInv
<1>10. GraceInv'
  <2>1. phase' \in Over
    BY DEF Over
  <2>2. ASSUME ~intr, child \in {"leaving", "exited"}, code = 0
        PROVE  \A k \in 1..queued' : Answered(k)
    <3>1. (h.stopped \/ phase \in Over) /\ \A k \in 1..queued : Answered(k)
      BY <1>1, <2>2, Zenon DEF GraceInv
    <3> QED BY <3>1
  <2> QED BY <1>2, <1>3, <1>7, <2>1, <2>2, Zenon DEF GraceInv, Answered
<1>11. ResultInv'
  <2>1. said => h'.output \/ \E j \in DOMAIN up : up[j].type = "result" /\ up[j].text
    BY <1>1 DEF ResultInv
  <2>2. h'.got => Settled /\ \A j \in DOMAIN up : up[j].type # "result"
    BY <1>1 DEF ResultInv
  <2>3. phase' \in {"send", "use", "dead"}
    OBVIOUS
  <2> QED BY <1>1, <1>2, <1>3, <2>1, <2>2, <2>3, Zenon DEF ResultInv, Settled
<1>12. NoChildLeftBehind'
  BY DEF NoChildLeftBehind
<1> QED BY <1>5, <1>6, <1>8, <1>9, <1>10, <1>11, <1>12, Zenon
        DEF IInv, TypeOK, Typed, Flags, Handles, Phases

\* An instruction that fits into the pipe: the task first, a follow-up with the next
\* number, one stop.
LEMMA WriteFits ==
  ASSUME TypeOK, IInv, NEW m \in DownMsgs, ~Gone, Len(down) < PipeCap,
         down' = Append(down, m),
         UNCHANGED <<mode, heard, up, child, turn, code, said, intr, late>>,
         h' \in Handles, h.stopped => h'.stopped, h'.got = h.got, h'.output = h.output,
         phase \notin Over, phase' \in Phases, phase' \notin {"send", "returned", "aborted"},
         phase' \in {"wait", "drain", "check", "reap"} => h'.stopped,
         phase' \notin {"use", "dead"} => phase \notin {"send", "use", "dead"},
         phase = "send" <=> m.type = "task",
         m.type = "task" => UNCHANGED <<sent, queued>>,
         m.type = "followup" => m.turn = sent + 1 /\ sent' = sent + 1 /\ queued' = queued
                                /\ sent < Followups,
         m.type = "stop" => ~h.stopped /\ h'.stopped /\ queued' = sent /\ sent' = sent
  PROVE  TypeOK' /\ IInv'
<1>1. /\ Typed /\ Flags /\ PipesInv /\ OrderInv /\ DownInv /\ GraceInv /\ ResultInv
  BY TypeParts, Zenon DEF IInv
<1>2. UNCHANGED <<mode, heard, up, child, turn, code>>
  BY Zenon
<1>3. /\ said' = said /\ (said' <=> said) /\ intr' = intr /\ (intr' <=> intr)
      /\ late' = late /\ (late' <=> late)
  BY Zenon
<1>4. m.type \in {"task", "followup", "stop"} /\ (m = Stop <=> m.type = "stop")
  BY DownMsgParts
<1>5. /\ sent \in Int /\ turn \in Int /\ sent' \in Int /\ queued' \in Int /\ queued \in Int
      /\ 0 <= turn /\ turn <= sent /\ queued <= sent /\ 0 <= sent /\ 0 <= queued
  BY <1>1, <1>4 DEF Typed, OrderInv
<1>6. sent' \in 0..Followups /\ sent <= sent' /\ queued' \in 0..sent'
  BY <1>1, <1>4, <1>5, ConstantsAssumption DEF Typed
<1>7. /\ down' \in Seq(DownMsgs) /\ Len(down) \in Nat /\ Len(down') = Len(down) + 1
      /\ DOMAIN down = 1..Len(down) /\ DOMAIN down' = 1..(Len(down) + 1)
      /\ \A k \in 1..Len(down) : down'[k] = down[k]
      /\ down'[Len(down) + 1] = m
      /\ \A k \in DOMAIN down' : k \in DOMAIN down \/ k = Len(down) + 1
  <2>1. down \in Seq(DownMsgs)
    BY <1>1, Zenon DEF PipesInv
  <2> QED BY <2>1, AppendPipe
<1>8. \A j \in DOMAIN down : /\ down[j].type = "stop" <=> down[j] = Stop
                             /\ down[j].type = "followup" => down[j].turn \in Int
  <2> SUFFICES ASSUME NEW j \in DOMAIN down
               PROVE  /\ down[j].type = "stop" <=> down[j] = Stop
                      /\ down[j].type = "followup" => down[j].turn \in Int
    OBVIOUS
  <2>1. down[j] \in DownMsgs
    BY <1>1, LenProperties, ElementOfSeq DEF PipesInv
  <2> QED BY <2>1, DownMsgParts
<1>9. \A j, k \in DOMAIN down' : down'[j] = Stop /\ down'[k] = Stop => j = k
  <2>1. \A j, k \in DOMAIN down : down[j] = Stop /\ down[k] = Stop => j = k
    BY <1>1 DEF Typed
  <2>2. m = Stop => \A j \in DOMAIN down : down[j] # Stop
    BY <1>1, <1>4, <1>8 DEF DownInv
  <2> QED BY <1>7, <2>1, <2>2
<1>10. Typed'
  BY <1>1, <1>2, <1>6, <1>7, <1>9, ConstantsAssumption DEF Typed
<1>11. Flags' /\ PipesInv'
  BY <1>1, <1>2, <1>3, <1>7, Zenon DEF Flags, PipesInv
<1>12. OrderInv'
  <2>1. turn <= sent'
    BY <1>5, <1>6
  <2> QED BY <1>1, <1>2, <2>1, Zenon DEF OrderInv
<1>13. DownInv'
  <2>1. ASSUME NEW j \in DOMAIN down', down'[j].type = "followup"
        PROVE  down'[j].turn > turn /\ down'[j].turn <= sent'
    <3>1. CASE j \in DOMAIN down
      <4>1. down'[j] = down[j] /\ down[j].turn \in Int
        BY <1>7, <1>8, <2>1, <3>1
      <4>2. down[j].turn > turn /\ down[j].turn <= sent
        BY <1>1, <2>1, <3>1, <4>1 DEF DownInv
      <4> QED BY <1>5, <1>6, <4>1, <4>2
    <3>2. CASE j = Len(down) + 1
      BY <1>5, <1>7, <2>1, <3>2
    <3> QED BY <1>7, <3>1, <3>2
  <2>2. ASSUME NEW j \in DOMAIN down', down'[j].type = "followup",
               NEW i \in DOMAIN down', i < j
        PROVE  /\ down'[i].type = "followup" => down'[i].turn < down'[j].turn
               /\ down'[i].type = "stop" => down'[j].turn > queued'
    <3>1. i \in DOMAIN down /\ down'[i] = down[i]
      BY <1>7, <2>2
    <3>2. CASE j \in DOMAIN down
      <4>1. down'[j] = down[j]
        BY <1>7, <3>2
      <4>2. /\ down[i].type = "followup" => down[i].turn < down[j].turn
            /\ down[i].type = "stop" => down[j].turn > queued
        BY <1>1, <2>2, <3>1, <3>2, <4>1 DEF DownInv
      <4>3. down[i].type = "stop" => queued' = queued
        BY <1>1, <1>4, <3>1 DEF DownInv
      <4> QED BY <3>1, <4>1, <4>2, <4>3
    <3>3. CASE j = Len(down) + 1
      <4>1. down'[j] = m /\ m.turn = sent + 1 /\ queued' = queued
        BY <1>7, <2>2, <3>3
      <4>2. down[i].type = "followup" => down[i].turn <= sent /\ down[i].turn \in Int
        BY <1>1, <1>8, <3>1 DEF DownInv
      <4> QED BY <1>5, <3>1, <4>1, <4>2
    <3> QED BY <1>7, <3>2, <3>3
  <2>3. child = "start" => down' # << >> /\ down'[1].type = "task"
    <3> SUFFICES ASSUME child = "start" PROVE down' # << >> /\ down'[1].type = "task"
      OBVIOUS
    <3>1. 1 \in DOMAIN down' /\ down' # << >>
      BY <1>7
    <3>2. CASE phase = "send"
      <4>1. Len(down) = 0
        BY <1>1, <3>2, EmptySeq DEF DownInv
      <4> QED BY <1>7, <3>1, <3>2, <4>1
    <3>3. CASE phase # "send"
      <4>1. down # << >> /\ down[1].type = "task"
        BY <1>1, <3>3 DEF DownInv
      <4>2. 1 \in 1..Len(down)
        BY <1>1, <1>7, <4>1, EmptySeq DEF PipesInv
      <4> QED BY <1>7, <3>1, <4>1, <4>2
    <3> QED BY <3>2, <3>3
  <2>4. \A j \in DOMAIN down' : down'[j].type = "task" =>
          j = 1 /\ child \notin {"turn", "listen"}
    <3> SUFFICES ASSUME NEW j \in DOMAIN down', down'[j].type = "task"
                 PROVE  j = 1 /\ child \notin {"turn", "listen"}
      OBVIOUS
    <3>1. CASE j \in DOMAIN down
      BY <1>1, <1>7, <3>1 DEF DownInv
    <3>2. CASE j = Len(down) + 1
      <4>1. phase = "send"
        BY <1>7, <3>2
      <4>2. Len(down) = 0 /\ child \notin {"turn", "listen"}
        BY <1>1, <4>1, EmptySeq DEF DownInv
      <4> QED BY <3>2, <4>2
    <3> QED BY <1>7, <3>1, <3>2
  <2>5. ~h'.stopped => \A j \in DOMAIN down' : down'[j].type # "stop"
    BY <1>1, <1>7 DEF DownInv
  <2> QED BY <1>2, <2>1, <2>2, <2>3, <2>4, <2>5, Zenon DEF DownInv
<1>14. GraceInv'
  <2>1. ASSUME ~intr, child \in {"start", "turn", "listen"}, NEW k \in 1..sent'
        PROVE  Answered(k)' \/ OnItsWay(k)'
    <3>1. CASE k \in 1..sent
      <4>1. Answered(k) \/ OnItsWay(k)
        BY <1>1, <2>1, <3>1, Zenon DEF GraceInv
      <4>2. CASE Answered(k)
        BY <1>2, <4>2, Zenon DEF Answered
      <4>3. CASE OnItsWay(k)
        <5>1. CASE child = "turn" /\ turn = k
          BY <1>2, <5>1, Zenon DEF OnItsWay
        <5>2. CASE \E j \in DOMAIN down : down[j].type = "followup" /\ down[j].turn = k
          <6>1. PICK j \in DOMAIN down : down[j].type = "followup" /\ down[j].turn = k
            BY <5>2
          <6>2. j \in DOMAIN down' /\ down'[j] = down[j]
            BY <1>7
          <6> QED BY <6>1, <6>2, Zenon DEF OnItsWay
        <5> QED BY <4>3, <5>1, <5>2, Zenon DEF OnItsWay
      <4> QED BY <4>1, <4>2, <4>3
    <3>2. CASE k \notin 1..sent
      <4>1. m.type = "followup" /\ k = sent + 1
        BY <1>4, <1>5, <1>6, <2>1, <3>2
      <4>2. Len(down) + 1 \in DOMAIN down' /\ down'[Len(down) + 1] = m /\ m.turn = k
        BY <1>7, <4>1
      <4> QED BY <4>1, <4>2, Zenon DEF OnItsWay
    <3> QED BY <3>1, <3>2
  <2>2. ASSUME ~intr, child \in {"leaving", "exited"}, code = 0
        PROVE  h'.stopped /\ \A k \in 1..queued' : Answered(k)
    <3>1. (h.stopped \/ phase \in Over) /\ \A k \in 1..queued : Answered(k)
      BY <1>1, <2>2, Zenon DEF GraceInv
    <3>2. h.stopped
      BY <3>1
    <3>3. queued' = queued
      BY <1>4, <3>2
    <3> QED BY <3>1, <3>2, <3>3
  <2>3. ASSUME ~intr, child \in {"leaving", "exited"}, code = 0, NEW k \in 1..queued'
        PROVE  Answered(k)'
    BY <1>2, <2>2, <2>3, Zenon DEF Answered
  <2> QED BY <1>2, <1>3, <2>1, <2>2, <2>3, Zenon DEF GraceInv
<1>15. ResultInv'
  <2>1. said => h'.output \/ \E j \in DOMAIN up : up[j].type = "result" /\ up[j].text
    BY <1>1 DEF ResultInv
  <2>2. h'.got => Settled /\ \A j \in DOMAIN up : up[j].type # "result"
    BY <1>1 DEF ResultInv
  <2>3. mode = "run" /\ ~late /\ phase' \notin {"send", "use", "dead"} =>
          Settled /\ (said => h'.output)
    <3>1. phase' \notin {"send", "use", "dead"} => phase \notin {"send", "use", "dead"}
      OBVIOUS
    <3> QED BY <1>1, <3>1 DEF ResultInv
  <2> QED BY <1>1, <1>2, <1>3, <2>1, <2>2, <2>3, Zenon DEF ResultInv, Settled
<1>16. NoChildLeftBehind'
  BY DEF NoChildLeftBehind
<1> QED BY <1>10, <1>11, <1>12, <1>13, <1>14, <1>15, <1>16, Zenon
        DEF IInv, TypeOK, Typed, Flags, Handles, Phases

\* The steps of the parent that write.
LEMMA WritesKeepInv ==
  TypeOK /\ IInv /\ (SendTask \/ SendFollowup \/ SendStop \/ EnterWait) => TypeOK' /\ IInv'
<1> SUFFICES ASSUME TypeOK, IInv, SendTask \/ SendFollowup \/ SendStop \/ EnterWait
             PROVE  TypeOK' /\ IInv'
  OBVIOUS
<1>1. Typed /\ Flags /\ DownInv /\ ResultInv
  BY TypeParts, Zenon DEF IInv
<1>2. sent \in 0..Followups /\ queued \in 0..sent /\ sent \in Int /\ h \in Handles
  BY <1>1 DEF Typed
<1>3. /\ UNCHANGED <<mode, heard, up, child, turn, code, said, intr, late>>
  BY Zenon DEF SendTask, SendFollowup, SendStop, EnterWait, kid
<1>4. CASE SendTask
  <2>1. phase = "send" /\ Write(Task, "use") /\ UNCHANGED <<h, sent, queued>>
    BY <1>4, Zenon DEF SendTask
  <2>2. phase \notin Over /\ Task \in DownMsgs /\ Task.type = "task"
    BY <2>1, DownKinds DEF Over
  <2>3. h' \in Handles /\ (h.stopped => h'.stopped) /\ h'.got = h.got /\ h'.output = h.output
    BY <1>2, <2>1, Zenon
  <2>4. CASE Gone
    <3>1. phase' = "dead" /\ down' = down
      BY <2>1, <2>4, Zenon DEF Write
    <3>2. sent' \in 0..Followups /\ sent <= sent' /\ queued' \in 0..sent' /\ queued' = queued
      BY <1>2, <2>1
    <3> QED BY <1>3, <2>2, <2>3, <2>4, <3>1, <3>2, WriteToGone, Zenon
  <2>5. CASE ~Gone
    <3>1. phase' = "use" /\ Len(down) < PipeCap /\ down' = Append(down, Task)
      BY <2>1, <2>5, Zenon DEF Write
    <3>2. /\ phase' \in Phases /\ phase' \notin {"send", "returned", "aborted"}
          /\ phase' \notin {"wait", "drain", "check", "reap"} /\ phase' \in {"use", "dead"}
          /\ Task.type # "followup" /\ Task.type # "stop"
      BY <2>2, <3>1 DEF Phases
    <3> QED BY <1>3, <2>1, <2>2, <2>3, <2>5, <3>1, <3>2, WriteFits, Zenon
  <2> QED BY <2>4, <2>5, Zenon
<1>5. CASE SendFollowup
  <2> DEFINE m == Followup(sent + 1)
  <2>1. /\ phase = "use" /\ sent < Followups /\ sent' = sent + 1 /\ Write(m, "use")
        /\ UNCHANGED <<h, queued>>
    BY <1>5, Zenon DEF SendFollowup
  <2>2. /\ phase \notin Over /\ phase # "send"
        /\ m \in DownMsgs /\ m.type = "followup" /\ m.turn = sent + 1
    <3>1. sent + 1 \in 1..Followups
      BY <1>2, <2>1, ConstantsAssumption
    <3> QED BY <2>1, <3>1, DownKinds DEF Over
  <2> HIDE DEF m
  <2>3. h' \in Handles /\ (h.stopped => h'.stopped) /\ h'.got = h.got /\ h'.output = h.output
    BY <1>2, <2>1, Zenon
  <2>4. CASE Gone
    <3>1. phase' = "dead" /\ down' = down
      BY <2>1, <2>4, Zenon DEF Write
    <3>2. sent' \in 0..Followups /\ sent <= sent' /\ queued' \in 0..sent' /\ queued' = queued
      BY <1>2, <2>1, ConstantsAssumption
    <3> QED BY <1>3, <2>2, <2>3, <2>4, <3>1, <3>2, WriteToGone, Zenon
  <2>5. CASE ~Gone
    <3>1. phase' = "use" /\ Len(down) < PipeCap /\ down' = Append(down, m)
      BY <2>1, <2>5, Zenon DEF Write
    <3>2. /\ phase' \in Phases /\ phase' \notin {"send", "returned", "aborted"}
          /\ phase' \notin {"wait", "drain", "check", "reap"} /\ phase' \in {"use", "dead"}
          /\ m.type # "task" /\ m.type # "stop"
      BY <2>2, <3>1 DEF Phases
    <3> QED BY <1>3, <2>1, <2>2, <2>3, <2>5, <3>1, <3>2, WriteFits, Zenon
  <2> QED BY <2>4, <2>5, Zenon
<1>6. ASSUME NEW p \in {"use", "wait"}, phase \in {"use", "stop"}, ~h.stopped,
             h' = [h EXCEPT !.stopped = TRUE], queued' = sent, sent' = sent, Write(Stop, p),
             p = "wait" => phase = "stop"
      PROVE  TypeOK' /\ IInv'
  <2>1. /\ phase \notin Over /\ phase # "send"
        /\ Stop \in DownMsgs /\ Stop.type = "stop" /\ Stop.type # "task" /\ Stop.type # "followup"
    BY <1>6, DownKinds DEF Over
  <2>2. h' \in Handles /\ h'.stopped /\ h'.got = h.got /\ h'.output = h.output
    BY <1>2, <1>6, HandleSteps, Zenon
  <2>3. CASE Gone
    <3>1. phase' = "dead" /\ down' = down
      BY <1>6, <2>3, Zenon DEF Write
    <3>2. sent' \in 0..Followups /\ sent <= sent' /\ queued' \in 0..sent'
      BY <1>2, <1>6
    <3> QED BY <1>3, <1>6, <2>1, <2>2, <2>3, <3>1, <3>2, WriteToGone, Zenon
  <2>4. CASE ~Gone
    <3>1. phase' = p /\ Len(down) < PipeCap /\ down' = Append(down, Stop)
      BY <1>6, <2>4, Zenon DEF Write
    <3>2. /\ phase' \in Phases /\ phase' \notin {"send", "returned", "aborted"}
          /\ phase' \notin {"use", "dead"} => phase \notin {"send", "use", "dead"}
      BY <1>6, <3>1 DEF Phases
    <3> QED BY <1>3, <1>6, <2>1, <2>2, <2>4, <3>1, <3>2, WriteFits, Zenon
  <2> QED BY <2>3, <2>4, Zenon
<1>7. CASE SendStop
  <2>1. /\ phase = "use" /\ ~h.stopped /\ h' = [h EXCEPT !.stopped = TRUE] /\ queued' = sent
        /\ sent' = sent /\ Write(Stop, "use")
    BY <1>7, Zenon DEF SendStop
  <2>2. phase \in {"use", "stop"} /\ "use" \in {"use", "wait"} /\ "use" # "wait"
    BY <2>1
  <2> QED BY <1>6, <2>1, <2>2, Zenon
<1>8. CASE EnterWait
  <2>1. phase = "stop" /\ sent' = sent
    BY <1>8, Zenon DEF EnterWait
  <2>2. phase \in {"use", "stop"} /\ "wait" \in {"use", "wait"}
    BY <2>1
  <2>3. CASE ~h.stopped
    BY <1>6, <1>8, <2>1, <2>2, <2>3, Zenon DEF EnterWait
  <2>4. CASE h.stopped
    <3>1. MoveOn("wait")
      BY <1>8, <2>4, Zenon DEF EnterWait, MoveOn
    <3>2. /\ "wait" \in Phases /\ phase # "send" /\ phase \notin Over
          /\ "wait" \notin {"send", "returned", "aborted"}
          /\ phase \notin {"send", "use", "dead"}
      BY <2>1 DEF Phases, Over
    <3>3. mode = "run" /\ ~late => Settled /\ (said => h.output)
      BY <1>1, <3>2, Zenon DEF ResultInv
    <3> QED BY <2>4, <3>1, <3>2, <3>3, MoveOnKeepsInv, Zenon
  <2> QED BY <2>3, <2>4, Zenon
<1> QED BY <1>4, <1>5, <1>7, <1>8, Zenon
-----------------------------------------------------------------------------
\* What a message makes of the handle.
Merged(x, m) == [x EXCEPT !.got = TRUE, !.output = @ \/ m.text, !.error = @ \/ m.error]

LEMMA MergedHandle ==
  ASSUME NEW x \in Handles, NEW m \in UpMsgs
  PROVE  /\ Merged(x, m) \in Handles /\ Merged(x, m).got
         /\ Merged(x, m).output <=> x.output \/ m.text
         /\ Merged(x, m).stopped = x.stopped /\ Merged(x, m).exit_code = x.exit_code
<1> USE DEF Handles, UpMsgs, Merged
<1>1. Merged(x, m) \in Handles
  OBVIOUS
<1>2. Merged(x, m).got /\ (Merged(x, m).output <=> x.output \/ m.text)
  OBVIOUS
<1>3. Merged(x, m).stopped = x.stopped /\ Merged(x, m).exit_code = x.exit_code
  OBVIOUS
<1> QED BY <1>1, <1>2, <1>3

\* The polls that take a message: the caller's and that of subagent_wait.
Polling(p) ==
  (phase = "use" /\ p = "use") \/ (phase \in {"wait", "drain"} /\ p = "drain")

\* A message that is read goes from the pipe to where answers are heard, in its turn.
LEMMA TakeKeepsInv ==
  ASSUME TypeOK, IInv, NEW p, Take(p), Polling(p)
  PROVE  TypeOK' /\ IInv'
<1> DEFINE m == Head(up)
<1>1. /\ Typed /\ Flags /\ PipesInv /\ OrderInv /\ DownInv /\ GraceInv /\ ResultInv
  BY TypeParts, Zenon DEF IInv
<1>2. /\ up # << >> /\ m # Garbled /\ up' = Tail(up) /\ phase' = p
      /\ UNCHANGED <<mode, sent, queued, down, child, turn, code>>
      /\ heard' = heard \/ heard' = Append(heard, m.turn)
      /\ m.type = "update" => heard' = Append(heard, m.turn)
  BY Zenon DEF Take, kid
<1>3. /\ said' = said /\ (said' <=> said) /\ intr' = intr /\ (intr' <=> intr)
      /\ late' = late /\ (late' <=> late)
  BY Zenon DEF Take, kid
<1>4. h' = IF m.type = "result" THEN Merged(h, m) ELSE h
  BY Zenon DEF Take, Merged
<1>5. /\ phase \notin {"send", "dead", "returned", "aborted"} /\ phase' \in Phases
      /\ phase' \notin {"send", "dead", "returned", "aborted"} /\ phase \notin Over
      /\ phase' \in {"wait", "drain", "check", "reap"}
           => phase \in {"wait", "drain", "check", "reap"}
      /\ phase' # "use" => phase # "use"
  BY <1>2 DEF Phases, Over, Polling
<1>6. up \in Seq(UpMsgs) /\ heard \in Seq(0..Followups)
  BY <1>1, Zenon DEF PipesInv
<1>7. /\ up' \in Seq(UpMsgs) /\ Len(up) \in Nat /\ Len(up') = Len(up) - 1
      /\ DOMAIN up = 1..Len(up) /\ 1 \in DOMAIN up /\ m = up[1] /\ m \in UpMsgs
      /\ \A k \in DOMAIN up' : up'[k] = up[k + 1] /\ k + 1 \in DOMAIN up /\ k \in Int
      /\ \A k \in DOMAIN up : k = 1 \/ (k - 1 \in DOMAIN up' /\ up'[k - 1] = up[k])
      /\ DOMAIN up' = 1..(Len(up) - 1)
  BY <1>2, <1>6, TailPipe
<1> HIDE DEF m
<1>8. /\ m.turn \in 0..Followups /\ m.turn \in Int /\ m.type \in {"result", "update", "garbled"}
      /\ UpMsg(m) /\ m.type # "garbled" /\ (m.type # "update" <=> m.turn = 0)
  <2>1. UpMsg(m)
    BY <1>1, <1>7, Zenon DEF PipesInv
  <2> QED BY <1>2, <1>7, <2>1 DEF UpMsgs, UpMsg
<1>9. \A k \in DOMAIN up : up[k] \in UpMsgs /\ up[k].turn \in Int /\ UpMsg(up[k])
                           /\ (up[k].type # "update" <=> up[k].turn = 0)
  <2>1. \A k \in DOMAIN up : up[k] \in UpMsgs
    BY <1>6, <1>7, ElementOfSeq
  <2>2. \A k \in DOMAIN up : UpMsg(up[k])
    BY <1>1, Zenon DEF PipesInv
  <2> QED BY <2>1, <2>2 DEF UpMsgs, UpMsg
<1>10. heard' = Append(heard, m.turn) =>
         /\ heard' \in Seq(0..Followups) /\ Len(heard) \in Nat
         /\ DOMAIN heard = 1..Len(heard) /\ DOMAIN heard' = 1..(Len(heard) + 1)
         /\ \A k \in 1..Len(heard) : heard'[k] = heard[k]
         /\ heard'[Len(heard) + 1] = m.turn
         /\ \A k \in DOMAIN heard' : k \in DOMAIN heard \/ k = Len(heard) + 1
  BY <1>6, <1>8, AppendPipe
<1>11. h' \in Handles /\ h'.stopped = h.stopped /\ (h.output => h'.output)
       /\ (h'.got => h.got \/ m.type = "result")
       /\ (m.type = "result" /\ m.text => h'.output)
  <2>1. h \in Handles
    BY <1>1 DEF Typed
  <2>2. CASE m.type = "result"
    BY <1>4, <1>7, <2>1, <2>2, MergedHandle, Zenon
  <2>3. CASE m.type # "result"
    BY <1>4, <2>1, <2>3, Zenon
  <2> QED BY <2>2, <2>3
<1>12. Typed'
  BY <1>1, <1>2, <1>5, <1>7, <1>11, ConstantsAssumption DEF Typed
<1>13. Flags'
  BY <1>1, <1>3, Zenon DEF Flags
<1>14. PipesInv'
  <2>1. \A j \in DOMAIN up' : UpMsg(up'[j])
    BY <1>7, <1>9
  <2>2. heard' \in Seq(0..Followups)
    BY <1>2, <1>6, <1>10
  <2> QED BY <1>1, <1>2, <1>7, <2>1, <2>2, Zenon DEF PipesInv
<1>15. OrderInv'
  <2>1. /\ turn <= sent /\ turn \in Int /\ m.turn <= turn
        /\ \A k \in DOMAIN up' : m.turn < up'[k].turn /\ up'[k].turn <= turn
        /\ \A j \in DOMAIN up', i \in DOMAIN up' : i < j => up'[i].turn < up'[j].turn
        /\ child = "turn" => m.turn < turn /\ \A k \in DOMAIN up' : up'[k].turn < turn
        /\ child # "start"
    <3>1. turn \in Int /\ turn <= sent /\ m.turn <= turn
      BY <1>1, <1>7 DEF Typed, OrderInv
    <3>2. ASSUME NEW k \in DOMAIN up'
          PROVE  m.turn < up'[k].turn /\ up'[k].turn <= turn
      <4>1. k + 1 \in DOMAIN up /\ 1 < k + 1 /\ up'[k] = up[k + 1]
        BY <1>7
      <4> QED BY <1>1, <1>7, <4>1 DEF OrderInv
    <3>3. ASSUME NEW j \in DOMAIN up', NEW i \in DOMAIN up', i < j
          PROVE  up'[i].turn < up'[j].turn
      <4>1. /\ j + 1 \in DOMAIN up /\ i + 1 \in DOMAIN up /\ i + 1 < j + 1
            /\ up'[i] = up[i + 1] /\ up'[j] = up[j + 1]
        BY <1>7, <3>3
      <4> QED BY <1>1, <4>1 DEF OrderInv
    <3>4. child = "turn" => m.turn < turn /\ \A k \in DOMAIN up' : up'[k].turn < turn
      BY <1>1, <1>7 DEF OrderInv
    <3>5. child # "start"
      BY <1>1, <1>2 DEF OrderInv
    <3> QED BY <3>1, <3>2, <3>3, <3>4, <3>5
  <2>2. \A i \in DOMAIN heard : heard[i] < m.turn /\ heard[i] \in Int /\ heard[i] <= turn
    <3>1. \A i \in DOMAIN heard : heard[i] \in Int
      <4>1. DOMAIN heard = 1..Len(heard)
        BY <1>6, LenProperties
      <4>2. \A i \in 1..Len(heard) : heard[i] \in 0..Followups
        BY <1>6, ElementOfSeq
      <4> QED BY <4>1, <4>2
    <3> QED BY <1>1, <1>7, <3>1 DEF OrderInv
  <2>3. ASSUME NEW i \in DOMAIN heard'
        PROVE  heard'[i] <= m.turn /\ heard'[i] \in Int
    <3>1. CASE heard' = heard
      BY <1>8, <2>2, <3>1
    <3>2. CASE heard' = Append(heard, m.turn)
      BY <1>8, <1>10, <2>2, <3>2
    <3> QED BY <1>2, <3>1, <3>2
  <2>4. ASSUME NEW i \in DOMAIN heard'
        PROVE  /\ heard'[i] <= turn
               /\ \A j \in DOMAIN up' : heard'[i] < up'[j].turn
               /\ child = "turn" => heard'[i] < turn
    <3>1. \A j \in DOMAIN up' : up'[j].turn \in Int
      BY <1>7, <1>9
    <3> QED BY <1>8, <2>1, <2>3, <3>1
  <2>5. ASSUME NEW i \in DOMAIN heard', NEW j \in DOMAIN heard', j < i
        PROVE  heard'[j] < heard'[i]
    <3>1. CASE heard' = heard
      BY <1>1, <2>5, <3>1 DEF OrderInv
    <3>2. CASE heard' = Append(heard, m.turn)
      <4>1. j \in DOMAIN heard /\ heard'[j] = heard[j]
        BY <1>10, <2>5, <3>2
      <4>2. CASE i \in DOMAIN heard
        BY <1>1, <1>10, <2>5, <3>2, <4>1, <4>2 DEF OrderInv
      <4>3. CASE i = Len(heard) + 1
        BY <1>10, <2>2, <3>2, <4>1, <4>3
      <4> QED BY <1>10, <3>2, <4>2, <4>3
    <3> QED BY <1>2, <3>1, <3>2
  <2> QED BY <1>2, <2>1, <2>4, <2>5, Zenon DEF OrderInv
<1>16. DownInv'
  BY <1>1, <1>2, <1>5, <1>11, Zenon DEF DownInv
<1>17. ASSUME NEW k, k # 0, Answered(k) PROVE Answered(k)'
  <2>1. CASE \E i \in DOMAIN heard : heard[i] = k
    <3>1. PICK i \in DOMAIN heard : heard[i] = k
      BY <2>1
    <3>2. i \in DOMAIN heard' /\ heard'[i] = k
      BY <1>2, <1>10, <3>1
    <3> QED BY <3>2, Zenon DEF Answered
  <2>2. CASE \E j \in DOMAIN up : up[j].turn = k
    <3>1. PICK j \in DOMAIN up : up[j].turn = k
      BY <2>2
    <3>2. CASE j = 1
      <4>1. m.turn = k /\ m.type = "update"
        BY <1>7, <1>8, <1>17, <3>1, <3>2
      <4>2. heard' = Append(heard, m.turn)
        BY <1>2, <4>1
      <4>3. Len(heard) + 1 \in DOMAIN heard' /\ heard'[Len(heard) + 1] = k
        BY <1>10, <4>1, <4>2
      <4> QED BY <4>3, Zenon DEF Answered
    <3>3. CASE j # 1
      <4>1. j - 1 \in DOMAIN up' /\ up'[j - 1] = up[j]
        BY <1>7, <3>3
      <4> QED BY <3>1, <4>1, Zenon DEF Answered
    <3> QED BY <3>2, <3>3
  <2> QED BY <1>17, <2>1, <2>2, Zenon DEF Answered
<1>18. GraceInv'
  <2>1. (\A k \in 1..sent : k # 0) /\ (\A k \in 1..queued : k # 0)
    BY <1>1 DEF Typed
  <2>2. ASSUME ~intr, child \in {"start", "turn", "listen"}, NEW k \in 1..sent
        PROVE  Answered(k)' \/ OnItsWay(k)'
    <3>1. Answered(k) \/ OnItsWay(k)
      BY <1>1, <2>2, Zenon DEF GraceInv
    <3> QED BY <1>2, <1>17, <2>1, <3>1, Zenon DEF OnItsWay
  <2>3. ASSUME ~intr, child \in {"leaving", "exited"}, code = 0
        PROVE  /\ h'.stopped \/ phase' \in Over
               /\ \A k \in 1..queued : Answered(k)'
    <3>1. (h.stopped \/ phase \in Over) /\ \A k \in 1..queued : Answered(k)
      BY <1>1, <2>3, Zenon DEF GraceInv
    <3> QED BY <1>5, <1>11, <1>17, <2>1, <3>1, Zenon
  <2> QED BY <1>2, <1>3, <2>2, <2>3, Zenon DEF GraceInv
<1>19. ResultInv'
  <2>1. said => h'.output \/ \E j \in DOMAIN up' : up'[j].type = "result" /\ up'[j].text
    <3> SUFFICES ASSUME said, ~h'.output
                 PROVE  \E j \in DOMAIN up' : up'[j].type = "result" /\ up'[j].text
      OBVIOUS
    <3>1. PICK j \in DOMAIN up : up[j].type = "result" /\ up[j].text
      BY <1>1, <1>11 DEF ResultInv
    <3>2. j # 1
      BY <1>7, <1>11, <3>1, Zenon
    <3> QED BY <1>7, <3>1, <3>2, Zenon
  <2>2. h'.got => Settled /\ \A j \in DOMAIN up' : up'[j].type # "result"
    <3>1. CASE h.got
      BY <1>1, <1>7, <3>1, Zenon DEF ResultInv
    <3>2. CASE m.type = "result"
      <4>1. m.turn = 0 /\ child # "start" /\ (child = "turn" => 0 < turn)
        BY <1>1, <1>2, <1>7, <1>8, <3>2 DEF OrderInv
      <4>2. Settled
        BY <4>1 DEF Settled
      <4>3. ASSUME NEW j \in DOMAIN up' PROVE up'[j].type # "result"
        <5>1. up'[j] = up[j + 1] /\ j + 1 \in DOMAIN up /\ 1 < j + 1
          BY <1>7
        <5>2. up[j + 1].turn > 0
          BY <1>1, <1>7, <4>1, <5>1 DEF OrderInv
        <5>3. up[j + 1].turn # 0
          BY <1>9, <5>1, <5>2
        <5> QED BY <1>9, <5>1, <5>3
      <4> QED BY <4>2, <4>3
    <3> QED BY <1>11, <3>1, <3>2, Zenon
  <2>3. \A j \in DOMAIN up' : up'[j].type = "garbled" =>
          ~said /\ child \in {"leaving", "exited", "killed"}
    BY <1>1, <1>7, Zenon DEF ResultInv
  <2>4. mode = "run" /\ ~late /\ phase' \notin {"send", "use", "dead"} =>
          Settled /\ (said => h'.output)
    <3>1. phase' \notin {"send", "use", "dead"} => phase \notin {"send", "use", "dead"}
      BY <1>5
    <3> QED BY <1>1, <1>11, <3>1, Zenon DEF ResultInv
  <2>5. child = "start" => ~said
    BY <1>1, Zenon DEF ResultInv
  <2> QED BY <1>2, <1>3, <2>1, <2>2, <2>3, <2>4, <2>5, Zenon DEF ResultInv, Settled
<1>20. NoChildLeftBehind'
  BY <1>5, Zenon DEF NoChildLeftBehind
<1> QED BY <1>12, <1>13, <1>14, <1>15, <1>16, <1>18, <1>19, <1>20, Zenon
        DEF IInv, TypeOK, Typed, Flags, Handles, Phases

\* The caller's poll, and the poll of subagent_wait.
LEMMA PollsKeepInv == TypeOK /\ IInv /\ (Poll \/ WaitPoll) => TypeOK' /\ IInv'
<1> SUFFICES ASSUME TypeOK, IInv, Poll \/ WaitPoll PROVE TypeOK' /\ IInv'
  OBVIOUS
<1>1. Typed /\ ResultInv
  BY TypeParts, Zenon DEF IInv
<1>2. CASE Poll
  <2>1. Take("use") /\ phase = "use"
    BY <1>2 DEF Poll
  <2>2. Polling("use")
    BY <2>1 DEF Polling
  <2> QED BY <2>1, <2>2, TakeKeepsInv
<1>3. CASE WaitPoll
  <2>1. phase \in {"wait", "drain"} /\ h.stopped
        /\ phase # "send" /\ phase \notin {"send", "use", "dead"} /\ phase \notin Over
    BY <1>1, <1>3 DEF WaitPoll, Typed, Over
  <2>2. mode = "run" /\ ~late => Settled /\ (said => h.output)
    BY <1>1, <2>1, Zenon DEF ResultInv
  <2>3. ASSUME NEW p \in {"reap", "check"}, MoveOn(p) PROVE TypeOK' /\ IInv'
    <3>1. p \in Phases /\ p \notin {"send", "returned", "aborted"}
      BY DEF Phases
    <3> QED BY <2>1, <2>2, <2>3, <3>1, MoveOnKeepsInv, Zenon
  <2>4. "reap" \in {"reap", "check"} /\ "check" \in {"reap", "check"}
    OBVIOUS
  <2> QED BY <1>3, <2>1, <2>3, <2>4, TakeKeepsInv, Zenon DEF WaitPoll, Polling
<1> QED BY <1>2, <1>3, Zenon
-----------------------------------------------------------------------------
\* The child says one message more, the last it says or the answer to its turn.
LEMMA ReplyKeepsPipes ==
  ASSUME PipesInv, OrderInv, NEW m \in UpMsgs, UpMsg(m), up' = Append(up, m),
         UNCHANGED <<heard, turn, sent>>, down' \in Seq(DownMsgs), turn \in Int,
         child \in {"start", "turn"}, m.turn = turn, child' \notin {"start", "turn"}
  PROVE  /\ PipesInv' /\ OrderInv'
         /\ DOMAIN up' = 1..(Len(up) + 1) /\ DOMAIN up = 1..Len(up) /\ Len(up) \in Nat
         /\ \A k \in 1..Len(up) : up'[k] = up[k]
         /\ up'[Len(up) + 1] = m
         /\ \A k \in DOMAIN up' : k \in DOMAIN up \/ k = Len(up) + 1
         /\ Len(up') = Len(up) + 1
<1>1. up \in Seq(UpMsgs) /\ heard \in Seq(0..Followups)
  BY Zenon DEF PipesInv
<1>2. /\ up' \in Seq(UpMsgs) /\ Len(up') = Len(up) + 1
      /\ DOMAIN up' = 1..(Len(up) + 1) /\ DOMAIN up = 1..Len(up) /\ Len(up) \in Nat
      /\ \A k \in 1..Len(up) : up'[k] = up[k]
      /\ up'[Len(up) + 1] = m
      /\ \A k \in DOMAIN up' : k \in DOMAIN up \/ k = Len(up) + 1
  BY <1>1, AppendPipe
<1>3. UNCHANGED <<heard, turn, sent>>
  BY Zenon
<1>4. PipesInv'
  <2>1. \A j \in DOMAIN up' : UpMsg(up'[j])
    BY <1>2 DEF PipesInv
  <2> QED BY <1>1, <1>2, <1>3, <2>1, Zenon DEF PipesInv
<1>5. /\ \A j \in DOMAIN up : up[j].turn < turn
      /\ \A i \in DOMAIN heard : heard[i] < turn
  BY DEF OrderInv
<1>6. ASSUME NEW i \in DOMAIN heard, NEW j \in DOMAIN up' PROVE heard[i] < up'[j].turn
  BY <1>2, <1>5 DEF OrderInv
<1>7. ASSUME NEW j \in DOMAIN up' PROVE up'[j].turn <= turn
  BY <1>2, <1>5 DEF OrderInv
<1>8. ASSUME NEW j \in DOMAIN up', NEW i \in DOMAIN up', i < j PROVE up'[i].turn < up'[j].turn
  <2>1. i \in DOMAIN up /\ up'[i] = up[i]
    BY <1>2, <1>8
  <2>2. CASE j \in DOMAIN up
    BY <1>2, <1>8, <2>1, <2>2 DEF OrderInv
  <2>3. CASE j = Len(up) + 1
    BY <1>2, <1>5, <2>1, <2>3
  <2> QED BY <1>2, <2>2, <2>3
<1>9. OrderInv'
  <2>1. child' # "start" /\ child' # "turn"
    OBVIOUS
  <2>2. /\ turn <= sent
        /\ \A i \in DOMAIN heard : /\ heard[i] <= turn
                                   /\ \A j \in DOMAIN heard : j < i => heard[j] < heard[i]
    BY Zenon DEF OrderInv
  <2> QED BY <1>3, <1>6, <1>7, <1>8, <2>1, <2>2, Zenon DEF OrderInv
<1> QED BY <1>2, <1>4, <1>9

\* The child reads the head of its stdin: the task, or something while it listens.
LEMMA ReadKeepsDown ==
  ASSUME TypeOK, IInv, down # << >>, down' = Tail(down),
         UNCHANGED <<phase, h, sent, queued>>,
         child' # "start",
         turn' = turn \/ (Head(down).type = "followup" /\ turn' = Head(down).turn)
  PROVE  /\ down' \in Seq(DownMsgs) /\ DownInv' /\ phase # "send"
         /\ Len(down') <= PipeCap
         /\ \A j, k \in DOMAIN down' : down'[j] = Stop /\ down'[k] = Stop => j = k
         /\ Head(down) = down[1] /\ Head(down) \in DownMsgs /\ 1 \in DOMAIN down
         /\ \A k \in DOMAIN down : k = 1 \/ (/\ k - 1 \in DOMAIN down' /\ 1 < k
                                             /\ down'[k - 1] = down[k])
<1>1. /\ Typed /\ PipesInv /\ DownInv
  BY TypeParts, Zenon DEF IInv
<1>2. /\ down' \in Seq(DownMsgs) /\ Len(down) \in Nat /\ Len(down') = Len(down) - 1
      /\ DOMAIN down = 1..Len(down) /\ DOMAIN down' = 1..(Len(down) - 1) /\ 1 \in DOMAIN down
      /\ Head(down) = down[1] /\ Head(down) \in DownMsgs
      /\ \A k \in DOMAIN down' : down'[k] = down[k + 1] /\ k + 1 \in DOMAIN down /\ k \in Int
      /\ \A k \in DOMAIN down : k = 1 \/ (k - 1 \in DOMAIN down' /\ down'[k - 1] = down[k])
  <2>1. down \in Seq(DownMsgs)
    BY <1>1, Zenon DEF PipesInv
  <2> QED BY <2>1, TailPipe
<1>3. /\ \A k \in DOMAIN down' : 1 < k + 1
      /\ \A k \in DOMAIN down : k = 1 \/ 1 < k
      /\ \A j, k \in DOMAIN down' : j < k => j + 1 < k + 1
      /\ \A j, k \in DOMAIN down' : j + 1 = k + 1 => j = k
  BY <1>2
<1>4. phase # "send"
  BY <1>1, Zenon DEF DownInv
<1>5. Len(down') <= PipeCap
  BY <1>1, <1>2, ConstantsAssumption DEF Typed
<1>6. ASSUME NEW j \in DOMAIN down', NEW k \in DOMAIN down', down'[j] = Stop, down'[k] = Stop
      PROVE  j = k
  <2>1. down[j + 1] = Stop /\ down[k + 1] = Stop
    BY <1>2, <1>6, Zenon
  <2>2. j + 1 = k + 1
    BY <1>1, <1>2, <2>1, Zenon DEF Typed
  <2> QED BY <1>3, <2>2, Zenon
<1>7. UNCHANGED <<phase, h, sent, queued>>
  BY Zenon
<1>8. ASSUME NEW j \in DOMAIN down', down'[j].type = "followup"
      PROVE  /\ down'[j].turn > turn' /\ down'[j].turn <= sent
             /\ \A i \in DOMAIN down' : i < j =>
                  /\ down'[i].type = "followup" => down'[i].turn < down'[j].turn
                  /\ down'[i].type = "stop" => down'[j].turn > queued
  <2>1. /\ j + 1 \in DOMAIN down /\ down[j + 1] = down'[j] /\ 1 < j + 1
        /\ down[j + 1].type = "followup"
    BY <1>2, <1>3, <1>8, Zenon
  <2>2. /\ down[j + 1].turn > turn /\ down[j + 1].turn <= sent
        /\ \A i \in DOMAIN down : i < j + 1 =>
             /\ down[i].type = "followup" => down[i].turn < down[j + 1].turn
             /\ down[i].type = "stop" => down[j + 1].turn > queued
    BY <1>1, <2>1, Zenon DEF DownInv
  <2>3. down[j + 1].turn > turn'
    <3>1. CASE turn' = turn
      BY <2>2, <3>1
    <3>2. CASE down[1].type = "followup" /\ turn' = down[1].turn
      <4>1. down[1].turn < down[j + 1].turn
        BY <1>2, <2>1, <2>2, <3>2, Zenon
      <4>2. down[1].turn \in Int /\ down[j + 1].turn \in Int
        <5>1. down[1] \in DownMsgs /\ down[j + 1] \in DownMsgs
          <6>1. \A k \in 1..Len(down) : down[k] \in DownMsgs
            BY <1>1, ElementOfSeq, Zenon DEF PipesInv
          <6> QED BY <1>2, <2>1, <6>1, Zenon
        <5>2. down[1].turn \in 1..Followups
          BY <3>2, <5>1, DownMsgParts, Zenon
        <5>3. down[j + 1].turn \in 1..Followups
          BY <2>1, <5>1, DownMsgParts, Zenon
        <5> QED BY <5>2, <5>3
      <4> QED BY <3>2, <4>1, <4>2
    <3> QED BY <1>2, <3>1, <3>2, Zenon
  <2>4. ASSUME NEW i \in DOMAIN down', i < j
        PROVE  i + 1 \in DOMAIN down /\ down[i + 1] = down'[i] /\ i + 1 < j + 1
    BY <1>2, <1>3, <2>4, Zenon
  <2> QED BY <2>1, <2>2, <2>3, <2>4, Zenon
<1>9. ASSUME NEW j \in DOMAIN down' PROVE down'[j].type # "task"
  <2>1. j + 1 \in DOMAIN down /\ down[j + 1] = down'[j] /\ j + 1 # 1
    BY <1>2
  <2> QED BY <1>1, <2>1, Zenon DEF DownInv
<1>10. ~h.stopped => \A j \in DOMAIN down' : down'[j].type # "stop"
  BY <1>1, <1>2, Zenon DEF DownInv
<1>11. DownInv'
  BY <1>4, <1>7, <1>8, <1>9, <1>10, Zenon DEF DownInv
<1> QED BY <1>2, <1>3, <1>4, <1>5, <1>6, <1>11, Zenon

\* A child that has not left when the handle is done with was cut off by Ctrl-C.
LEMMA StillRunning ==
  ASSUME NoChildLeftBehind, child \in {"start", "turn", "listen"},
         phase' = phase, intr' = intr
  PROVE  NoChildLeftBehind'
<1>1. ~Gone
  BY DEF Gone
<1> QED BY <1>1, Zenon DEF NoChildLeftBehind

LEMMA StartKeepsInv ==
  TypeOK /\ IInv /\ (CannotStart \/ ReadTask \/ UnknownProvider) => TypeOK' /\ IInv'
<1> SUFFICES ASSUME TypeOK, IInv, CannotStart \/ ReadTask \/ UnknownProvider
             PROVE  TypeOK' /\ IInv'
  OBVIOUS
<1>1. /\ Typed /\ Flags /\ PipesInv /\ OrderInv /\ DownInv /\ GraceInv /\ ResultInv
      /\ NoChildLeftBehind
  BY TypeParts, Zenon DEF IInv
<1>2. /\ child = "start" /\ UNCHANGED <<mode, phase, h, late, sent, queued, heard>>
      /\ turn' = turn
  BY Zenon DEF CannotStart, ReadTask, UnknownProvider, parent, Leave
<1>3. intr' = intr /\ (intr' <=> intr) /\ said' = said /\ (said' <=> said)
      /\ late' = late /\ (late' <=> late)
  <2>1. CASE CannotStart
    BY <2>1, Zenon DEF CannotStart, parent, Leave
  <2>2. CASE ReadTask
    BY <2>2, Zenon DEF ReadTask, parent
  <2>3. CASE UnknownProvider
    BY <2>3, Zenon DEF UnknownProvider, parent, Leave
  <2> QED BY <2>1, <2>2, <2>3, Zenon
<1>4. turn = 0 /\ up = << >> /\ heard = << >> /\ DOMAIN heard = {} /\ DOMAIN up = {}
  BY <1>1, <1>2 DEF OrderInv
<1>5. ~said /\ ~h.got /\ ~(mode = "run" /\ ~late /\ phase \notin {"send", "use", "dead"})
  BY <1>1, <1>2, Zenon DEF ResultInv, Settled
<1>6. Flags' /\ NoChildLeftBehind'
  <2>1. child \in {"start", "turn", "listen"}
    BY <1>2
  <2> QED BY <1>1, <1>2, <1>3, <2>1, StillRunning, Zenon DEF Flags
<1>7. CASE CannotStart
  <2>1. child' = "leaving" /\ code' = 1 /\ UNCHANGED <<down, up>>
    BY <1>7, Zenon DEF CannotStart, Leave
  <2>2. Typed'
    BY <1>1, <1>2, <2>1 DEF Typed
  <2>3. PipesInv'
    BY <1>1, <1>2, <2>1, Zenon DEF PipesInv
  <2>4. OrderInv' /\ DownInv'
    BY <1>1, <1>2, <2>1 DEF OrderInv, DownInv
  <2>5. GraceInv'
    BY <2>1 DEF GraceInv
  <2>6. ResultInv'
    BY <1>2, <1>3, <1>4, <1>5, <2>1 DEF ResultInv
  <2> QED BY <1>6, <2>2, <2>3, <2>4, <2>5, <2>6, Zenon
          DEF IInv, TypeOK, Typed, Flags, Handles, Phases
<1>8. CASE ReadTask
  <2>1. /\ down # << >> /\ down' = Tail(down) /\ child' = "turn" /\ up' = up /\ code' = code
    BY <1>8, Zenon DEF ReadTask
  <2>2. /\ down' \in Seq(DownMsgs) /\ DownInv' /\ phase # "send"
        /\ Len(down') <= PipeCap
        /\ \A j, k \in DOMAIN down' : down'[j] = Stop /\ down'[k] = Stop => j = k
        /\ \A k \in DOMAIN down : k = 1 \/ (/\ k - 1 \in DOMAIN down' /\ 1 < k
                                            /\ down'[k - 1] = down[k])
    BY <1>2, <2>1, ReadKeepsDown
  <2>3. Typed'
    BY <1>1, <1>2, <2>1, <2>2 DEF Typed
  <2>4. PipesInv'
    BY <1>1, <1>2, <2>1, <2>2, Zenon DEF PipesInv
  <2>5. OrderInv'
    BY <1>1, <1>2, <1>4, <2>1 DEF OrderInv
  <2>6. GraceInv'
    <3>1. ASSUME ~intr, NEW k \in 1..sent PROVE OnItsWay(k)'
      <4>1. Answered(k) \/ OnItsWay(k)
        BY <1>1, <1>2, <3>1 DEF GraceInv
      <4>2. ~Answered(k)
        BY <1>4, Zenon DEF Answered
      <4>3. PICK j \in DOMAIN down : down[j].type = "followup" /\ down[j].turn = k
        BY <1>2, <4>1, <4>2 DEF OnItsWay
      <4>4. down[1].type = "task"
        BY <1>1, <1>2, <2>2, Zenon DEF DownInv
      <4>5. j # 1
        BY <4>3, <4>4
      <4> QED BY <2>2, <4>3, <4>5, Zenon DEF OnItsWay
    <3> QED BY <1>2, <1>3, <2>1, <3>1 DEF GraceInv
  <2>7. ResultInv'
    BY <1>2, <1>3, <1>4, <1>5, <2>1 DEF ResultInv
  <2> QED BY <1>6, <2>2, <2>3, <2>4, <2>5, <2>6, <2>7, Zenon
          DEF IInv, TypeOK, Typed, Flags, Handles, Phases
<1>9. CASE UnknownProvider
  <2> DEFINE m == Result(FALSE, TRUE)
  <2>1. /\ down # << >> /\ down' = Tail(down) /\ child' = "leaving" /\ code' = 1
        /\ Len(up) < PipeCap /\ up' = Append(up, m)
    BY <1>9, Zenon DEF UnknownProvider, Leave, Reply
  <2>2. /\ down' \in Seq(DownMsgs) /\ DownInv' /\ phase # "send"
        /\ Len(down') <= PipeCap
        /\ \A j, k \in DOMAIN down' : down'[j] = Stop /\ down'[k] = Stop => j = k
    BY <1>2, <2>1, ReadKeepsDown
  <2>3. m \in UpMsgs /\ UpMsg(m) /\ m.turn = 0 /\ m.type = "result"
    BY UpKinds
  <2> HIDE DEF m
  <2>4. /\ PipesInv' /\ OrderInv'
        /\ DOMAIN up' = 1..(Len(up) + 1) /\ DOMAIN up = 1..Len(up) /\ Len(up) \in Nat
        /\ up'[Len(up) + 1] = m
        /\ \A k \in DOMAIN up' : k \in DOMAIN up \/ k = Len(up) + 1
        /\ Len(up') = Len(up) + 1
    BY <1>1, <1>2, <1>4, <2>1, <2>2, <2>3, ReplyKeepsPipes
  <2>5. Typed'
    BY <1>1, <1>2, <2>1, <2>2, <2>4, ConstantsAssumption DEF Typed
  <2>6. GraceInv'
    BY <2>1 DEF GraceInv
  <2>7. ResultInv'
    <3>1. \A j \in DOMAIN up' : up'[j].type # "garbled"
      BY <1>4, <2>3, <2>4
    <3> QED BY <1>2, <1>3, <1>5, <2>1, <3>1 DEF ResultInv
  <2> QED BY <1>6, <2>2, <2>4, <2>5, <2>6, <2>7, Zenon
          DEF IInv, TypeOK, Typed, Flags, Handles, Phases
<1> QED BY <1>7, <1>8, <1>9, Zenon

\* The answer of a turn goes up, once, and its number is on no longer on its way.
LEMMA EndTurnKeepsInv ==
  ASSUME TypeOK, IInv, NEW text \in BOOLEAN, EndTurn(text)
  PROVE  TypeOK' /\ IInv'
<1> DEFINE m == IF turn = 0 THEN Result(text, intr) ELSE Update(turn, text)
<1>1. /\ Typed /\ Flags /\ PipesInv /\ OrderInv /\ DownInv /\ GraceInv /\ ResultInv
      /\ NoChildLeftBehind
  BY TypeParts, Zenon DEF IInv
<1>2. /\ child = "turn" /\ child' = "listen"
      /\ UNCHANGED <<mode, phase, h, late, sent, queued, heard, down, turn, code>>
  BY Zenon DEF EndTurn, parent
<1>3. intr' = intr /\ (intr' <=> intr) /\ late' = late /\ (late' <=> late)
  BY Zenon DEF EndTurn, parent
<1>4. turn \in 0..Followups /\ turn \in Int
  BY <1>1 DEF Typed
<1>5. m \in UpMsgs /\ UpMsg(m) /\ m.turn = turn /\ m.type # "garbled"
  <2>1. CASE turn = 0
    <3>1. Result(text, intr) \in UpMsgs /\ UpMsg(Result(text, intr))
      BY <1>1, UpKinds, Zenon DEF Flags
    <3>2. Result(text, intr).turn = 0 /\ Result(text, intr).type = "result"
      BY UpKinds, Zenon
    <3> QED BY <2>1, <3>1, <3>2
  <2>2. CASE turn # 0
    <3>1. turn \in 1..Followups
      BY <1>4, <2>2, ConstantsAssumption
    <3>2. Update(turn, text) \in UpMsgs /\ UpMsg(Update(turn, text))
      BY <3>1, UpKinds, Zenon
    <3>3. Update(turn, text).turn = turn /\ Update(turn, text).type = "update"
      BY UpKinds, Zenon
    <3> QED BY <2>2, <3>2, <3>3
  <2> QED BY <2>1, <2>2
<1>6. Len(up) < PipeCap /\ up' = Append(up, m)
  BY Zenon DEF EndTurn, Reply
<1>7. /\ turn = 0 => (said' <=> text) /\ m.type = "result" /\ (m.text <=> text)
      /\ turn # 0 => (said' <=> said) /\ said' = said /\ m.type = "update"
  <2>1. CASE turn = 0
    <3>1. said' = text
      BY <2>1, Zenon DEF EndTurn
    <3>2. Result(text, intr).type = "result" /\ Result(text, intr).text = text
      BY UpKinds, Zenon
    <3> QED BY <2>1, <3>1, <3>2
  <2>2. CASE turn # 0
    <3>1. said' = said
      BY <2>2, Zenon DEF EndTurn
    <3>2. Update(turn, text).type = "update"
      BY UpKinds, Zenon
    <3> QED BY <2>2, <3>1, <3>2
  <2> QED BY <2>1, <2>2, Zenon
<1>8. said' \in BOOLEAN
  BY <1>1, <1>7, Zenon DEF EndTurn, Flags
<1> HIDE DEF m
<1>9. /\ PipesInv' /\ OrderInv'
      /\ DOMAIN up' = 1..(Len(up) + 1) /\ DOMAIN up = 1..Len(up) /\ Len(up) \in Nat
      /\ \A k \in 1..Len(up) : up'[k] = up[k]
      /\ up'[Len(up) + 1] = m
      /\ \A k \in DOMAIN up' : k \in DOMAIN up \/ k = Len(up) + 1
      /\ Len(up') = Len(up) + 1
  <2>1. down' \in Seq(DownMsgs)
    BY <1>1, <1>2, Zenon DEF PipesInv
  <2> QED BY <1>1, <1>2, <1>4, <1>5, <1>6, <2>1, ReplyKeepsPipes
<1>10. Typed'
  BY <1>1, <1>2, <1>6, <1>9, ConstantsAssumption DEF Typed
<1>11. Flags'
  BY <1>1, <1>3, <1>8, Zenon DEF Flags
<1>12. DownInv'
  BY <1>1, <1>2, Zenon DEF DownInv
<1>13. GraceInv'
  <2>1. ASSUME ~intr, NEW k \in 1..sent PROVE Answered(k)' \/ OnItsWay(k)'
    <3>1. Answered(k) \/ OnItsWay(k)
      BY <1>1, <1>2, <2>1 DEF GraceInv
    <3>2. CASE \E i \in DOMAIN heard : heard[i] = k
      BY <1>2, <3>2, Zenon DEF Answered
    <3>3. CASE \E j \in DOMAIN up : up[j].turn = k
      <4>1. PICK j \in DOMAIN up : up[j].turn = k
        BY <3>3
      <4>2. j \in DOMAIN up' /\ up'[j].turn = k
        BY <1>9, <4>1
      <4> QED BY <4>2, Zenon DEF Answered
    <3>4. CASE turn = k
      <4>1. Len(up) + 1 \in DOMAIN up' /\ up'[Len(up) + 1].turn = k
        BY <1>5, <1>9, <3>4
      <4> QED BY <4>1, Zenon DEF Answered
    <3>5. CASE \E j \in DOMAIN down : down[j].type = "followup" /\ down[j].turn = k
      BY <1>2, <3>5, Zenon DEF OnItsWay
    <3> QED BY <3>1, <3>2, <3>3, <3>4, <3>5, Zenon DEF Answered, OnItsWay
  <2> QED BY <1>2, <1>3, <2>1 DEF GraceInv
<1>14. ResultInv'
  <2>1. Settled' /\ child' # "start"
    BY <1>2 DEF Settled
  <2>2. h.got => turn # 0
    BY <1>1, <1>2, Zenon DEF ResultInv, Settled
  <2>3. said' => h.output \/ \E j \in DOMAIN up' : up'[j].type = "result" /\ up'[j].text
    <3>1. CASE turn = 0
      <4>1. Len(up) + 1 \in DOMAIN up'
        BY <1>9
      <4> QED BY <1>7, <1>9, <3>1, <4>1
    <3>2. CASE turn # 0
      <4>1. \A j \in DOMAIN up : j \in DOMAIN up' /\ up'[j] = up[j]
        BY <1>9
      <4> QED BY <1>1, <1>7, <3>2, <4>1, Zenon DEF ResultInv
    <3> QED BY <3>1, <3>2
  <2>4. ASSUME h.got, NEW j \in DOMAIN up' PROVE up'[j].type # "result"
    <3>1. \A i \in DOMAIN up : up[i].type # "result"
      BY <1>1, <2>4, Zenon DEF ResultInv
    <3> QED BY <1>7, <1>9, <2>2, <2>4, <3>1
  <2>5. ASSUME NEW j \in DOMAIN up' PROVE up'[j].type # "garbled"
    <3>1. \A i \in DOMAIN up : up[i].type # "garbled"
      BY <1>1, <1>2 DEF ResultInv
    <3> QED BY <1>5, <1>9, <3>1
  <2>6. mode = "run" /\ ~late /\ phase \notin {"send", "use", "dead"} => (said' => h.output)
    BY <1>1, <1>2, <1>7, Zenon DEF ResultInv, Settled
  <2> QED BY <1>2, <1>3, <2>1, <2>3, <2>4, <2>5, <2>6, Zenon DEF ResultInv
<1>15. NoChildLeftBehind'
  BY <1>1, <1>2, <1>3, StillRunning
<1> QED BY <1>9, <1>10, <1>11, <1>12, <1>13, <1>14, <1>15, Zenon
        DEF IInv, TypeOK, Typed, Flags, Handles, Phases

\* What the child does while it listens: it leaves, with every follow-up answered
\* that came before the stop, or it takes the next one on.
LEMMA ListenKeepsInv == TypeOK /\ IInv /\ Listen => TypeOK' /\ IInv'
<1> SUFFICES ASSUME TypeOK, IInv, Listen PROVE TypeOK' /\ IInv'
  OBVIOUS
<1>1. /\ Typed /\ Flags /\ PipesInv /\ OrderInv /\ DownInv /\ GraceInv /\ ResultInv
      /\ NoChildLeftBehind
  BY TypeParts, Zenon DEF IInv
<1>2. /\ child = "listen" /\ UNCHANGED <<mode, phase, h, late, sent, queued, heard, up>>
  BY Zenon DEF Listen, parent
<1>3. intr' = intr /\ (intr' <=> intr) /\ late' = late /\ (late' <=> late)
  BY Zenon DEF Listen, parent
<1>4. said' = said /\ (said' <=> said)
  <2>1. Leave(0) => said' = said
    BY Zenon DEF Leave
  <2>2. said' = said
    BY <2>1, Zenon DEF Listen
  <2> QED BY <2>2
<1>5. Flags' /\ NoChildLeftBehind'
  <2>1. child \in {"start", "turn", "listen"}
    BY <1>2
  <2> QED BY <1>1, <1>2, <1>3, <1>4, <2>1, StillRunning, Zenon DEF Flags
<1>6. Settled
  BY <1>2 DEF Settled
<1>7. \A j \in DOMAIN up : up[j].type # "garbled"
  BY <1>1, <1>2 DEF ResultInv
<1>8. ASSUME ~intr, NEW k \in 1..sent
      PROVE  Answered(k) \/ \E j \in DOMAIN down : down[j].type = "followup" /\ down[j].turn = k
  BY <1>1, <1>2, <1>8 DEF GraceInv, OnItsWay
<1>9. ASSUME child' = "leaving", code' = 0, turn' = turn, Typed', DownInv',
             down' \in Seq(DownMsgs), h.stopped \/ phase \in Over,
             ~intr => \A k \in 1..queued : Answered(k)
      PROVE  TypeOK' /\ IInv'
  <2>1. PipesInv'
    BY <1>1, <1>2, <1>9, Zenon DEF PipesInv
  <2>2. OrderInv'
    BY <1>1, <1>2, <1>9 DEF OrderInv
  <2>3. GraceInv'
    BY <1>2, <1>3, <1>9 DEF GraceInv, Answered
  <2>4. ResultInv'
    <3>1. Settled' /\ child' # "start"
      BY <1>9 DEF Settled
    <3> QED BY <1>1, <1>2, <1>3, <1>4, <1>6, <1>7, <3>1, Zenon DEF ResultInv
  <2> QED BY <1>5, <1>9, <2>1, <2>2, <2>3, <2>4, Zenon
          DEF IInv, TypeOK, Typed, Flags, Handles, Phases
<1>10. CASE down = << >>
  <2>1. StdinClosed /\ child' = "leaving" /\ code' = 0 /\ turn' = turn /\ down' = down
    BY <1>10, Zenon DEF Listen, Leave
  <2>2. h.stopped \/ phase \in Over
    BY <1>1, <2>1 DEF StdinClosed, Typed
  <2>3. DOMAIN down = {}
    BY <1>10
  <2>4. ~intr => \A k \in 1..queued : Answered(k)
    <3>1. ~intr => \A k \in 1..sent : Answered(k)
      BY <1>8, <2>3, Zenon
    <3>2. \A k \in 1..queued : k \in 1..sent
      BY <1>1 DEF Typed
    <3> QED BY <3>1, <3>2, Zenon
  <2>5. down' \in Seq(DownMsgs)
    BY <1>1, <2>1, Zenon DEF PipesInv
  <2>6. Typed'
    BY <1>1, <1>2, <2>1 DEF Typed
  <2>7. DownInv'
    BY <1>1, <1>2, <2>1 DEF DownInv
  <2> QED BY <1>9, <2>1, <2>2, <2>4, <2>5, <2>6, <2>7, Zenon
<1>11. CASE down # << >>
  <2>1. /\ down' = Tail(down)
        /\ Head(down) = Stop => child' = "leaving" /\ code' = 0 /\ turn' = turn
        /\ Head(down) # Stop => child' = "turn" /\ turn' = Head(down).turn /\ code' = code
    BY <1>11, Zenon DEF Listen, Leave
  <2>2. down \in Seq(DownMsgs)
    BY <1>1, Zenon DEF PipesInv
  <2>3. Head(down) = down[1] /\ 1 \in DOMAIN down /\ Head(down) \in DownMsgs
    BY <1>11, <2>2, TailPipe
  <2>4. Head(down) # Stop => Head(down).type = "followup" /\ Head(down).turn \in 1..Followups
    <3>1. Head(down).type # "task"
      BY <1>1, <1>2, <2>3 DEF DownInv
    <3> QED BY <2>3, <3>1, DownMsgParts
  <2>5. /\ child' # "start"
        /\ turn' = turn \/ (Head(down).type = "followup" /\ turn' = Head(down).turn)
    BY <2>1, <2>4
  <2>6. /\ down' \in Seq(DownMsgs) /\ DownInv' /\ phase # "send"
        /\ Len(down') <= PipeCap
        /\ \A j, k \in DOMAIN down' : down'[j] = Stop /\ down'[k] = Stop => j = k
        /\ \A k \in DOMAIN down : k = 1 \/ (/\ k - 1 \in DOMAIN down' /\ 1 < k
                                            /\ down'[k - 1] = down[k])
    BY <1>2, <1>11, <2>1, <2>5, ReadKeepsDown
  <2>7. CASE Head(down) = Stop
    <3>1. down[1].type = "stop" /\ down[1].type # "followup"
      BY <2>3, <2>7, DownKinds
    <3>2. h.stopped
      BY <1>1, <2>3, <3>1, Zenon DEF DownInv
    <3>3. ASSUME ~intr, NEW k \in 1..queued PROVE Answered(k)
      <4>1. k \in 1..sent
        BY <1>1 DEF Typed
      <4>2. ASSUME NEW j \in DOMAIN down, down[j].type = "followup", down[j].turn = k
            PROVE  FALSE
        <5>1. 1 < j
          BY <2>6, <3>1, <4>2
        <5>2. down[j].turn > queued
          BY <1>1, <2>3, <3>1, <4>2, <5>1, Zenon DEF DownInv
        <5> QED BY <1>1, <4>2, <5>2 DEF Typed
      <4> QED BY <1>8, <3>3, <4>1, <4>2, Zenon
    <3>4. Typed'
      BY <1>1, <1>2, <2>1, <2>6, <2>7 DEF Typed
    <3> QED BY <1>9, <2>1, <2>6, <2>7, <3>2, <3>3, <3>4, Zenon
  <2>8. CASE Head(down) # Stop
    <3>1. child' = "turn" /\ turn' = down[1].turn /\ code' = code /\ down[1].type = "followup"
      BY <2>1, <2>3, <2>4, <2>8
    <3>2. turn' > turn /\ turn' <= sent /\ turn' \in 1..Followups /\ turn \in Int
      BY <1>1, <2>3, <2>4, <2>8, <3>1 DEF DownInv, Typed
    <3>3. Typed'
      BY <1>1, <1>2, <2>6, <3>1, <3>2, ConstantsAssumption DEF Typed
    <3>4. PipesInv'
      BY <1>1, <1>2, <2>6, Zenon DEF PipesInv
    <3>5. OrderInv'
      <4>1. \A i \in DOMAIN heard : heard[i] < turn' /\ heard[i] <= turn'
        <5>1. \A i \in DOMAIN heard : heard[i] \in Int
          <6>1. heard \in Seq(0..Followups)
            BY <1>1, Zenon DEF PipesInv
          <6>2. DOMAIN heard = 1..Len(heard) /\ \A i \in 1..Len(heard) : heard[i] \in 0..Followups
            BY <6>1, LenProperties, ElementOfSeq
          <6> QED BY <6>2
        <5> QED BY <1>1, <3>2, <5>1 DEF OrderInv
      <4>2. \A j \in DOMAIN up : up[j].turn < turn' /\ up[j].turn <= turn'
        <5>1. \A j \in DOMAIN up : up[j].turn \in Int
          <6>1. DOMAIN up = 1..Len(up) /\ \A j \in 1..Len(up) : up[j] \in UpMsgs
            BY <1>1, LenProperties, ElementOfSeq, Zenon DEF PipesInv
          <6> QED BY <6>1 DEF UpMsgs
        <5> QED BY <1>1, <3>2, <5>1 DEF OrderInv
      <4>4. child' # "start"
        BY <3>1
      <4> QED BY <1>1, <1>2, <3>2, <4>1, <4>2, <4>4, Zenon DEF OrderInv
    <3>6. GraceInv'
      <4>1. ASSUME ~intr, NEW k \in 1..sent PROVE Answered(k)' \/ OnItsWay(k)'
        <5>1. CASE Answered(k)
          BY <1>2, <5>1, Zenon DEF Answered
        <5>2. ASSUME NEW j \in DOMAIN down, down[j].type = "followup", down[j].turn = k
              PROVE  OnItsWay(k)'
          <6>1. CASE j = 1
            BY <3>1, <5>2, <6>1, Zenon DEF OnItsWay
          <6>2. CASE j # 1
            BY <2>6, <5>2, <6>2, Zenon DEF OnItsWay
          <6> QED BY <6>1, <6>2
        <5> QED BY <1>8, <4>1, <5>1, <5>2, Zenon
      <4> QED BY <1>2, <1>3, <3>1, <4>1 DEF GraceInv
    <3>7. ResultInv'
      <4>1. Settled' /\ child' # "start"
        BY <3>1, <3>2 DEF Settled
      <4> QED BY <1>1, <1>2, <1>3, <1>4, <1>6, <1>7, <4>1, Zenon DEF ResultInv
    <3> QED BY <1>5, <2>6, <3>3, <3>4, <3>5, <3>6, <3>7, Zenon
            DEF IInv, TypeOK, Typed, Flags, Handles, Phases
  <2> QED BY <2>7, <2>8
<1> QED BY <1>10, <1>11

\* Ctrl-C: what it leaves undone is excused, and nothing else is disturbed.
LEMMA SigintKeepsInv == TypeOK /\ IInv /\ Sigint => TypeOK' /\ IInv'
<1> SUFFICES ASSUME TypeOK, IInv, Sigint PROVE TypeOK' /\ IInv'
  OBVIOUS
<1>1. /\ Typed /\ Flags /\ PipesInv /\ OrderInv /\ DownInv /\ ResultInv
  BY TypeParts, Zenon DEF IInv
<1>2. UNCHANGED <<mode, late, sent, queued, heard, down>> /\ intr'
  <2>1. UNCHANGED parent => UNCHANGED <<late, sent, queued, heard>>
    BY Zenon DEF parent
  <2> QED BY <2>1, Zenon DEF Sigint
<1>3. late' = late /\ (late' <=> late)
  <2>1. late' = late
    BY <1>2, Zenon
  <2> QED BY <2>1
<1>4. /\ h' \in Handles /\ h'.stopped = h.stopped /\ h'.got = h.got /\ h'.output = h.output
      /\ (phase' = phase /\ h' = h) \/ (phase = "reap" /\ phase' = "returned")
  <2>1. h \in Handles
    BY <1>1 DEF Typed
  <2>2. CASE UNCHANGED parent
    BY <2>1, <2>2, Zenon DEF parent
  <2>3. CASE /\ phase = "reap" /\ phase' = "returned"
             /\ \E c \in {-1, 0, 1} : h' = [h EXCEPT !.reaped = TRUE, !.exit_code = c]
    <3>1. PICK c \in {-1, 0, 1} : h' = [h EXCEPT !.reaped = TRUE, !.exit_code = c]
      BY <2>3, Zenon
    <3> QED BY <2>1, <2>3, <3>1, HandleSteps
  <2> QED BY <2>2, <2>3, Zenon DEF Sigint
<1>6. /\ child = "start" => /\ child' = "leaving" /\ code' = 1 /\ Len(up) < PipeCap
                            /\ up' = Append(up, Garbled)
      /\ child = "listen" => child' = "leaving" /\ code' = 0 /\ up' = up
      /\ child \notin {"start", "listen"} => child' = child /\ code' = code /\ up' = up
  <2>1. CASE child = "listen"
    <3>1. child # "start"
      BY <2>1
    <3> QED BY <2>1, <3>1, Zenon DEF Sigint, Leave
  <2>2. CASE child = "start"
    <3>1. child # "listen"
      BY <2>2
    <3> QED BY <2>2, <3>1, Zenon DEF Sigint, Leave, Reply
  <2>3. CASE child # "listen" /\ child # "start"
    BY <2>3, Zenon DEF Sigint, kid
  <2> QED BY <2>1, <2>2, <2>3, Zenon
<1>7. turn' = turn /\ said' = said /\ (said' <=> said)
  <2>2. CASE child = "listen" \/ child = "start"
    <3>1. CASE child = "listen"
      BY <3>1 DEF Sigint, Leave
    <3>2. CASE child = "start"
      BY <3>2 DEF Sigint, Leave
    <3> QED BY <2>2, <3>1, <3>2, Zenon
  <2>3. CASE child # "listen" /\ child # "start"
    BY <2>3, Zenon DEF Sigint, kid
  <2> QED BY <2>2, <2>3, Zenon
<1>8. /\ PipesInv' /\ OrderInv' /\ Len(up') <= PipeCap
      /\ \A j \in DOMAIN up' : (j \in DOMAIN up /\ up'[j] = up[j])
                                 \/ (up'[j].type = "garbled" /\ child = "start")
      /\ child # "start" => up' = up
  <2>1. CASE child = "start"
    <3>1. /\ Garbled \in UpMsgs /\ UpMsg(Garbled) /\ Garbled.turn = 0
          /\ Garbled.type = "garbled"
      BY UpKinds
    <3>2. turn = 0 /\ turn \in Int /\ up' = Append(up, Garbled) /\ child' = "leaving"
      BY <1>1, <1>6, <2>1 DEF OrderInv
    <3>3. down' \in Seq(DownMsgs)
      BY <1>1, <1>2, Zenon DEF PipesInv
    <3>4. /\ PipesInv' /\ OrderInv'
          /\ DOMAIN up' = 1..(Len(up) + 1) /\ DOMAIN up = 1..Len(up) /\ Len(up) \in Nat
          /\ \A k \in 1..Len(up) : up'[k] = up[k]
          /\ up'[Len(up) + 1] = Garbled
          /\ \A k \in DOMAIN up' : k \in DOMAIN up \/ k = Len(up) + 1
          /\ Len(up') = Len(up) + 1
      BY <1>1, <1>2, <1>7, <2>1, <3>1, <3>2, <3>3, ReplyKeepsPipes
    <3>5. Len(up') <= PipeCap
      BY <1>6, <2>1, <3>4, ConstantsAssumption
    <3>6. \A j \in DOMAIN up' : (j \in DOMAIN up /\ up'[j] = up[j])
                                  \/ up'[j].type = "garbled"
      BY <3>1, <3>4
    <3> QED BY <2>1, <3>4, <3>5, <3>6, Zenon
  <2>2. CASE child # "start"
    <3>1. up' = up /\ (child' = "turn" => child = "turn") /\ child' # "start"
      BY <1>6, <2>2
    <3>2. PipesInv'
      BY <1>1, <1>2, <3>1, Zenon DEF PipesInv
    <3>3. OrderInv'
      BY <1>1, <1>2, <1>7, <3>1, Zenon DEF OrderInv
    <3>4. Len(up') <= PipeCap
      BY <1>1, <3>1 DEF Typed
    <3> QED BY <3>1, <3>2, <3>3, <3>4, Zenon
  <2> QED BY <2>1, <2>2
<1>9. /\ child' \in {"start", "turn", "listen", "leaving", "exited", "killed"}
      /\ code' \in {0, 1} /\ child' # "start"
      /\ child' \in {"turn", "listen"} => child' = child
      /\ child' = "killed" => child = "killed"
      /\ child \in {"leaving", "exited", "killed"} => child' = child
  BY <1>1, <1>6 DEF Typed
<1>10. /\ phase' \in Phases /\ (phase' = "send" <=> phase = "send")
       /\ phase' \in {"wait", "drain", "check", "reap"} => phase' = phase
       /\ phase' \notin {"send", "use", "dead"} => phase \notin {"send", "use", "dead"}
  BY <1>1, <1>4 DEF Typed, Phases, Over
<1>11. Typed'
  BY <1>1, <1>2, <1>4, <1>7, <1>8, <1>9, <1>10 DEF Typed
<1>12. Flags'
  BY <1>1, <1>2, <1>3, <1>7, Zenon DEF Flags
<1>13. DownInv'
  <2>1. UNCHANGED <<turn, sent, queued, down>>
    BY <1>2, <1>7, Zenon
  <2> QED BY <1>1, <1>4, <1>9, <1>10, <2>1 DEF DownInv
<1>14. GraceInv' /\ NoChildLeftBehind'
  BY <1>2, Zenon DEF GraceInv, NoChildLeftBehind
<1>15. ResultInv'
  <2>1. Settled => Settled'
    BY <1>7, <1>9, Zenon DEF Settled
  <2>2. child = "start" => ~said /\ ~h.got
    BY <1>1, Zenon DEF ResultInv, Settled
  <2>3. said => h.output \/ \E j \in DOMAIN up' : up'[j].type = "result" /\ up'[j].text
    BY <1>1, <1>8, <2>2, Zenon DEF ResultInv
  <2>4. h.got => Settled' /\ \A j \in DOMAIN up' : up'[j].type # "result"
    BY <1>1, <1>8, <2>1, <2>2, Zenon DEF ResultInv
  <2>5. ASSUME NEW j \in DOMAIN up', up'[j].type = "garbled"
        PROVE  ~said /\ child' \in {"leaving", "exited", "killed"}
    <3>1. CASE child = "start"
      BY <1>6, <2>2, <3>1
    <3>2. CASE child # "start"
      <4>1. j \in DOMAIN up /\ up[j].type = "garbled"
        BY <1>8, <2>5, <3>2, Zenon
      <4>2. ~said /\ child \in {"leaving", "exited", "killed"}
        BY <1>1, <4>1, Zenon DEF ResultInv
      <4> QED BY <1>9, <4>2
    <3> QED BY <3>1, <3>2
  <2>6. mode = "run" /\ ~late /\ phase' \notin {"send", "use", "dead"} =>
          Settled' /\ (said => h'.output)
    BY <1>1, <1>4, <1>10, <2>1, Zenon DEF ResultInv
  <2> QED BY <1>2, <1>3, <1>4, <1>7, <1>9, <2>3, <2>4, <2>5, <2>6, Zenon DEF ResultInv
<1> QED BY <1>8, <1>11, <1>12, <1>13, <1>14, <1>15, Zenon
        DEF IInv, TypeOK, Typed, Flags, Handles, Phases
-----------------------------------------------------------------------------
LEMMA StutterKeepsInv == TypeOK /\ IInv /\ UNCHANGED vars => TypeOK' /\ IInv'
<1> SUFFICES ASSUME TypeOK, IInv, UNCHANGED vars PROVE TypeOK' /\ IInv'
  OBVIOUS
<1>1. /\ UNCHANGED <<mode, phase, h, late, sent, queued, heard, down, up, child, turn, code>>
      /\ UNCHANGED <<intr, said>>
  BY Zenon DEF vars, parent, kid
<1>2. (late' <=> late) /\ (intr' <=> intr) /\ (said' <=> said)
  BY <1>1
<1>3. Typed' /\ Flags'
  <2>1. Typed /\ Flags
    BY TypeParts, Zenon
  <2>2. Typed'
    BY <1>1, <2>1 DEF Typed
  <2>3. UNCHANGED <<late, intr, said>>
    BY Zenon DEF vars, parent, kid
  <2>4. Flags'
    BY <2>1, <2>3 DEF Flags
  <2> QED BY <2>2, <2>4
<1>4. PipesInv' /\ OrderInv' /\ DownInv'
  <2>1. PipesInv /\ OrderInv /\ DownInv
    BY Zenon DEF IInv
  <2>2. PipesInv'
    BY <1>1, <2>1, Zenon DEF PipesInv
  <2>3. OrderInv'
    BY <1>1, <2>1, Zenon DEF OrderInv
  <2>4. DownInv'
    BY <1>1, <2>1 DEF DownInv
  <2> QED BY <2>2, <2>3, <2>4
<1>5. GraceInv' /\ ResultInv' /\ NoChildLeftBehind'
  BY <1>1, <1>2, Zenon DEF IInv, GraceInv, Answered, OnItsWay, ResultInv, Settled,
     NoChildLeftBehind, Gone, Over, ExitCode
<1> QED BY <1>3, <1>4, <1>5, Zenon DEF IInv, TypeOK, Typed, Flags, Handles, Phases

LEMMA NextKeepsInv == TypeOK /\ IInv /\ [Next]_vars => TypeOK' /\ IInv'
<1> SUFFICES ASSUME TypeOK, IInv, [Next]_vars PROVE TypeOK' /\ IInv'
  OBVIOUS
<1>1. CASE Poll \/ WaitPoll
  BY <1>1, PollsKeepInv, Zenon
<1>2. CASE SendTask \/ SendFollowup \/ SendStop \/ EnterWait
  BY <1>2, WritesKeepInv, Zenon
<1>3. CASE CannotStart \/ ReadTask \/ UnknownProvider
  BY <1>3, StartKeepsInv, Zenon
<1>4. CASE Listen
  BY <1>4, ListenKeepsInv, Zenon
<1>5. CASE \E t \in BOOLEAN : EndTurn(t)
  BY <1>5, EndTurnKeepsInv
<1>6. CASE Sigint
  BY <1>6, SigintKeepsInv, Zenon
<1>7. CASE UNCHANGED vars
  BY <1>7, StutterKeepsInv, Zenon
<1> QED BY <1>1, <1>2, <1>3, <1>4, <1>5, <1>6, <1>7, QuietKeepsInv, Zenon
        DEF Next, Caller, Parent, Child

\* Every reachable state has the types of TypeOK and the inductive invariant.
THEOREM Invariance == Spec => [](TypeOK /\ IInv)
<1>1. Init => TypeOK /\ IInv
  BY InitInv
<1>2. TypeOK /\ IInv /\ [Next]_vars => TypeOK' /\ IInv'
  BY NextKeepsInv
<1> QED BY <1>1, <1>2, PTL DEF Spec

\* on_event hears the answers in the order of the instructions, each at most once
\* and none before its instruction was sent: the pipes and the child keep the order.
THEOREM InOrder == Spec => []AnswersInOrder
<1>1. TypeOK /\ IInv => AnswersInOrder
  <2> SUFFICES ASSUME Typed, PipesInv, OrderInv PROVE AnswersInOrder
    BY TypeParts, Zenon DEF IInv
  <2>1. DOMAIN heard = 1..Len(heard) /\ Len(heard) \in Nat
        /\ \A i \in 1..Len(heard) : heard[i] \in 0..Followups
    <3>1. heard \in Seq(0..Followups)
      BY Zenon DEF PipesInv
    <3> QED BY <3>1, LenProperties, ElementOfSeq
  <2>2. turn \in Int /\ sent \in Int /\ turn <= sent
    BY DEF Typed, OrderInv
  <2>3. ASSUME NEW k \in DOMAIN heard
        PROVE  heard[k] <= sent /\ \A j \in 1..(k - 1) : heard[j] < heard[k]
    <3>1. heard[k] <= turn /\ heard[k] \in Int
      BY <2>1 DEF OrderInv
    <3>2. \A j \in 1..(k - 1) : j \in DOMAIN heard /\ j < k
      BY <2>1
    <3> QED BY <2>2, <3>1, <3>2 DEF OrderInv
  <2> QED BY <2>3, Zenon DEF AnswersInOrder
<1> QED BY <1>1, Invariance, PTL

\* subagent_stop is graceful: nothing sent before the stop goes unanswered when the
\* child ends of its own accord.
THEOREM GracefulStop == Spec => []StopIsGraceful
<1>1. TypeOK /\ IInv => StopIsGraceful
  <2> SUFFICES ASSUME PipesInv, GraceInv, child = "exited", code = 0, ~intr, NEW k \in 1..queued
               PROVE  k \in ToSet(heard) \/ \E j \in DOMAIN up : up[j].turn = k
    BY Zenon DEF IInv, StopIsGraceful
  <2>1. Answered(k)
    BY DEF GraceInv
  <2> QED BY <2>1, Zenon DEF Answered, ToSet
<1> QED BY <1>1, Invariance, PTL

\* subagent_wait and subagent_abort leave no child behind unless Ctrl-C cut them
\* short, and the exit code of the handle is the child's.
THEOREM ChildIsReaped == Spec => []NoChildLeftBehind
<1>1. TypeOK /\ IInv => NoChildLeftBehind
  BY Zenon DEF IInv
<1> QED BY <1>1, Invariance, PTL

\* subagent_run loses the answer of its child to its first deadline alone.
THEOREM LostToTheDeadline == Spec => []LossOnlyWhenLate
<1>1. TypeOK /\ IInv => LossOnlyWhenLate
  <2> SUFFICES ASSUME ResultInv, mode = "run", phase = "returned", said, ~h.output
               PROVE  late
    BY Zenon DEF IInv, LossOnlyWhenLate
  <2>1. phase \notin {"send", "use", "dead"}
    OBVIOUS
  <2> QED BY <2>1, Zenon DEF ResultInv
<1> QED BY <1>1, Invariance, PTL
=============================================================================
