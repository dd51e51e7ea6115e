--------------------------- MODULE ToolExec_proofs ---------------------------
(***************************************************************************)
(* Proofs about ToolExec for every number of calls and every thread limit:  *)
(* the inductive invariant TypeOK /\ IInv, the safety properties that       *)
(* follow from it, and the refinement of ToolBatch.                         *)
(***************************************************************************)
EXTENDS ToolExec, FiniteSetTheorems, TLAPS

LEMMA InitInv == Init => TypeOK /\ IInv
<1> SUFFICES ASSUME Init PROVE TypeOK /\ IInv
  OBVIOUS
<1> USE ConstantsAssumption DEF Init, Calls, ToolKinds, Active, Passed
<1>0. parallel \in BOOLEAN /\ pc = IF parallel THEN "launch" ELSE "seq"
  OBVIOUS
<1>1. pc \in {"launch", "seq"} /\ (pc = "launch" => parallel) /\ parallel \in BOOLEAN
  <2>1. CASE parallel = TRUE
    <3>1. pc = "launch"
      BY <2>1, <1>0
    <3> QED BY <3>1, <2>1, Zenon
  <2>2. CASE parallel = FALSE
    <3>1. pc = "seq"
      BY <2>2, <1>0
    <3>2. pc # "launch"
      BY <3>1
    <3> QED BY <3>1, <3>2, <2>2, Zenon
  <2> QED BY <1>0, <2>1, <2>2
<1>2. TypeOK
  <2>1. /\ tool \in [Calls -> ToolKinds] /\ i \in 1..(N + 1)
        /\ launched \in 0..MaxThreads /\ late \in Nat
    OBVIOUS
  <2>2. /\ started \in [Calls -> BOOLEAN] /\ result \in [Calls -> BOOLEAN]
        /\ exec \in [Calls -> {"idle", "called", "handler", "returned"}]
        /\ error \in [Calls -> {"none", "tool", "interrupted"}]
        /\ intr \in BOOLEAN /\ runs \in [Calls -> Nat]
    OBVIOUS
  <2> QED BY <1>1, <2>1, <2>2, Zenon DEF TypeOK
<1>3. LoopInv /\ FreshInv /\ OneInline /\ LateInv /\ DoneInv
  BY <1>1 DEF LoopInv, FreshInv, OneInline, LateInv, DoneInv, MainFree
<1>4. JobInv
  BY <1>1 DEF JobInv
<1>5. SilenceInv
  <2>1. ~ \E c \in Calls : Passed(c)
    BY <1>1
  <2>2. pc \notin {"launch", "spawn"} => ~parallel
    OBVIOUS
  <2> QED BY <1>1, <2>1, <2>2 DEF SilenceInv
<1> QED
  BY <1>2, <1>3, <1>4, <1>5 DEF IInv

\* Each action of the calling thread keeps the state well typed and IInv.
LEMMA MainKeepsInv == TypeOK /\ IInv /\ Main => TypeOK' /\ IInv'
<1> SUFFICES ASSUME TypeOK, IInv, Main PROVE TypeOK' /\ IInv'
  OBVIOUS
<1> USE ConstantsAssumption DEF TypeOK, Calls, ToolKinds, config
<1> USE DEF IInv, LoopInv, JobInv, FreshInv, OneInline, SilenceInv, LateInv,
            DoneInv, MainFree, Active, Passed
<1>1. CASE LaunchHead
  <2>1. CASE Goto("seq", 1) /\ (i > N \/ launched >= MaxThreads \/ intr)
    <3>1. pc = "launch"
      BY <1>1 DEF LaunchHead
    <3>2. \A c \in Calls : ~Passed(c) /\ ~Passed(c)'
      BY <2>1, <3>1 DEF Goto
    <3>3. TypeOK' /\ LoopInv' /\ FreshInv' /\ OneInline' /\ LateInv' /\ DoneInv'
      BY <2>1, <3>1 DEF Goto
    <3>4. JobInv'
      BY <2>1, <3>1, <3>2 DEF Goto
    <3>5. SilenceInv'
      BY <2>1, <3>1, <3>2 DEF Goto
    <3> QED BY <3>3, <3>4, <3>5
  <2>2. CASE Goto("launch", i + 1) /\ pc = "launch" /\ i <= N /\ tool[i] = "unsafe"
    BY <2>2 DEF Goto
  <2>3. CASE Goto("spawn", i) /\ pc = "launch" /\ MainFree /\ i <= N /\ ~intr
             /\ launched < MaxThreads /\ tool[i] # "unsafe"
    BY <2>3 DEF Goto
  <2>4. pc = "launch" /\ MainFree
    BY <1>1 DEF LaunchHead
  <2>5. CASE i > N \/ launched >= MaxThreads \/ intr
    BY <1>1, <2>1, <2>5 DEF LaunchHead
  <2>6. CASE ~(i > N \/ launched >= MaxThreads \/ intr)
    <3>1. i <= N /\ launched < MaxThreads /\ ~intr
      BY <2>6
    <3>2. CASE tool[i] = "unsafe"
      BY <1>1, <2>2, <2>4, <2>6, <3>1, <3>2 DEF LaunchHead
    <3>3. CASE tool[i] # "unsafe"
      BY <1>1, <2>3, <2>4, <2>6, <3>1, <3>3 DEF LaunchHead
    <3> QED BY <3>2, <3>3
  <2> QED BY <2>5, <2>6
<1>2. CASE SpawnThread
  BY <1>2 DEF SpawnThread, Enter
<1>3. CASE SpawnFails
  BY <1>3 DEF SpawnFails, Enter
<1>4. CASE SeqHead
  <2> USE <1>4 DEF SeqHead
  <2>1. CASE i > N /\ Goto("join", i)
    BY <2>1 DEF Goto
  <2>2. CASE i <= N /\ started[i] /\ Goto("seq", i + 1)
    BY <2>2 DEF Goto
  <2>3. CASE i <= N /\ ~started[i] /\ Skip
    BY <2>3 DEF Skip
  <2>4. CASE i <= N /\ ~started[i] /\ ~intr /\ parallel /\ tool[i] = "safe"
             /\ Goto("seq", i + 1)
    BY <2>4 DEF Goto
  <2>5. CASE i <= N /\ ~started[i] /\ ~intr /\ ~(parallel /\ tool[i] = "safe")
             /\ Goto("dispatch", i)
    BY <2>5 DEF Goto
  <2> QED BY <2>1, <2>2, <2>3, <2>4, <2>5
<1>5. CASE Dispatch
  BY <1>5 DEF Dispatch, Enter
<1>6. CASE CollectAndReply
  <2> USE <1>6 DEF CollectAndReply
  <2>1. DoneInv'
    BY DEF Reply
  <2>2. TypeOK' /\ LoopInv' /\ JobInv' /\ FreshInv' /\ OneInline' /\ LateInv'
    OBVIOUS
  <2>3. SilenceInv'
    OBVIOUS
  <2> QED BY <2>1, <2>2, <2>3
<1> QED
  BY <1>1, <1>2, <1>3, <1>4, <1>5, <1>6 DEF Main

\* So does each step of tool_execute, on whichever thread, and SIGINT.
LEMMA ToolKeepsInv ==
  ASSUME TypeOK, IInv, NEW t \in Calls, Tool(t)
  PROVE  TypeOK' /\ IInv'
<1> USE ConstantsAssumption DEF TypeOK, Calls, ToolKinds, config
<1> USE DEF IInv, LoopInv, JobInv, FreshInv, OneInline, SilenceInv, LateInv,
            DoneInv, MainFree, Active, Passed
<1>1. CASE Refuse(t)
  BY <1>1 DEF Refuse
<1>2. CASE EnterHandler(t)
  BY <1>2 DEF EnterHandler
<1>3. CASE HandlerReturns(t)
  <2> USE <1>3 DEF HandlerReturns
  <2>1. CASE result' = [result EXCEPT ![t] = TRUE] /\ UNCHANGED error
    BY <2>1
  <2>2. CASE error' = [error EXCEPT ![t] = "tool"] /\ UNCHANGED result
    BY <2>2
  <2> QED BY <2>1, <2>2
<1> QED
  BY <1>1, <1>2, <1>3 DEF Tool

LEMMA InterruptKeepsInv == TypeOK /\ IInv /\ Interrupt => TypeOK' /\ IInv'
BY ConstantsAssumption
   DEF Interrupt, TypeOK, Calls, config, IInv, LoopInv, JobInv, FreshInv,
       OneInline, SilenceInv, LateInv, DoneInv, MainFree, Active, Passed, Reply

LEMMA Invariance == Spec => [](TypeOK /\ IInv)
<1>1. TypeOK /\ IInv /\ [Next]_vars => (TypeOK /\ IInv)'
  <2> SUFFICES ASSUME TypeOK, IInv, [Next]_vars PROVE TypeOK' /\ IInv'
    OBVIOUS
  <2>1. CASE UNCHANGED vars
    BY <2>1 DEF vars, config, TypeOK, IInv, LoopInv, JobInv, FreshInv, OneInline,
                SilenceInv, LateInv, DoneInv, MainFree, Active, Passed, Reply
  <2> QED
    BY <2>1, MainKeepsInv, ToolKeepsInv, InterruptKeepsInv DEF Next
<1> QED
  BY <1>1, InitInv, PTL DEF Spec

\* The state stays well typed: no loop of agent_execute_tools leaves the jobs
\* array, whatever the number of calls and threads.
THEOREM TypeCorrect == Spec => []TypeOK
BY Invariance, PTL

\* Two calls of tools that are not thread safe never run together, nor do any
\* two calls when the provider has parallel tools disabled.
THEOREM ExclusiveAloneAlways == Spec => []ExclusiveAlone
<1>1. TypeOK /\ IInv => ExclusiveAlone
  BY DEF IInv, JobInv, OneInline, ExclusiveAlone, Exclusive, Active
<1> QED
  BY <1>1, Invariance, PTL

\* No call is run twice, even one that the launch loop ran inline.
THEOREM RunsAtMostOnceAlways == Spec => []RunsAtMostOnce
<1>1. TypeOK /\ IInv => RunsAtMostOnce
  BY DEF TypeOK, IInv, JobInv, RunsAtMostOnce
<1> QED
  BY <1>1, Invariance, PTL

\* The jobs array is freed only when no thread can write into it any more.
THEOREM NoJobOutlivesBatchAlways == Spec => []NoJobOutlivesBatch
<1>1. IInv => NoJobOutlivesBatch
  BY DEF IInv, LoopInv, NoJobOutlivesBatch
<1> QED
  BY <1>1, Invariance, PTL

\* The only calls left without a result or a reason are thread-safe calls in a
\* batch that used up its threads.
THEOREM SilentOnlyPastCapAlways == Spec => []SilentOnlyPastCap
<1>1. ASSUME TypeOK, IInv, pc = "done", NEW c \in Calls,
             replies[c].is_error, replies[c].content = "none"
      PROVE  parallel /\ tool[c] = "safe" /\ launched = MaxThreads
  <2>1. ~result[c] /\ error[c] = "none"
    BY <1>1 DEF IInv, DoneInv, Reply
  <2>2. exec[c] = "idle"
    BY <1>1, <2>1 DEF TypeOK, IInv, JobInv, LoopInv, Active
  <2>3. Passed(c)
    BY <1>1 DEF Passed
  <2> QED
    BY <1>1, <2>1, <2>2, <2>3 DEF IInv, SilenceInv
<1>2. TypeOK /\ IInv => SilentOnlyPastCap
  BY <1>1 DEF SilentOnlyPastCap
<1> QED
  BY <1>2, Invariance, PTL

\* After SIGINT the calling thread dispatches at most one more call.
THEOREM AtMostOneLateDispatchAlways == Spec => []AtMostOneLateDispatch
<1>1. IInv => AtMostOneLateDispatch
  BY DEF IInv, LateInv, AtMostOneLateDispatch
<1> QED
  BY <1>1, Invariance, PTL

\* A reply says that the call was not made exactly when tool_execute was never
\* called for it, and a result stands for one run of the handler.
THEOREM RepliesAreTrueAlways == Spec => []RepliesAreTrue
<1>1. ASSUME TypeOK, IInv, pc = "done", NEW c \in Calls
      PROVE  /\ replies[c].content \in {"interrupted", "none"} <=> exec[c] = "idle"
             /\ exec[c] = "idle" => replies[c].is_error /\ runs[c] = 0
             /\ ~replies[c].is_error => runs[c] = 1
             /\ replies[c].content = "interrupted" => intr
  <2>1. replies[c] = Reply(c)
    BY <1>1 DEF IInv, DoneInv
  <2>2. /\ replies[c].is_error <=> ~result[c]
        /\ result[c] => replies[c].content = "result"
        /\ ~result[c] => replies[c].content = error[c]
    <3>1. \A b, x : [is_error |-> b, content |-> x].is_error = b
      OBVIOUS
    <3>2. replies[c].is_error <=> ~result[c]
      BY <2>1, <3>1, Zenon DEF Reply
    <3>3. /\ result[c] => replies[c].content = "result"
          /\ ~result[c] => replies[c].content = error[c]
      BY <2>1 DEF Reply
    <3> QED BY <3>2, <3>3, Zenon
  <2>3. CASE exec[c] = "idle"
    <3>1. ~result[c] /\ runs[c] = 0 /\ error[c] \in {"none", "interrupted"}
      BY <1>1, <2>3 DEF TypeOK, IInv, JobInv
    <3>2. error[c] = "interrupted" => intr
      BY <1>1 DEF IInv, JobInv
    <3>3. replies[c].is_error /\ replies[c].content = error[c]
      BY <2>2, <3>1, Zenon
    <3> QED BY <2>3, <3>1, <3>2, <3>3
  <2>4. CASE exec[c] # "idle"
    <3>1. exec[c] = "returned"
      BY <1>1, <2>4 DEF TypeOK, IInv, LoopInv, Active
    <3>2. result[c] => runs[c] = 1
      BY <1>1, Zenon DEF IInv, JobInv
    <3>3. ~result[c] => error[c] = "tool"
      BY <1>1, <3>1, Zenon DEF IInv, JobInv
    <3>4. replies[c].content = "result" \/ replies[c].content = "tool"
      BY <2>2, <3>3, Zenon
    <3>5. ~replies[c].is_error => result[c]
      BY <2>2, Zenon
    <3> QED BY <2>4, <3>2, <3>4, <3>5
  <2> QED BY <2>3, <2>4
<1>2. TypeOK /\ IInv => RepliesAreTrue
  BY <1>1 DEF RepliesAreTrue
<1> QED
  BY <1>2, Invariance, PTL

OnThreads == {c \in Calls : started[c]}

\* The counter of the launch loop counts the threads.
LaunchedInv == launched = Cardinality(OnThreads)

LEMMA OnThreadsFinite == IsFiniteSet(OnThreads)
<1>1. IsFiniteSet(1..N)
  BY ConstantsAssumption, FS_Interval
<1>2. OnThreads \in SUBSET (1..N)
  BY DEF OnThreads, Calls
<1> QED
  BY <1>1, <1>2, FS_Subset

LEMMA LaunchedInvariance == Spec => []LaunchedInv
<1>1. Init => LaunchedInv
  <2> SUFFICES ASSUME Init PROVE LaunchedInv
    OBVIOUS
  <2>1. OnThreads = {}
    BY DEF Init, OnThreads
  <2> QED
    BY <2>1, FS_EmptySet DEF Init, LaunchedInv
<1>2. TypeOK /\ IInv /\ LaunchedInv /\ [Next]_vars => LaunchedInv'
  <2> SUFFICES ASSUME TypeOK, IInv, LaunchedInv, [Next]_vars PROVE LaunchedInv'
    OBVIOUS
  <2>1. CASE SpawnThread
    <3>1. i \in Calls /\ ~started[i]
      BY <2>1, ConstantsAssumption
      DEF SpawnThread, TypeOK, Calls, IInv, LoopInv, JobInv, FreshInv
    <3>2. OnThreads' = OnThreads \cup {i}
      BY <2>1, <3>1 DEF SpawnThread, OnThreads, TypeOK, Calls
    <3>3. i \notin OnThreads
      BY <3>1 DEF OnThreads
    <3>4. Cardinality(OnThreads') = Cardinality(OnThreads) + 1
      BY <3>2, <3>3, OnThreadsFinite, FS_AddElement
    <3> QED
      BY <2>1, <3>4 DEF SpawnThread, LaunchedInv
  <2>2. CASE UNCHANGED <<started, launched>>
    BY <2>2 DEF LaunchedInv, OnThreads
  <2>3. [Next]_vars /\ ~SpawnThread => UNCHANGED <<started, launched>>
    BY DEF Next, vars, Main, LaunchHead, Goto, SpawnFails, SeqHead, Skip, Dispatch,
           CollectAndReply, Interrupt, Tool, Refuse, EnterHandler, HandlerReturns
  <2> QED
    BY <2>1, <2>2, <2>3
<1> QED
  BY <1>1, <1>2, Invariance, PTL DEF Spec

\* No batch creates more than MaxThreads threads, however many of its calls
\* failed to get one.
THEOREM ThreadsBoundedAlways == Spec => []ThreadsBounded
<1>1. TypeOK /\ LaunchedInv => ThreadsBounded
  BY ConstantsAssumption DEF TypeOK, LaunchedInv, OnThreads, ThreadsBounded
<1> QED
  BY <1>1, Invariance, LaunchedInvariance, PTL
-----------------------------------------------------------------------------
(***************************************************************************)
(* Refinement                                                               *)
(***************************************************************************)
\* A call that is in its handler is not settled yet.
Unsettled == \A c \in Calls : exec[c] = "handler" => ~Settled(c)

LEMMA RunningIsUnsettled ==
  ASSUME TypeOK, IInv, TypeOK', IInv'
  PROVE  Unsettled /\ Unsettled'
BY DEF TypeOK, IInv, JobInv, Unsettled, Settled

\* A step that settles no call and enters no handler is a stutter above.
LEMMA Stutter ==
  ASSUME Unsettled, Unsettled',
         UNCHANGED <<config, pc>> \/ (UNCHANGED config /\ pc # "done" /\ pc' # "done"),
         \A c \in Calls : (Settled(c)' <=> Settled(c)),
         \A c \in Calls : ~Settled(c) => (exec'[c] = "handler" <=> exec[c] = "handler")
  PROVE  UNCHANGED <<Exclusive, StatusBar, pc = "done">>
<1>1. Exclusive' = Exclusive
  BY DEF config, Exclusive
<1>2. StatusBar' = StatusBar
  BY DEF StatusBar, Unsettled
<1>3. (pc = "done")' = (pc = "done")
  OBVIOUS
<1> QED
  BY <1>1, <1>2, <1>3

\* A step that settles just call t is Settle(t) above.
LEMMA SettleOne ==
  ASSUME Unsettled, Unsettled',
         UNCHANGED config, pc # "done", pc' # "done",
         NEW t \in Calls, ~Settled(t), Settled(t)',
         \A c \in Calls \ {t} : (Settled(c)' <=> Settled(c)) /\ exec'[c] = exec[c]
  PROVE  Batch!Settle(t)
<1>1. Exclusive' = Exclusive
  BY DEF config, Exclusive
<1>2. StatusBar' = [StatusBar EXCEPT ![t] = "settled"]
  BY DEF StatusBar, Unsettled
<1>3. StatusBar[t] # "settled"
  BY DEF StatusBar
<1> QED
  BY <1>1, <1>2, <1>3 DEF Batch!Settle

LEMMA MainRefines ==
  TypeOK /\ IInv /\ Main => [Batch!Next]_Batch!batchVars
<1> SUFFICES ASSUME TypeOK, IInv, Main PROVE [Batch!Next]_Batch!batchVars
  OBVIOUS
<1> DEFINE Same == UNCHANGED <<Exclusive, StatusBar, pc = "done">>
<1>0. Same => [Batch!Next]_Batch!batchVars
  BY DEF Batch!batchVars
<1>00. ASSUME NEW t \in Calls, Batch!Settle(t) PROVE [Batch!Next]_Batch!batchVars
  BY <1>00 DEF Batch!Next
<1> HIDE DEF Same
<1>01. Unsettled /\ Unsettled'
  BY MainKeepsInv, RunningIsUnsettled
<1> USE ConstantsAssumption
<1>1. CASE LaunchHead
  <2>1. pc = "launch" /\ pc' \in {"launch", "spawn", "seq"} /\ (pc' = "seq" => i' = 1)
          /\ UNCHANGED <<config, exec, result, error>>
    BY <1>1 DEF LaunchHead, Goto
  <2>2. \A c \in Calls : ~Passed(c) /\ ~Passed(c)'
    BY <2>1 DEF Passed, Calls
  <2>3. Same
    BY <2>1, <2>2, <1>01, Stutter DEF Settled, Same
  <2> QED BY <2>3, <1>0
<1>2. CASE SpawnThread \/ SpawnFails \/ Dispatch
  <2>1. i \in Calls
    BY <1>2 DEF SpawnThread, SpawnFails, Dispatch, IInv, LoopInv, Calls, TypeOK
  <2>2. PICK k \in Calls : k = i
    BY <2>1
  <2>3. /\ pc \in {"spawn", "dispatch"} /\ pc' \in {"launch", "seq"}
        /\ (pc = "dispatch" <=> pc' = "seq") /\ i' = k + 1
        /\ exec' = [exec EXCEPT ![k] = "called"] /\ UNCHANGED <<config, result, error>>
    BY <1>2, <2>2 DEF SpawnThread, SpawnFails, Dispatch, Enter
  <2>4. \A c \in Calls \ {k} : (Passed(c)' <=> Passed(c)) /\ exec'[c] = exec[c]
    BY <2>2, <2>3 DEF Passed, Calls, TypeOK
  <2>5. exec[k] \in {"idle", "returned"}
    BY <1>2, <2>2, <2>3 DEF IInv, LoopInv, JobInv, FreshInv, MainFree, Active, Calls,
                            TypeOK
  <2>6. exec[k] = "idle" => ~Settled(k)
    BY <2>2, <2>3 DEF IInv, JobInv, Settled, Passed, Calls, TypeOK
  <2>7. exec[k] = "returned" => result[k] \/ error[k] # "none"
    BY DEF IInv, JobInv
  <2>8. exec'[k] = "called"
    BY <2>3 DEF TypeOK
  <2>9. Settled(k)' <=> Settled(k)
    BY <2>3, <2>5, <2>6, <2>7, <2>8 DEF Settled
  <2>10. \A c \in Calls : (Settled(c)' <=> Settled(c))
    BY <2>3, <2>4, <2>9 DEF Settled
  <2>11. \A c \in Calls : ~Settled(c) => (exec'[c] = "handler" <=> exec[c] = "handler")
    BY <2>4, <2>5, <2>8
  <2>12. Same
    BY <2>3, <2>10, <2>11, <1>01, Stutter DEF Same
  <2> QED BY <2>12, <1>0
<1>3. CASE SeqHead
  <2>0. pc = "seq" /\ MainFree
    BY <1>3 DEF SeqHead
  <2>1. CASE i > N /\ Goto("join", i)
    <3>1. \A c \in Calls : Passed(c) /\ Passed(c)'
      BY <2>0, <2>1 DEF Passed, Goto, Calls, TypeOK
    <3>2. Same
      BY <2>0, <2>1, <3>1, <1>01, Stutter DEF Settled, Goto, Same
    <3> QED BY <3>2, <1>0
  <2>2. CASE i <= N /\ Goto("dispatch", i)
    <3>1. \A c \in Calls : (Passed(c)' <=> Passed(c))
      BY <2>0, <2>2 DEF Passed, Goto
    <3>2. Same
      BY <2>0, <2>2, <3>1, <1>01, Stutter DEF Settled, Goto, Same
    <3> QED BY <3>2, <1>0
  <2>3. ASSUME NEW k \in Calls, k = i, Goto("seq", k + 1)
        PROVE  [Batch!Next]_Batch!batchVars
    <3>1. \A c \in Calls \ {k} : (Passed(c)' <=> Passed(c))
      BY <2>0, <2>3 DEF Passed, Goto, Calls, TypeOK
    <3>2. ~Passed(k) /\ Passed(k)'
      BY <2>0, <2>3 DEF Passed, Goto, Calls, TypeOK
    <3>3. \A c \in Calls \ {k} : (Settled(c)' <=> Settled(c)) /\ exec'[c] = exec[c]
      BY <2>3, <3>1 DEF Settled, Goto
    <3>4. CASE exec[k] = "idle" /\ ~result[k] /\ error[k] = "none"
      <4>1. ~Settled(k) /\ Settled(k)'
        BY <2>3, <3>2, <3>4 DEF Settled, Goto
      <4>2. UNCHANGED config /\ pc # "done" /\ pc' # "done"
        BY <2>0, <2>3 DEF Goto
      <4>3. Batch!Settle(k)
        BY <3>3, <4>1, <4>2, <1>01, SettleOne
      <4> QED BY <4>3, <1>00
    <3>5. CASE ~(exec[k] = "idle" /\ ~result[k] /\ error[k] = "none")
      <4>1. Settled(k)' <=> Settled(k)
        BY <2>3, <3>2, <3>5 DEF Settled, Goto
      <4>2. \A c \in Calls : (Settled(c)' <=> Settled(c))
        BY <3>3, <4>1
      <4>3. Same
        BY <2>0, <2>3, <4>2, <1>01, Stutter DEF Goto, Same
      <4> QED BY <4>3, <1>0
    <3> QED BY <3>4, <3>5
  <2>4. ASSUME NEW k \in Calls, k = i, Skip
        PROVE  [Batch!Next]_Batch!batchVars
    <3>1. \A c \in Calls \ {k} : (Passed(c)' <=> Passed(c)) /\ error'[c] = error[c]
      BY <2>0, <2>4 DEF Passed, Skip, Calls, TypeOK
    <3>2. error'[k] # "none"
      BY <2>4 DEF Skip, TypeOK
    <3>3. Settled(k)'
      BY <3>2 DEF Settled
    <3>4. \A c \in Calls \ {k} : (Settled(c)' <=> Settled(c)) /\ exec'[c] = exec[c]
      BY <2>4, <3>1 DEF Settled, Skip
    <3>5. UNCHANGED <<config, pc, exec>> /\ pc # "done" /\ pc' # "done"
      BY <2>0, <2>4 DEF Skip
    <3>6. CASE Settled(k)
      <4>1. \A c \in Calls : (Settled(c)' <=> Settled(c))
        BY <3>3, <3>4, <3>6
      <4>2. Same
        BY <3>5, <4>1, <1>01, Stutter DEF Same
      <4> QED BY <4>2, <1>0
    <3>7. CASE ~Settled(k)
      <4>1. Batch!Settle(k)
        BY <3>3, <3>4, <3>5, <3>7, <1>01, SettleOne
      <4> QED BY <4>1, <1>00
    <3> QED BY <3>6, <3>7
  <2>5. i <= N => \E k \in Calls : k = i
    BY DEF TypeOK, Calls
  <2> QED
    BY <1>3, <2>1, <2>2, <2>3, <2>4, <2>5 DEF SeqHead
<1>4. CASE CollectAndReply
  <2>1. pc = "join" /\ pc' = "done" /\ UNCHANGED <<config, exec, result, error>>
    BY <1>4 DEF CollectAndReply
  <2>2. \A c \in Calls : Passed(c) /\ Passed(c)'
    BY <2>1 DEF Passed
  <2>3. \A c \in Calls : exec[c] \in {"idle", "returned"}
    BY <1>4, <2>1 DEF CollectAndReply, IInv, LoopInv, MainFree, Active, TypeOK
  <2>4. \A c \in Calls : Settled(c) /\ Settled(c)'
    BY <2>1, <2>2, <2>3 DEF IInv, JobInv, Settled
  <2>5. StatusBar' = StatusBar /\ \A c \in Calls : StatusBar[c] = "settled"
    BY <2>4, <1>01 DEF StatusBar, Unsettled
  <2>6. Exclusive' = Exclusive
    BY <2>1 DEF config, Exclusive
  <2> QED BY <2>1, <2>5, <2>6 DEF Batch!Next, Batch!Publish
<1> QED
  BY <1>1, <1>2, <1>3, <1>4 DEF Main

LEMMA ToolRefines ==
  ASSUME TypeOK, IInv, NEW t \in Calls, Tool(t)
  PROVE  [Batch!Next]_Batch!batchVars
<1>1. pc # "done" /\ pc' = pc /\ i' = i /\ UNCHANGED config
  BY DEF Tool, Refuse, EnterHandler, HandlerReturns, IInv, LoopInv, Active
<1>01. Unsettled /\ Unsettled'
  BY ToolKeepsInv, RunningIsUnsettled
<1>2. \A c \in Calls : Passed(c)' <=> Passed(c)
  BY <1>1 DEF Passed
<1>3. \A c \in Calls \ {t} : /\ exec'[c] = exec[c] /\ error'[c] = error[c]
                            /\ result'[c] = result[c]
  BY DEF Tool, Refuse, EnterHandler, HandlerReturns, TypeOK
<1>4. \A c \in Calls \ {t} : (Settled(c)' <=> Settled(c)) /\ exec'[c] = exec[c]
  BY <1>2, <1>3 DEF Settled
<1>5. CASE Refuse(t) \/ HandlerReturns(t)
  <2>1. result'[t] \/ error'[t] # "none"
    BY <1>5 DEF Refuse, HandlerReturns, TypeOK
  <2>2. Settled(t)'
    BY <2>1 DEF Settled
  <2>3. CASE Settled(t)
    <3>1. exec[t] = "called" /\ exec'[t] = "returned"
      BY <1>5, <2>3 DEF Refuse, HandlerReturns, TypeOK, IInv, JobInv, Settled
    <3>2. \A c \in Calls : (Settled(c)' <=> Settled(c))
      BY <1>4, <2>2, <2>3
    <3>3. UNCHANGED <<Exclusive, StatusBar, pc = "done">>
      BY <1>1, <1>4, <3>1, <3>2, <1>01, Stutter
    <3> QED BY <3>3 DEF Batch!batchVars
  <2>4. CASE ~Settled(t)
    <3>1. Batch!Settle(t)
      BY <1>1, <1>4, <2>2, <2>4, <1>01, SettleOne
    <3> QED BY <3>1 DEF Batch!Next
  <2> QED BY <2>3, <2>4
<1>6. CASE EnterHandler(t)
  <2>1. exec[t] = "called" /\ exec'[t] = "handler" /\ UNCHANGED <<result, error>>
    BY <1>6 DEF EnterHandler, TypeOK
  <2>2. ~Settled(t) /\ ~Settled(t)'
    BY <1>6, <2>1 DEF EnterHandler, Settled, IInv, JobInv
  <2>3. StatusBar[t] = "waiting"
    BY <2>1, <2>2 DEF StatusBar
  <2>4. StatusBar' = [StatusBar EXCEPT ![t] = "running"]
    BY <1>4, <2>1, <2>2 DEF StatusBar
  <2>5. t \in Exclusive => \A d \in Exclusive : StatusBar[d] # "running"
    BY <2>1 DEF StatusBar, Exclusive, IInv, OneInline, JobInv, Active
  <2>6. Exclusive' = Exclusive
    BY <1>1 DEF config, Exclusive
  <2> QED BY <1>1, <2>3, <2>4, <2>5, <2>6 DEF Batch!Next, Batch!Start
<1> QED
  BY <1>5, <1>6 DEF Tool

\* Threads, loops, failed thread creation and interrupts together implement the
\* abstract batch: calls are settled once, exclusive calls never overlap, and
\* the results appear only when all are settled.
THEOREM Refinement == Spec => ImplementsBatch
<1>1. Init => Batch!Init
  <2> SUFFICES ASSUME Init PROVE Batch!Init
    OBVIOUS
  <2>1. pc # "done"
    BY DEF Init
  <2>2. \A c \in Calls : exec[c] = "idle" /\ ~result[c] /\ error[c] = "none"
    BY DEF Init
  <2>3. \A c \in Calls : ~Passed(c)
    BY DEF Init, Passed, Calls
  <2>4. StatusBar = [c \in Calls |-> "waiting"]
    BY <2>2, <2>3 DEF StatusBar, Settled
  <2> QED BY <2>1, <2>4 DEF Batch!Init, Exclusive
<1>2. TypeOK /\ IInv /\ [Next]_vars => [Batch!Next]_Batch!batchVars
  <2> SUFFICES ASSUME TypeOK, IInv, [Next]_vars PROVE [Batch!Next]_Batch!batchVars
    OBVIOUS
  <2>1. CASE Interrupt \/ UNCHANGED vars
    <3>1. UNCHANGED <<config, pc, i, exec, result, error>>
      BY <2>1 DEF Interrupt, vars, config
    <3>2. UNCHANGED <<Exclusive, StatusBar, pc = "done">>
      BY <3>1 DEF Exclusive, StatusBar, Settled, Passed, config
    <3> QED BY <3>2 DEF Batch!batchVars
  <2> QED
    BY <2>1, MainRefines, ToolRefines DEF Next
<1> QED
  BY <1>1, <1>2, Invariance, PTL DEF Spec, ImplementsBatch, Batch!Spec
=============================================================================
