------------------------- MODULE RecordSessionProofs -------------------------
(***************************************************************************)
(* Safety of RecordSession for every set of configurations and any number  *)
(* of Ctrl+C.                                                              *)
(***************************************************************************)
EXTENDS RecordSession, TLAPS

Steps == Final \cup {"spawn", "pause", "install", "check", "try_wait", "restore",
                     "snapshot", "terminate", "wait", "decode"}

ChildType ==
  child = [status |-> child.status, result |-> child.result, pending |-> child.pending]

\* pid_ is positive exactly while there is a child that has not been reaped.
PidIsCurrent ==
  /\ child.status \in {"none", "forked", "running", "zombie", "reaped"}
  /\ pid = IF child.status \in {"none", "reaped"} THEN "none" ELSE "child"
  /\ ~stray

\* There is a child once the command is past spawn, unless it failed or was killed.
ChildWhenPastSpawn ==
  /\ pc \in Steps
  /\ pc \notin {"spawn", "failed", "killed"} => child.status # "none"

\* sigint_handler is in place in the polling loop alone, so that no wait() is
\* interrupted.
HandlerOnlyInLoop == handler # "default" => pc \in {"check", "try_wait", "restore"}

IInv ==
  /\ ChildType
  /\ PidIsCurrent
  /\ ChildWhenPastSpawn
  /\ HandlerOnlyInLoop
  /\ RecordingHasEnded

LEMMA InitHolds == Init => IInv
BY DEF Init, ProcessInit, IInv, ChildType, PidIsCurrent, ChildWhenPastSpawn,
       HandlerOnlyInLoop, RecordingHasEnded, Steps, Final

-----------------------------------------------------------------------------
(* What the operations of BackgroundProcess do to the child *)

LEMMA SendSignalKeeps ==
  ASSUME ChildType, PidIsCurrent, NEW sig, SendSignal(sig)
  PROVE  ChildType' /\ PidIsCurrent' /\ child'.status = child.status
BY DEF ChildType, PidIsCurrent, SendSignal

LEMMA ReapKeeps ==
  ASSUME ChildType, PidIsCurrent, Reap
  PROVE  ChildType' /\ PidIsCurrent' /\ child'.status = "reaped"
BY DEF ChildType, PidIsCurrent, Reap

LEMMA WaitKeeps ==
  ASSUME ChildType, PidIsCurrent, child.status # "none", Wait
  PROVE  ChildType' /\ PidIsCurrent' /\ child'.status = "reaped"
<1>1. CASE pid = "none" /\ WaitReturns(<<-1>>)
  BY <1>1 DEF ChildType, PidIsCurrent, WaitReturns
<1>2. CASE Reap
  BY <1>2, ReapKeeps
<1>3. CASE pid = "child" /\ child.status = "reaped" /\ WaitFails
  BY <1>3 DEF PidIsCurrent
<1>4. QED
  BY <1>1, <1>2, <1>3 DEF Wait

LEMMA TryWaitKeeps ==
  ASSUME ChildType, PidIsCurrent, child.status # "none", TryWait
  PROVE  ChildType' /\ PidIsCurrent' /\ child'.status # "none"
<1>1. CASE Reap
  BY <1>1, ReapKeeps
<1>2. CASE ~Reap
  BY <1>2 DEF TryWait, ChildType, PidIsCurrent, WaitReturns
<1>3. QED
  BY <1>1, <1>2

LEMMA PerfKeeps ==
  ASSUME ChildType, PidIsCurrent, PerfStarts \/ PerfSnapshots \/ PerfStops \/ PerfEnds
  PROVE  /\ ChildType' /\ PidIsCurrent'
         /\ child.status \in {"forked", "running"}
         /\ child'.status \in {"forked", "running", "zombie"}
<1>1. ASSUME NEW result, child.status \in {"forked", "running"}, Ends(result)
      PROVE  ChildType' /\ PidIsCurrent' /\ child'.status = "zombie"
  BY <1>1 DEF Ends, ChildType, PidIsCurrent
<1>2. CASE PerfStarts
  <2>1. CASE Exec
    BY <2>1 DEF Exec, ChildType, PidIsCurrent
  <2>2. CASE ExecFails \/ KilledBeforeExec
    BY <1>1, <2>2 DEF ExecFails, KilledBeforeExec
  <2>3. QED
    BY <1>2, <2>1, <2>2 DEF PerfStarts
<1>3. CASE PerfSnapshots
  BY <1>3 DEF PerfSnapshots, ChildType, PidIsCurrent
<1>4. CASE PerfStops \/ PerfEnds
  BY <1>1, <1>4 DEF PerfStops, PerfEnds
<1>5. QED
  BY <1>2, <1>3, <1>4

-----------------------------------------------------------------------------
(* Each step keeps the invariant *)

LEMMA ToolKeeps == ASSUME IInv, ToolStep PROVE IInv'
<1>1. ASSUME UNCHANGED processVars PROVE ChildType' /\ PidIsCurrent'
  BY <1>1 DEF IInv, processVars, ChildType, PidIsCurrent
<1> USE DEF IInv, ChildWhenPastSpawn, HandlerOnlyInLoop, RecordingHasEnded, Steps, Final,
            Goto
<1>2. CASE NoPids \/ SpawnFails
  BY <1>1, <1>2 DEF NoPids, SpawnFails, processVars
<1>3. CASE Spawn
  <2>1. ChildType' /\ PidIsCurrent' /\ child'.status = "forked"
    BY <1>3 DEF Spawn, Construct, ChildType, PidIsCurrent
  <2>2. QED
    BY <1>3, <2>1 DEF Spawn
<1>4. CASE Prompt
  BY <1>1, <1>4 DEF Prompt, processVars
<1>5. CASE InstallHandler
  BY <1>1, <1>5 DEF InstallHandler, processVars
<1>6. CASE Check
  BY <1>1, <1>6 DEF Check, processVars
<1>7. CASE Poll
  BY <1>7, TryWaitKeeps DEF Poll
<1>8. CASE RestoreHandler
  BY <1>1, <1>8 DEF RestoreHandler, processVars
<1>9. CASE Snapshot
  <2>1. ChildType' /\ PidIsCurrent' /\ child'.status = child.status
    BY <1>1, <1>9, SendSignalKeeps DEF Snapshot, Signal, processVars
  <2>2. QED
    BY <1>9, <2>1 DEF Snapshot
<1>10. CASE Terminate
  <2>1. ChildType' /\ PidIsCurrent' /\ child'.status = child.status
    BY <1>10, SendSignalKeeps DEF Terminate, Signal
  <2>2. QED
    BY <1>10, <2>1 DEF Terminate
<1>11. CASE WaitForPerf
  BY <1>11, WaitKeeps DEF WaitForPerf
<1>12. CASE Decode
  BY <1>1, <1>12 DEF Decode, processVars
<1>13. QED
  BY <1>2, <1>3, <1>4, <1>5, <1>6, <1>7, <1>8, <1>9, <1>10, <1>11, <1>12 DEF ToolStep

LEMMA CtrlCKeeps == ASSUME IInv, CtrlC PROVE IInv'
<1>1. CASE handler = "default"
  BY <1>1 DEF CtrlC, Killed, IInv, processVars, ChildType, PidIsCurrent,
     ChildWhenPastSpawn, HandlerOnlyInLoop, RecordingHasEnded, Steps, Final
<1>2. CASE handler # "default"
  <2>1. pc # "wait"
    BY <1>2 DEF IInv, HandlerOnlyInLoop
  <2>2. UNCHANGED <<processVars, pc, handler>>
    BY <1>2, <2>1 DEF CtrlC, Caught
  <2>3. QED
    BY <2>2 DEF IInv, processVars, ChildType, PidIsCurrent, ChildWhenPastSpawn,
       HandlerOnlyInLoop, RecordingHasEnded
<1>3. QED
  BY <1>1, <1>2

LEMMA PerfStepKeeps == ASSUME IInv, PerfStep PROVE IInv'
<1>1. UNCHANGED <<pc, handler>>
  BY DEF PerfStep, toolVars
<1>2. /\ ChildType' /\ PidIsCurrent'
      /\ child.status \in {"forked", "running"}
      /\ child'.status \in {"forked", "running", "zombie"}
  BY PerfKeeps DEF IInv, PerfStep
<1>3. QED
  BY <1>1, <1>2 DEF IInv, ChildWhenPastSpawn, HandlerOnlyInLoop, RecordingHasEnded

LEMMA StepKeeps == IInv /\ [Next]_vars => IInv'
<1>1. SUFFICES ASSUME IInv, [Next]_vars PROVE IInv'
  OBVIOUS
<1>2. CASE UNCHANGED vars
  BY <1>1, <1>2 DEF vars, processVars, toolVars, IInv, ChildType, PidIsCurrent,
     ChildWhenPastSpawn, HandlerOnlyInLoop, RecordingHasEnded
<1>3. QED
  BY <1>1, <1>2, ToolKeeps, CtrlCKeeps, PerfStepKeeps DEF Next

LEMMA Invariance == Spec => []IInv
BY InitHolds, StepKeeps, PTL DEF Spec

-----------------------------------------------------------------------------

\* The recording is decoded or handed over only after perf has ended and been
\* reaped, for every configuration and any number of Ctrl+C.
\* (run_run, run_attach, wait)
THEOREM DecodesFinishedRecordings == Spec => []RecordingHasEnded
BY Invariance, PTL DEF IInv

\* A signal is only ever sent to the child, never to a reused process number.
\* (send_signal, wait, try_wait)
THEOREM SignalsStayWithPerf == Spec => []SignalsReachOnlyPerf
<1>1. IInv => SignalsReachOnlyPerf
  BY DEF IInv, PidIsCurrent, SignalsReachOnlyPerf
<1>2. QED
  BY <1>1, Invariance, PTL

-----------------------------------------------------------------------------
(* The signals sent, in their order *)

Asked == IF SnapshotArg = "none" THEN <<>> ELSE <<SnapshotSignal>>

Early == {"spawn", "pause", "install", "check", "try_wait", "restore", "snapshot"}

\* Nothing is sent before the snapshot; perf is asked for one, if it takes
\* them, before it is sent SIGTERM; and nothing follows.
SignalsInOrder ==
  /\ sent \in {<<>>, Asked, Append(Asked, "TERM")}
  /\ pc \in Early => sent = <<>>
  /\ pc = "terminate" => sent = IF pid = "child" THEN Asked ELSE <<>>

\* run_attach's condition is that of build_common_record_args.
LEMMA AskedWhenRecordingSnapshots ==
  (config.full_execution \/ Sampling) <=> SnapshotArg = "none"
BY DEF SnapshotArg

LEMMA SignalsInOrderInit == Init => SignalsInOrder
BY DEF Init, SignalsInOrder, Early

LEMMA SignalsInOrderStep == SignalsInOrder /\ [Next]_vars => SignalsInOrder'
<1>1. SUFFICES ASSUME SignalsInOrder, [Next]_vars PROVE SignalsInOrder'
  OBVIOUS
<1>2. config' = config /\ Asked' = Asked
  BY <1>1 DEF vars, Next, ToolStep, CtrlC, PerfStep, Asked, SnapshotArg, Sampling,
     SnapshotSignal
<1>3. ASSUME UNCHANGED <<pid, pc, sent>> PROVE SignalsInOrder'
  BY <1>1, <1>2, <1>3 DEF SignalsInOrder
<1>4. CASE ToolStep
  <2>1. CASE Snapshot
    <3>1. pc = "snapshot" /\ pc' = "terminate" /\ sent = <<>>
      BY <1>1, <2>1 DEF Snapshot, Goto, SignalsInOrder, Early
    <3>2. CASE SnapshotArg = "none"
      <4>1. sent' = sent
        BY <2>1, <3>2, AskedWhenRecordingSnapshots DEF Snapshot
      <4>2. QED
        BY <1>2, <3>1, <3>2, <4>1 DEF SignalsInOrder, Asked, Early
    <3>3. CASE SnapshotArg # "none"
      <4>1. Signal(SnapshotSignal)
        BY <2>1, <3>3, AskedWhenRecordingSnapshots DEF Snapshot
      <4>2. pid' = pid /\ sent' = IF pid = "child" THEN <<SnapshotSignal>> ELSE <<>>
        BY <3>1, <4>1 DEF Signal, SendSignal
      <4>3. QED
        BY <1>2, <3>1, <3>3, <4>2 DEF SignalsInOrder, Asked, Early
    <3>4. QED
      BY <3>2, <3>3
  <2>2. CASE Terminate
    <3>1. pc' = "wait" /\ sent = IF pid = "child" THEN Asked ELSE <<>>
      BY <1>1, <2>2 DEF Terminate, Goto, SignalsInOrder
    <3>2. sent' = IF pid = "child" THEN Append(Asked, "TERM") ELSE <<>>
      BY <2>2, <3>1 DEF Terminate, Signal
    <3>3. QED
      BY <1>2, <3>1, <3>2 DEF SignalsInOrder, Early
  <2>3. CASE ~Snapshot /\ ~Terminate
    <3>1. sent' = sent /\ pc' # "terminate" /\ (pc' \in Early => pc \in Early)
      BY <1>4, <2>3 DEF ToolStep, NoPids, Spawn, SpawnFails, Prompt, InstallHandler,
         Check, Poll, RestoreHandler, WaitForPerf, Decode, Goto, Early
    <3>2. QED
      BY <1>1, <1>2, <3>1 DEF SignalsInOrder
  <2>4. QED
    BY <2>1, <2>2, <2>3
<1>5. CASE CtrlC
  <2>1. sent' = sent /\ (UNCHANGED <<pid, pc>> \/ pc' \in {"killed", "saved", "decode"})
    BY <1>5 DEF CtrlC, Killed, Caught, processVars
  <2>2. QED
    BY <1>1, <1>2, <1>3, <2>1 DEF SignalsInOrder, Early
<1>6. CASE PerfStep
  BY <1>3, <1>6 DEF PerfStep, toolVars, PerfStarts, PerfSnapshots, PerfStops, PerfEnds,
     Exec, ExecFails, KilledBeforeExec, Ends
<1>7. CASE UNCHANGED vars
  BY <1>3, <1>7 DEF vars, processVars, toolVars
<1>8. QED
  BY <1>1, <1>4, <1>5, <1>6, <1>7 DEF Next

\* perf is told to stop only after it was asked for its snapshot, if and only if
\* it was started to take one on SIGUSR2.  (run_attach, build_common_record_args)
THEOREM SnapshotsComeFirst == Spec => []SnapshotComesFirst
<1>1. SignalsInOrder => SnapshotComesFirst
  <2>1. SUFFICES ASSUME SignalsInOrder, NEW i \in DOMAIN sent, sent[i] = "TERM"
                 PROVE  (\E j \in 1..(i - 1) : sent[j] = "USR2") <=> SnapshotArg = "--snapshot"
    BY DEF SnapshotComesFirst
  <2>2. CASE SnapshotArg = "none"
    <3>1. sent \in {<<>>, <<"TERM">>}
      BY <2>1, <2>2 DEF SignalsInOrder, Asked
    <3>2. QED
      BY <2>1, <2>2, <3>1
  <2>3. CASE SnapshotArg # "none"
    <3>1. /\ SnapshotSignal \in {"INT", "USR2"}
          /\ SnapshotSignal = "USR2" <=> SnapshotArg = "--snapshot"
      BY <2>3 DEF SnapshotSignal, SnapshotArg
    <3>2. sent \in {<<>>, <<SnapshotSignal>>, <<SnapshotSignal, "TERM">>}
      BY <2>1, <2>3 DEF SignalsInOrder, Asked
    <3>3. sent = <<SnapshotSignal, "TERM">> /\ i = 2
      BY <2>1, <3>1, <3>2
    <3>4. QED
      BY <3>1, <3>3
  <2>4. QED
    BY <2>2, <2>3
<1>2. QED
  BY <1>1, SignalsInOrderInit, SignalsInOrderStep, PTL DEF Spec
-----------------------------------------------------------------------------
(* Types.  A code that wait() returns negated is the number of a signal. *)

ResultType == [exited : BOOLEAN, code : 0..255]

ChildOfType ==
  child \in [status : {"none", "forked", "running", "zombie", "reaped"},
             result : ResultType, pending : SUBSET Signals]

SignalNumbers == ~child.result.exited => child.result.code \in 0..64

ReturnedType == returned = <<>> \/ returned[1] \in -64..255

TypeInv ==
  /\ ChildOfType /\ SignalNumbers /\ ReturnedType
  /\ pid \in {"none", "child"} /\ stray \in BOOLEAN /\ pc \in Steps
  /\ g_interrupted \in {0, 1} /\ handler \in {"default", "sigint_handler"}
  /\ sent \in Seq(Signals) /\ perf_data \in {"none", "partial", "complete"}

\* What the operations of BackgroundProcess leave of the types.
LEMMA ReapTypes ==
  ASSUME ChildOfType, SignalNumbers, ReturnedType, Reap
  PROVE  ChildOfType' /\ SignalNumbers' /\ ReturnedType' /\ pid' = "none"
<1>1. /\ child.result.code \in 0..255 /\ child.result.exited \in BOOLEAN
      /\ child'.result = child.result
  BY DEF Reap, ChildOfType, ResultType
<1>2. ExitCode(child.result) \in -64..255
  BY <1>1 DEF ExitCode, SignalNumbers
<1>3. returned'[1] = ExitCode(child.result)
  BY DEF Reap
<1> QED
  BY <1>1, <1>2, <1>3 DEF Reap, ChildOfType, SignalNumbers, ReturnedType

LEMMA WaitTypes ==
  ASSUME ChildOfType, SignalNumbers, ReturnedType, pid \in {"none", "child"},
         Wait \/ TryWait \/ WaitFails
  PROVE  /\ ChildOfType' /\ SignalNumbers' /\ ReturnedType' /\ pid' \in {"none", "child"}
         /\ stray' = stray
<1>1. CASE Reap
  BY <1>1, ReapTypes DEF Reap
<1>2. CASE WaitReturns(<<-1>>) \/ WaitReturns(<<>>) \/ WaitFails
  <2>1. returned' \in {<<-1>>, <<>>, <<0>>}
    BY <1>2 DEF WaitReturns, WaitFails
  <2>2. ReturnedType'
    BY <2>1 DEF ReturnedType
  <2>3. child' = child /\ stray' = stray /\ pid' \in {pid, "none"}
    BY <1>2 DEF WaitReturns, WaitFails
  <2> QED
    BY <2>2, <2>3 DEF ChildOfType, SignalNumbers
<1> QED
  BY <1>1, <1>2 DEF Wait, TryWait

LEMMA EndsTypes ==
  ASSUME ChildOfType, NEW result \in ResultType, ~result.exited => result.code \in 0..64,
         Ends(result)
  PROVE  ChildOfType' /\ SignalNumbers'
<1>1. child' = [status |-> "zombie", result |-> result, pending |-> {}]
  BY DEF Ends, ChildOfType
<1> QED
  BY <1>1 DEF ChildOfType, SignalNumbers

LEMMA ResultTypes ==
  /\ \A n \in 0..64 : KilledBy(n) \in ResultType /\ KilledBy(n).code \in 0..64
  /\ \A sig \in Signals : Number(sig) \in 0..64
BY DEF ExitedWith, KilledBy, ResultType, Signals, Number

LEMMA InitTypes == Init => TypeInv
<1>1. Init => sent \in Seq(Signals)
  BY DEF Init
<1>2. Init => ChildOfType /\ SignalNumbers /\ ReturnedType
  BY DEF Init, ProcessInit, ChildOfType, SignalNumbers, ReturnedType, ExitedWith, ResultType
<1> QED
  BY <1>1, <1>2 DEF TypeInv, Init, ProcessInit, Steps

LEMMA ToolTypes == ASSUME TypeInv, ToolStep PROVE TypeInv'
<1> USE DEF TypeInv
<1>1. perf_data' = perf_data
  BY DEF ToolStep
<1>2. ASSUME UNCHANGED processVars
      PROVE  /\ ChildOfType' /\ SignalNumbers' /\ ReturnedType'
             /\ pid' \in {"none", "child"} /\ stray' \in BOOLEAN
  BY <1>2 DEF processVars, ChildOfType, SignalNumbers, ReturnedType
<1>3. ASSUME NEW sig \in Signals, Signal(sig)
      PROVE  /\ ChildOfType' /\ SignalNumbers' /\ ReturnedType'
             /\ pid' \in {"none", "child"} /\ stray' \in BOOLEAN /\ sent' \in Seq(Signals)
  <2>1. sent' \in Seq(Signals)
    BY <1>3 DEF Signal
  <2>2. ChildOfType' /\ child'.result = child.result
    BY <1>3 DEF Signal, SendSignal, ChildOfType
  <2> QED
    BY <1>3, <2>1, <2>2 DEF Signal, SendSignal, SignalNumbers, ReturnedType
<1>4. CASE NoPids \/ SpawnFails \/ Prompt \/ InstallHandler \/ Check \/ RestoreHandler \/ Decode
  BY <1>1, <1>2, <1>4 DEF NoPids, SpawnFails, Prompt, InstallHandler, Check,
    RestoreHandler, Decode, Goto, Steps, Final
<1>5. CASE Spawn
  <2>1. ChildOfType' /\ SignalNumbers' /\ ReturnedType' /\ pid' = "child" /\ stray' = stray
    BY <1>5 DEF Spawn, Construct, ChildOfType, SignalNumbers, ReturnedType
  <2> QED
    BY <1>1, <1>5, <2>1 DEF Spawn, Goto, Steps
<1>6. CASE Poll
  BY <1>1, <1>6, WaitTypes DEF Poll, Steps
<1>7. CASE Snapshot
  <2>1. SnapshotSignal \in Signals
    BY DEF SnapshotSignal, Signals
  <2> QED
    BY <1>1, <1>2, <1>3, <1>7, <2>1 DEF Snapshot, Goto, Steps
<1>8. CASE Terminate
  BY <1>1, <1>3, <1>8 DEF Terminate, Goto, Steps, Signals
<1>9. CASE WaitForPerf
  BY <1>1, <1>9, WaitTypes DEF WaitForPerf, Goto, Steps, Final
<1> QED
  BY <1>4, <1>5, <1>6, <1>7, <1>8, <1>9 DEF ToolStep

LEMMA CtrlCTypes == ASSUME TypeInv, CtrlC PROVE TypeInv'
<1> USE DEF TypeInv
<1>1. CASE handler = "default"
  BY <1>1 DEF CtrlC, Killed, processVars, ChildOfType, SignalNumbers, ReturnedType, Steps, Final
<1>2. CASE handler # "default" /\ UNCHANGED <<processVars, pc>>
  BY <1>2 DEF CtrlC, Caught, processVars, ChildOfType, SignalNumbers, ReturnedType
<1>3. CASE handler # "default" /\ WaitFails /\ pc' \in {"saved", "decode"}
  BY <1>3, WaitTypes DEF CtrlC, Caught, Steps, Final
<1> QED
  BY <1>1, <1>2, <1>3 DEF CtrlC, Caught

LEMMA PerfTypes == ASSUME TypeInv, PerfStep PROVE TypeInv'
<1> USE DEF TypeInv
<1>1. /\ UNCHANGED <<pc, g_interrupted, handler, sent, pid, returned, stray>>
      /\ perf_data' \in {perf_data, "partial", "complete"}
  BY DEF PerfStep, toolVars, PerfStarts, PerfSnapshots, PerfStops, PerfEnds, Exec,
    ExecFails, KilledBeforeExec, Ends
<1>2. ChildOfType' /\ SignalNumbers'
  <2> DEFINE Good(result) ==
        result \in ResultType /\ (~result.exited => result.code \in 0..64)
  <2>5. ASSUME NEW result, Good(result), Ends(result) PROVE ChildOfType' /\ SignalNumbers'
    BY <2>5, EndsTypes
  <2>6. Good(ExitedWith(127)) /\ Good(ExitedWith(0)) /\ Good(ExitedWith(1)) /\ Good(KilledBy(9))
    BY DEF ExitedWith, KilledBy, ResultType
  <2>7. \A sig \in child.pending : Good(KilledBy(Number(sig)))
    BY ResultTypes DEF ChildOfType
  <2> HIDE DEF Good
  <2>1. CASE Exec \/ PerfSnapshots
    BY <2>1 DEF Exec, PerfSnapshots, ChildOfType, SignalNumbers
  <2>2. CASE ExecFails \/ KilledBeforeExec
    BY <2>2, <2>5, <2>6, <2>7 DEF ExecFails, KilledBeforeExec
  <2>3. CASE PerfStops
    BY <2>3, <2>5, <2>6, <2>7 DEF PerfStops
  <2>4. CASE PerfEnds
    BY <2>4, <2>5, <2>6 DEF PerfEnds
  <2> QED
    BY <2>1, <2>2, <2>3, <2>4 DEF PerfStep, PerfStarts
<1> QED
  BY <1>1, <1>2 DEF ReturnedType

\* The state of the session has its types; what wait() returns is an exit code or
\* a negated signal number.  (run_run, run_attach, wait, try_wait)
THEOREM SessionTypeOK == Spec => []TypeOK
<1>1. TypeInv /\ UNCHANGED vars => TypeInv'
  BY DEF TypeInv, ChildOfType, SignalNumbers, ReturnedType, vars, processVars, toolVars
<1>2. TypeInv /\ [Next]_vars => TypeInv'
  BY <1>1, ToolTypes, CtrlCTypes, PerfTypes DEF Next
<1>3. TypeInv => TypeOK
  BY DEF TypeInv, TypeOK, ChildOfType, ResultType, ReturnedType, Steps
<1> QED
  BY <1>2, <1>3, InitTypes, PTL DEF Spec

=============================================================================
