---------------------------- MODULE RecordSession ----------------------------
(***************************************************************************)
(* The run and attach commands (run_run and run_attach in                  *)
(* bin/tracey_mctraceface_main.cpp): a perf record child is started, ends  *)
(* by itself or is stopped, and what it recorded is decoded or kept.  The  *)
(* user may type Ctrl+C between any two steps.  perf is in a process group *)
(* of its own, which Ctrl+C does not reach.                                *)
(***************************************************************************)
EXTENDS BackgroundProcess, Sequences

CONSTANTS
  Configs,    \* the configurations, with what detect_capabilities finds
  MaxCtrlC    \* Ctrl+C is typed so often (bound of the model)

ASSUME RecordAssumption ==
  /\ MaxCtrlC \in Nat
  /\ \A c \in Configs :
       /\ c.command \in {"run", "attach"}
       /\ {c.has_pids, c.full_execution, c.sampling, c.no_decode} \subseteq BOOLEAN
       /\ {c.has_intel_pt, c.snapshot_on_exit} \subseteq BOOLEAN

VARIABLES
  config,         \* the options and capabilities
  pc,             \* what the command is about to do
  g_interrupted,  \* g_interrupted
  handler,        \* what SIGINT does: "default" or "sigint_handler"
  sent,           \* signals sent to perf while it had not been reaped
  perf_data,      \* the recording: "none", "partial" or "complete"
  ctrl_c,         \* how often Ctrl+C was typed
  killed_at       \* the step before which Ctrl+C killed the command, or "-"

toolVars == <<pc, g_interrupted, handler, sent>>
vars == <<processVars, config, toolVars, perf_data, ctrl_c, killed_at>>

Final == {"saved", "decoded", "failed", "killed"}

Init ==
  /\ ProcessInit
  /\ config \in Configs
  /\ pc = "spawn"
  /\ g_interrupted = 0
  /\ handler = "default"
  /\ sent = <<>>
  /\ perf_data = "none"
  /\ ctrl_c = 0
  /\ killed_at = "-"

-----------------------------------------------------------------------------
(* The options that decide about snapshots *)

\* Without Intel PT the command falls back to sampling.
Sampling == config.sampling \/ ~config.has_intel_pt

\* What build_common_record_args passes to perf.
SnapshotArg ==
  IF config.full_execution \/ Sampling THEN "none"
  ELSE IF config.snapshot_on_exit THEN "--snapshot=e" ELSE "--snapshot"

\* Mutant: the other way round.
SnapshotSignalSwapped == IF config.snapshot_on_exit THEN "USR2" ELSE "INT"

SnapshotSignal == IF config.snapshot_on_exit THEN "INT" ELSE "USR2"

-----------------------------------------------------------------------------
(* The steps of the commands *)

Goto(from, to) == pc = from /\ pc' = to

Signal(sig) ==
  /\ SendSignal(sig)
  /\ sent' = IF pid = "child" THEN Append(sent, sig) ELSE sent

NoPids ==
  /\ config.command = "attach" /\ ~config.has_pids
  /\ Goto("spawn", "failed")
  /\ UNCHANGED <<processVars, g_interrupted, handler, sent>>

MaySpawn == config.command = "attach" => config.has_pids

\* run waits for perf at once, attach pauses first.
Spawn ==
  /\ MaySpawn
  /\ Goto("spawn", IF config.command = "run" THEN "wait" ELSE "pause")
  /\ Construct
  /\ UNCHANGED <<g_interrupted, handler, sent>>

\* fork fails, the constructor throws, and run() returns 1.
SpawnFails ==
  /\ MaySpawn
  /\ Goto("spawn", "failed")
  /\ UNCHANGED <<processVars, g_interrupted, handler, sent>>

\* After the pause "Press Ctrl+C to stop" is logged and the flag reset.
Prompt ==
  /\ Goto("pause", "install")
  /\ g_interrupted' = 0
  /\ UNCHANGED <<processVars, handler, sent>>

InstallHandler ==
  /\ Goto("install", "check")
  /\ handler' = "sigint_handler"
  /\ UNCHANGED <<processVars, g_interrupted, sent>>

Check ==
  /\ Goto("check", IF g_interrupted = 0 THEN "try_wait" ELSE "restore")
  /\ UNCHANGED <<processVars, g_interrupted, handler, sent>>

Poll ==
  /\ pc = "try_wait"
  /\ TryWait
  /\ pc' = IF returned' = <<>> THEN "check" ELSE "restore"
  /\ UNCHANGED <<g_interrupted, handler, sent>>

\* Mutant: sigint_handler stays.
RestoreNothing ==
  /\ Goto("restore", "snapshot")
  /\ UNCHANGED <<processVars, g_interrupted, handler, sent>>

RestoreHandler ==
  /\ Goto("restore", "snapshot")
  /\ handler' = "default"
  /\ UNCHANGED <<processVars, g_interrupted, sent>>

Snapshot ==
  /\ Goto("snapshot", "terminate")
  /\ IF config.full_execution \/ Sampling
     THEN UNCHANGED <<processVars, sent>>
     ELSE Signal(SnapshotSignal)
  /\ UNCHANGED <<g_interrupted, handler>>

\* Mutant: only a snapshot is followed by SIGTERM.
TerminateSnapshots ==
  /\ Goto("terminate", "wait")
  /\ IF config.full_execution THEN UNCHANGED <<processVars, sent>> ELSE Signal("TERM")
  /\ UNCHANGED <<g_interrupted, handler>>

Terminate ==
  /\ Goto("terminate", "wait")
  /\ Signal("TERM")
  /\ UNCHANGED <<g_interrupted, handler>>

WaitForPerf ==
  /\ Goto("wait", IF config.no_decode THEN "saved" ELSE "decode")
  /\ Wait
  /\ UNCHANGED <<g_interrupted, handler, sent>>

\* decode_perf_data, which may throw, and maybe_serve.
Decode ==
  /\ Goto("decode", "decoded") \/ Goto("decode", "failed")
  /\ UNCHANGED <<processVars, g_interrupted, handler, sent>>

ToolStep ==
  /\ \/ NoPids \/ Spawn \/ SpawnFails \/ Prompt \/ InstallHandler \/ Check \/ Poll
     \/ RestoreHandler \/ Snapshot \/ Terminate \/ WaitForPerf \/ Decode
  /\ UNCHANGED <<config, perf_data, ctrl_c, killed_at>>

-----------------------------------------------------------------------------
(* Ctrl+C: it kills the command, or sets the flag and makes a waitpid that   *)
(* blocks fail; sleep_for goes on after a signal.                           *)

Killed == pc' = "killed" /\ killed_at' = pc /\ UNCHANGED <<processVars, g_interrupted>>

Caught ==
  /\ g_interrupted' = 1
  /\ \/ UNCHANGED <<processVars, pc>>
     \/ /\ pc = "wait" /\ pid = "child" /\ child.status \in {"forked", "running"}
        /\ WaitFails
        /\ pc' = IF config.no_decode THEN "saved" ELSE "decode"
  /\ UNCHANGED killed_at

CtrlC ==
  /\ pc \notin Final /\ ctrl_c < MaxCtrlC
  /\ ctrl_c' = ctrl_c + 1
  /\ IF handler = "default" THEN Killed ELSE Caught
  /\ UNCHANGED <<config, handler, sent, perf_data>>

-----------------------------------------------------------------------------
(* perf record, outside of the code *)

PerfStarts == (Exec \/ ExecFails \/ KilledBeforeExec) /\ UNCHANGED perf_data

\* It takes a snapshot when it is asked to, and ends on SIGINT and SIGTERM,
\* with a code or, after its clean-up, by the signal.
PerfSnapshots ==
  /\ child.status = "running" /\ "USR2" \in child.pending
  /\ child' = [child EXCEPT !.pending = @ \ {"USR2"}]
  /\ UNCHANGED <<pid, returned, stray, perf_data>>

PerfStops ==
  /\ child.status = "running"
  /\ \E sig \in child.pending \ {"USR2"} :
       Ends(ExitedWith(0)) \/ Ends(KilledBy(Number(sig)))
  /\ perf_data' = "complete"

\* It ends with what it traces, on an error, or it is killed.
PerfEnds ==
  /\ child.status = "running"
  /\ \/ (Ends(ExitedWith(0)) \/ Ends(ExitedWith(1))) /\ perf_data' = "complete"
     \/ Ends(KilledBy(9)) /\ perf_data' = "partial"

PerfStep ==
  /\ PerfStarts \/ PerfSnapshots \/ PerfStops \/ PerfEnds
  /\ UNCHANGED <<config, toolVars, ctrl_c, killed_at>>

-----------------------------------------------------------------------------

Next == ToolStep \/ CtrlC \/ PerfStep

\* The command is scheduled, and so is perf: it starts, and reacts to SIGINT and
\* SIGTERM.  Nothing else has to happen: the program that perf traces may run
\* for ever and the user may never type Ctrl+C.
Fairness ==
  /\ WF_vars(ToolStep)
  /\ WF_vars(PerfStarts /\ UNCHANGED <<config, toolVars, ctrl_c, killed_at>>)
  /\ WF_vars(PerfStops /\ UNCHANGED <<config, toolVars, ctrl_c, killed_at>>)

Spec == Init /\ [][Next]_vars /\ Fairness

-----------------------------------------------------------------------------
(* Properties *)

TypeOK ==
  /\ pid \in {"none", "child"}
  /\ child \in [status : {"none", "forked", "running", "zombie", "reaped"},
                result : [exited : BOOLEAN, code : 0..255], pending : SUBSET Signals]
  /\ returned = <<>> \/ returned[1] \in -64..255
  /\ stray \in BOOLEAN
  /\ pc \in Final \cup {"spawn", "pause", "install", "check", "try_wait", "restore",
                        "snapshot", "terminate", "wait", "decode"}
  /\ g_interrupted \in {0, 1}
  /\ handler \in {"default", "sigint_handler"}
  /\ sent \in Seq(Signals)
  /\ perf_data \in {"none", "partial", "complete"}

\* perf.data is read or handed over only when perf has ended and been reaped,
\* however it ended and whenever Ctrl+C was typed.  (run_run, run_attach, wait)
RecordingHasEnded == pc \in {"decode", "saved", "decoded"} => child.status = "reaped"

\* No signal goes to a process number that may be another's.
\* (send_signal, wait, try_wait)
SignalsReachOnlyPerf == ~stray

\* perf is told to stop only after it was asked for the snapshot, if and only if
\* it was started to take one on SIGUSR2: run_attach and build_common_record_args
\* agree, though each decides for itself.
SnapshotComesFirst ==
  \A i \in DOMAIN sent : sent[i] = "TERM" =>
    ((\E j \in 1..(i - 1) : sent[j] = "USR2") <=> SnapshotArg = "--snapshot")

\* A Ctrl+C that sigint_handler has caught ends the attach command, by way of
\* the end of perf.  (run_attach)
CtrlCEndsAttach == (g_interrupted = 1) ~> (pc \in Final)

\* When perf ends, for whatever reason, the command goes on and ends.
\* (run_run, run_attach, try_wait)
EndOfPerfIsNoticed == (child.status = "zombie") ~> (pc \in Final)

AfterPrompt == {"install", "check", "try_wait", "restore", "snapshot", "terminate", "wait"}

\* Once the user is told to press Ctrl+C to stop, it never leaves behind a perf
\* that nobody has told to stop.  (tracey_mctraceface_main.cpp:351)
CtrlCStopsRecording ==
  config.command = "attach" /\ killed_at \in AfterPrompt =>
    \/ \E i \in DOMAIN sent : sent[i] \in {"INT", "TERM"}
    \/ child.status \notin {"forked", "running"}
=============================================================================
