---------------------------- MODULE StackContexts ----------------------------
(***************************************************************************)
(* StackReconstructor on the trace of programs that really run: they call, *)
(* return, jump and enter the kernel, and parts of what they do are lost   *)
(* in gaps and decode errors.  program is what a thread does, as a sequence *)
(* of contexts: the thread itself, and each kernel entry or gap that        *)
(* interrupts the context before it.  Of each the callstack is known, how   *)
(* much of it the trace has shown, and the spans open when it was entered.  *)
(***************************************************************************)
EXTENDS StackReconstructor

CONSTANTS
  Entries,    \* how the kernel is entered: "Syscall", "HardwareInterrupt", ...
  Programs    \* the callstacks that threads have when their trace begins

ASSUME ProgramAssumption == Programs \subseteq Seq(Symbols) \ {<<>>}

VARIABLE program

programVars == <<vars, program>>

Top(t) == Last(program[t])
Running(t) == Top(t).by # "End"

\* frames[shown..] have been seen in the trace; of what a decode error made the
\* reconstructor forget, nothing is shown until an event shows it again.
Context(by, frames, shown, spans) ==
  [by |-> by, frames |-> frames, shown |-> shown, forgotten |-> FALSE, spans |-> spans]

ContextInit ==
  /\ Init
  /\ \E p \in [Threads -> Programs] :
       program = [t \in Threads |-> <<Context("Thread", p[t], Len(p[t]) + 1, <<>>)>>]

-----------------------------------------------------------------------------
(* What the program does, and the branch that the trace has of it *)

Traced(t, time_ns, kind, state, src, dst) ==
  ProcessBranch(t, time_ns, [kind |-> kind, trace_state |-> state, src |-> src, dst |-> dst])

BecomesTop(t, frames, depth) ==
  program' = [program EXCEPT ![t] = Append(Front(@),
    [Top(t) EXCEPT !.frames = frames, !.shown = Min({@, depth})])]

CallFunction(t, time_ns, dst) ==
  LET frames == Top(t).frames
  IN  /\ Running(t)
      /\ Traced(t, time_ns, "Call", "None", Last(frames), dst)
      /\ BecomesTop(t, Append(frames, dst), Len(frames))

ReturnToCaller(t, time_ns) ==
  LET callers == Front(Top(t).frames)
  IN  /\ Running(t) /\ callers # <<>>
      /\ Traced(t, time_ns, "Return", "None", Unknown, Last(callers))
      /\ BecomesTop(t, callers, Len(callers))

JumpTo(t, time_ns, dst) ==
  LET frames == Top(t).frames
  IN  /\ Running(t)
      /\ Traced(t, time_ns, "Jump", "None", Unknown, dst)
      /\ BecomesTop(t, Append(Front(frames), dst), Len(frames))

Interrupted(t, by, frames) ==
  program' = [program EXCEPT ![t] =
    Append(@, Context(by, frames, 1, ViewAfterFlush(t).open))]

EnterKernel(t, time_ns, entry, dst) ==
  /\ Running(t)
  /\ Traced(t, time_ns, entry, "None", Unknown, dst)
  /\ Interrupted(t, entry, <<dst>>)

LoseTrace(t, time_ns) ==
  /\ Running(t)
  /\ Traced(t, time_ns, "None", "End", Unknown, Unknown)
  /\ Interrupted(t, "End", <<Untraced>>)

\* The context below goes on, in the function that it was in.
Resume(t, resumed) ==
  program' = [program EXCEPT ![t] = Append(Front(Front(@)), resumed)]

Showing(c) == [c EXCEPT !.shown = Min({@, Len(c.frames)})]

LeaveKernel(t, time_ns) ==
  LET below == Last(Front(program[t]))
      kind  == IF Top(t).by = "Syscall" THEN "Sysret" ELSE "Iret"
  IN  /\ Top(t).by \in Entries
      /\ Traced(t, time_ns, kind, "None", Unknown, Last(below.frames))
      /\ Resume(t, IF below.forgotten THEN [below EXCEPT !.forgotten = FALSE]
                   ELSE Showing(below))

StartTrace(t, time_ns) ==
  \/ /\ threads[t] = NewThreadInfo
     /\ Traced(t, time_ns, "None", "Start", Unknown, Last(Top(t).frames))
     /\ BecomesTop(t, Top(t).frames, Len(Top(t).frames))
  \/ LET below == Last(Front(program[t]))
     IN  /\ Top(t).by = "End"
         /\ Traced(t, time_ns, "None", "Start", Unknown, Last(below.frames))
         /\ Resume(t, Showing(below))

Hidden(c, forgotten) ==
  [c EXCEPT !.shown = Len(c.frames) + 1, !.spans = <<>>, !.forgotten = forgotten]

\* The callstacks are closed, and all contexts but the current one lost.
LoseSync(t, time_ns) ==
  LET current == IF Running(t) THEN Len(program[t]) ELSE Len(program[t]) - 1
  IN  /\ DecodeErrorAt(t, time_ns)
      /\ program' = [program EXCEPT ![t] =
           [i \in DOMAIN @ |-> Hidden(program[t][i], i < current)]]

ContextNext ==
  \E t \in Threads, time_ns \in Times :
    \/ \E dst \in Symbols : CallFunction(t, time_ns, dst) \/ JumpTo(t, time_ns, dst)
    \/ \E entry \in Entries, dst \in Symbols : EnterKernel(t, time_ns, entry, dst)
    \/ ReturnToCaller(t, time_ns) \/ LeaveKernel(t, time_ns)
    \/ LoseTrace(t, time_ns) \/ StartTrace(t, time_ns) \/ LoseSync(t, time_ns)

ContextSpec == ContextInit /\ [][ContextNext]_programVars

-----------------------------------------------------------------------------
(* Properties *)

ShownFrames(c) == SubSeq(c.frames, c.shown, Len(c.frames))

\* The callstacks of the reconstructor are those of the program, as far as the
\* trace has shown them since it began or lost sync: none too many, none missing,
\* in every context.  (process_branch, check_current_symbol, README.md:246)
FramesMatchProgram ==
  \A t \in Threads :
    OpenFrames(threads[t]) =
      FlattenSeq([i \in DOMAIN program[t] |-> ShownFrames(program[t][i])])

\* When a thread resumes, the spans that were open when it was interrupted are
\* open still, none closed and begun again.  (trace_validation_test.cpp:283: gaps
\* do not fragment functions)
ResumesWhereInterrupted ==
  [][\A t \in Threads : Len(program'[t]) < Len(program[t]) =>
       IsPrefix(Top(t).spans, ViewAfterFlush(t)'.open)]_programVars
=============================================================================
