-------------------------- MODULE BackgroundProcess --------------------------
(***************************************************************************)
(* BackgroundProcess (lib/background_process.cpp) and the child it owns.   *)
(* The child is what the kernel knows of it: it is forked, runs, becomes a *)
(* zombie when it ends and is gone once it is reaped, from when its number *)
(* may be that of another process.  The stopped mode of the constructor is *)
(* left out: only tests use it.                                            *)
(***************************************************************************)
EXTENDS Integers

VARIABLES
  pid,       \* pid_: "none" when it is -1
  child,     \* [status, result, pending]
  returned,  \* what wait or try_wait returned last: <<code>>, or <<>> for nullopt
  stray      \* a signal was sent to a number that is no longer the child's

processVars == <<pid, child, returned, stray>>

Signals == {"INT", "USR2", "TERM"}

ExitedWith(code) == [exited |-> TRUE, code |-> code]
KilledBy(number) == [exited |-> FALSE, code |-> number]

ProcessInit ==
  /\ pid = "none"
  /\ child = [status |-> "none", result |-> ExitedWith(0), pending |-> {}]
  /\ returned = <<>>
  /\ stray = FALSE

Construct ==
  /\ pid' = "child"
  /\ child' = [child EXCEPT !.status = "forked"]
  /\ UNCHANGED <<returned, stray>>

\* kill() succeeds on a zombie, without effect.
SendSignal(sig) ==
  /\ child' = IF pid = "child" /\ child.status \in {"forked", "running"}
              THEN [child EXCEPT !.pending = @ \cup {sig}] ELSE child
  /\ stray' = (stray \/ (pid = "child" /\ child.status = "reaped"))
  /\ UNCHANGED <<pid, returned>>

\* Mutant: the wait status is not decoded.
RawStatus(result) == IF result.exited THEN result.code * 256 ELSE result.code

ExitCode(result) == IF result.exited THEN result.code ELSE -result.code

Reap ==
  /\ pid = "child" /\ child.status = "zombie"
  /\ pid' = "none"
  /\ child' = [child EXCEPT !.status = "reaped"]
  /\ returned' = <<ExitCode(child.result)>>
  /\ UNCHANGED stray

\* waitpid's failure is not looked at, and status 0 reads as an exit with 0.
WaitFails ==
  /\ pid' = "none"
  /\ returned' = <<0>>
  /\ UNCHANGED <<child, stray>>

WaitReturns(value) == returned' = value /\ UNCHANGED <<pid, child, stray>>

\* wait() blocks while the child runs.
Wait ==
  \/ pid = "none" /\ WaitReturns(<<-1>>)
  \/ Reap
  \/ pid = "child" /\ child.status = "reaped" /\ WaitFails

\* Mutants: the number is kept; the result of waitpid is not recognised.
TryWaitKeepsPid ==
  \/ /\ pid = "child" /\ child.status = "zombie"
     /\ child' = [child EXCEPT !.status = "reaped"]
     /\ returned' = <<ExitCode(child.result)>>
     /\ UNCHANGED <<pid, stray>>
  \/ pid = "child" /\ child.status # "zombie" /\ WaitReturns(<<>>)
TryWaitMissesExit == WaitReturns(<<>>)

TryWait ==
  \/ pid = "none" /\ WaitReturns(<<-1>>)
  \/ Reap
  \/ pid = "child" /\ child.status # "zombie" /\ WaitReturns(<<>>)

-----------------------------------------------------------------------------
(* The child, outside of the code: it executes its program or fails to, is  *)
(* killed by a signal before its program can handle it, or ends.            *)

Ends(result) ==
  /\ child' = [child EXCEPT !.status = "zombie", !.result = result, !.pending = {}]
  /\ UNCHANGED <<pid, returned, stray>>

Exec ==
  /\ child.status = "forked"
  /\ child' = [child EXCEPT !.status = "running"]
  /\ UNCHANGED <<pid, returned, stray>>

ExecFails == child.status = "forked" /\ Ends(ExitedWith(127))

Number(sig) == CASE sig = "INT" -> 2 [] sig = "USR2" -> 12 [] sig = "TERM" -> 15

KilledBeforeExec ==
  /\ child.status = "forked"
  /\ \E sig \in child.pending : Ends(KilledBy(Number(sig)))
=============================================================================
