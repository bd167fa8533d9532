-------------------------- MODULE DecodeSessionProofs --------------------------
(***************************************************************************)
(* Proofs about DecodeSession, for reports of any length, pipes and disks  *)
(* of any size.                                                            *)
(*                                                                         *)
(* Whether the pipe is open, what has become of perf script and what of    *)
(* the sink are functions of where decode_perf_data is (IInv): so nothing  *)
(* is left behind.  What perf script has printed is what has been read and *)
(* what is in the pipe (PerfInv); what that decodes to is on the disk, in  *)
(* the buffer, with the reconstructor and with the parser, in this order   *)
(* (DataInv).  That the parser, which is fed line by line, returns the     *)
(* events of TraceOf, which looks at the whole text, is FeedText and       *)
(* FinishText.  From this follow what an output without a warning holds    *)
(* and the refinement of DecodedTrace.                                     *)
(***************************************************************************)
EXTENDS DecodeSession, SequenceTheorems, TLAPS

FT == INSTANCE FoldTheorems WITH Op <- LAMBDA a, b : a

Broken == [exited |-> FALSE, code |-> 13]

\* Where the pipe is open, and where perf script is known to have ended.
PipeIsOpen == {"make_sink", "preamble", "read", "finish", "wait", "unwind", "drop_pipe"}
Ended      == {"finish", "wait", "waitpid", "return", "returned"}
ReapedAt   == {"return", "returned", "thrown"}
SinkIsOpen == {"preamble", "read", "finish", "wait", "waitpid", "return", "unwind"}
Unspawned  == {"spawn", "not_spawned"}

\* Inductive for itself; all that NothingIsLeftBehind needs.
SinkShape  == sink = [state |-> sink.state, buffer |-> sink.buffer, disk |-> sink.disk]
ChildShape == child = [status |-> child.status, result |-> child.result]
Where      == pc \in PipeIsOpen \cup SinkIsOpen \cup Unspawned
                       \cup {"returned", "drop_child", "thrown"}
Pipe       == pipe_open <=> pc \in PipeIsOpen
Child      == /\ child.status \in {"none", "forked", "running", "exiting", "zombie", "reaped"}
              /\ child.status = "none" => pc \in Unspawned
              /\ pc = "spawn" => child.status = "none"
              /\ pc \in Ended => child.status \in {"exiting", "zombie", "reaped"}
              /\ pc \in ReapedAt => child.status = "reaped"
              /\ child.result = Broken => pc \in {"drop_child", "thrown", "not_spawned"}
              /\ child.status = "none" => child.result # Broken
Sink       == sink.state = "open" <=> pc \in SinkIsOpen

IInv == SinkShape /\ ChildShape /\ Where /\ Pipe /\ Child /\ Sink

USE DEF PipeIsOpen, Ended, ReapedAt, SinkIsOpen, Unspawned

\* A write leaves the sink open or closed as it was; it fails to "unwind".
LEMMA WriteKeepsState ==
  ASSUME NEW records, NEW next, SinkShape, Write(records, next)
  PROVE  SinkShape' /\ sink'.state = sink.state /\ pc' \in {next, "unwind"}
BY DEF Write, Flushed, SinkShape

LEMMA CloseSinkCloses ==
  ASSUME SinkShape, CloseSink
  PROVE  SinkShape' /\ sink'.state = "closed"
BY DEF CloseSink, Flushed, SinkShape

LEMMA InitIInv == Init => IInv
BY DEF Init, IInv, SinkShape, ChildShape, Where, Pipe, Child, Sink, Broken

\* decode_perf_data moves on; perf script does only through Spawn and Reap.
LEMMA ToolStepIInv == IInv /\ ToolStep => IInv'
<1> SUFFICES ASSUME IInv, ToolStep PROVE IInv'
  OBVIOUS
<1> USE DEF IInv, Where, Pipe, Child, Sink, ChildShape, Goto
<1>1. CASE Spawn
  BY <1>1 DEF Spawn, dataVars, SinkShape
<1>2. CASE SpawnFails
  BY <1>2 DEF SpawnFails, dataVars, SinkShape
<1>3. CASE MakeSink
  BY <1>3 DEF MakeSink, childVars, SinkShape
<1>4. CASE WritePreamble
  BY <1>4, WriteKeepsState DEF WritePreamble, childVars
<1>5. CASE ReadLine
  BY <1>5, WriteKeepsState DEF ReadLine, Process, childVars
<1>6. CASE EndOfFile
  BY <1>6 DEF EndOfFile, WriteEndOpen, childVars, dataVars, SinkShape
<1>7. CASE FinishDecoding
  BY <1>7, WriteKeepsState DEF FinishDecoding, childVars
<1>8. CASE Wait
  BY <1>8 DEF Wait, ClosePipe, childVars, dataVars, SinkShape
<1>9. CASE WaitPid
  BY <1>9 DEF WaitPid, Reap, dataVars, SinkShape
<1>10. CASE Return
  BY <1>10, CloseSinkCloses DEF Return, childVars
<1>11. CASE Unwind
  BY <1>11, CloseSinkCloses DEF Unwind, childVars
<1>12. CASE DropPipe
  BY <1>12 DEF DropPipe, ClosePipe, childVars, dataVars, SinkShape
<1>13. CASE DropChild
  BY <1>13 DEF DropChild, Reap, dataVars, SinkShape
<1> QED
  BY <1>1, <1>2, <1>3, <1>4, <1>5, <1>6, <1>7, <1>8, <1>9, <1>10, <1>11, <1>12, <1>13
  DEF ToolStep

\* Who dies was alive: after an end of file, and in Unspawned before the fork,
\* there is nobody.  A broken pipe needs a closed one.
LEMMA DiesIInv ==
  ASSUME NEW result, IInv, Environment, child.status \in {"forked", "running"},
         child' = [status |-> "exiting", result |-> result],
         result = Broken => ~pipe_open
  PROVE  IInv'
<1>1. pc' = pc /\ pipe_open' = pipe_open /\ sink' = sink
  BY DEF Environment, dataVars
<1>2. child'.status = "exiting" /\ child'.result = result
  OBVIOUS
<1> QED
  BY <1>1, <1>2 DEF IInv, Where, Pipe, Child, Sink, ChildShape, SinkShape

\* What perf script does before it dies, and after, depends on its status alone.
LEMMA LivesOnIInv ==
  ASSUME NEW status, IInv, Environment, child' = [child EXCEPT !.status = status],
         <<child.status, status>> \in {<<"forked", "running">>, <<"exiting", "zombie">>}
  PROVE  IInv'
<1>1. child' = [status |-> status, result |-> child.result]
  BY DEF IInv, ChildShape
<1>2. pc' = pc /\ pipe_open' = pipe_open /\ sink' = sink
  BY DEF Environment, dataVars
<1> QED
  BY <1>1, <1>2 DEF IInv, Where, Pipe, Child, Sink, ChildShape, SinkShape, Broken

LEMMA PerfScriptIInv ==
  ASSUME IInv, PerfScript \/ (Killed /\ Environment)
  PROVE  IInv'
<1>1. CASE PrintLine /\ Environment
  BY <1>1 DEF PrintLine,
             IInv, Where, Pipe, Child, Sink, ChildShape, SinkShape, Environment, dataVars
<1>2. CASE Exec /\ Environment
  BY <1>2, LivesOnIInv DEF Exec
<1>3. CASE ExecFails /\ Environment
  <2>1. [exited |-> TRUE, code |-> 127] # Broken
    BY DEF Broken
  <2> QED
    BY <1>3, <2>1, DiesIInv DEF ExecFails, Dies
<1>4. CASE BrokenPipe /\ Environment
  BY <1>4, DiesIInv DEF BrokenPipe, Dies
<1>5. CASE Exit /\ Environment
  <2>1. \A code : [exited |-> TRUE, code |-> code] # Broken
    BY DEF Broken
  <2> QED
    BY <1>5, <2>1, DiesIInv DEF Exit, Dies
<1>6. CASE Exited /\ Environment
  BY <1>6, LivesOnIInv DEF Exited
<1>7. CASE Killed /\ Environment
  <2>1. [exited |-> FALSE, code |-> 9] # Broken
    BY DEF Broken
  <2> QED
    BY <1>7, <2>1, DiesIInv DEF Killed, Dies
<1> QED
  BY <1>1, <1>2, <1>3, <1>4, <1>5, <1>6, <1>7 DEF PerfScript

\* Where decode_perf_data is determines what it holds.
THEOREM SessionInvariant == Spec => []IInv
<1>1. IInv /\ UNCHANGED vars => IInv'
  BY DEF IInv, Where, Pipe, Child, Sink, ChildShape, SinkShape, vars, childVars, dataVars
<1>2. IInv /\ [Next]_vars => IInv'
  BY <1>1, ToolStepIInv, PerfScriptIInv DEF Next
<1> QED
  BY <1>2, InitIInv, PTL DEF Spec

\* However decode_perf_data ends, perf script has been reaped and pipe and file
\* are closed.  (~Subprocess, ~FileSink, wait)
THEOREM SessionLeavesNothing == Spec => []NothingIsLeftBehind
<1>1. IInv => NothingIsLeftBehind
  BY DEF IInv, Pipe, Child, Sink, NothingIsLeftBehind
<1> QED
  BY <1>1, SessionInvariant, PTL

\* perf script writes into a closed pipe only when decoding has failed.
\* (wait, ~Subprocess)
THEOREM SessionCutsOffOnFailure == Spec => []OnlyFailureCutsOff
<1>1. IInv => OnlyFailureCutsOff
  BY DEF IInv, Child, Broken, OnlyFailureCutsOff
<1> QED
  BY <1>1, SessionInvariant, PTL

-----------------------------------------------------------------------------
(* The places of the groups in the text *)

LEMMA MaxIs ==
  ASSUME NEW A \in SUBSET Int, NEW x \in A, \A y \in A : y <= x
  PROVE  Max(A) = x
<1>1. \A z \in A : (\A y \in A : z >= y) => z = x
  OBVIOUS
<1>2. x \in A /\ \A y \in A : x >= y
  OBVIOUS
<1> QED
  BY <1>1, <1>2 DEF Max

LEMMA GroupEnds ==
  ASSUME NEW T, NEW lines \in Seq(T), NEW i \in 1..Len(lines)
  PROVE  /\ GroupEnd(lines, i) \in i..Len(lines)
         /\ \A m \in i..Len(lines) :
              (\A k \in (i + 1)..m : lines[k].form = "frame") => m <= GroupEnd(lines, i)
         /\ \A k \in (i + 1)..Len(lines) :
              lines[k].form # "frame" => GroupEnd(lines, i) < k
<1> DEFINE n == Len(lines)
           A == {j \in i..n : \A k \in (i + 1)..j : lines[k].form = "frame"}
           B == {m \in Nat : n - m \in A}
<1>1. n \in Nat /\ i \in A /\ A \in SUBSET Int
  OBVIOUS
<1>2. n - i \in B /\ B \in SUBSET Nat
  BY <1>1
<1>3. PICK m \in B : \A y \in B : ~(y < m)
  BY <1>2, FT!LeastElement
<1>4. n - m \in A /\ \A y \in A : y <= n - m
  <2>1. ASSUME NEW y \in A PROVE y <= n - m
    <3>1. n - y \in Nat /\ n - (n - y) = y /\ y \in Int /\ m \in Int
      BY <1>1, <1>2, <2>1
    <3>2. n - y \in B
      BY <3>1
    <3>3. ~(n - y < m)
      BY <1>3, <3>2
    <3> HIDE DEF A, B
    <3> QED
      BY <1>1, <3>1, <3>3
  <2> QED
    BY <1>3, <2>1
<1> HIDE DEF B
<1>5. Max(A) = n - m
  <2> HIDE DEF A
  <2> QED
    BY <1>1, <1>4, MaxIs
<1>6. GroupEnd(lines, i) = Max(A)
  BY DEF GroupEnd
<1>7. GroupEnd(lines, i) \in A /\ \A y \in A : y <= GroupEnd(lines, i)
  BY <1>4, <1>5, <1>6
<1>8. ASSUME NEW y \in i..n, \A k \in (i + 1)..y : lines[k].form = "frame"
      PROVE  y <= GroupEnd(lines, i)
  <2>1. y \in A
    BY <1>8
  <2> QED
    BY <1>7, <2>1
<1>9. ASSUME NEW k \in (i + 1)..n, lines[k].form # "frame"
      PROVE  GroupEnd(lines, i) < k
  <2>1. k \notin (i + 1)..GroupEnd(lines, i)
    BY <1>7, <1>9
  <2>2. GroupEnd(lines, i) \in Int
    BY <1>7
  <2> QED
    BY <2>1, <2>2
<1> QED
  BY <1>7, <1>8, <1>9

\* A group that is over does not change when the text grows.
LEMMA GroupEndKept ==
  ASSUME NEW T, NEW lines \in Seq(T), NEW line \in T, NEW i \in 1..Len(lines),
         NEW k \in (i + 1)..Len(lines), lines[k].form # "frame"
  PROVE  GroupEnd(Append(lines, line), i) = GroupEnd(lines, i)
<1> DEFINE n == Len(lines)
           A(q) == {j \in i..Len(q) : \A l \in (i + 1)..j : q[l].form = "frame"}
           q1 == Append(lines, line)
<1>1. n \in Nat /\ Len(q1) = n + 1 /\ \A l \in 1..n : q1[l] = lines[l]
  OBVIOUS
<1> HIDE DEF q1
<1>2. ASSUME NEW j \in A(q1) PROVE j \in A(lines)
  <2>1. j \in i..(n + 1) /\ k \in 1..n /\ q1[k].form # "frame"
    BY <1>1
  <2>2. j < k
    BY <2>1
  <2>3. \A l \in (i + 1)..j : l \in 1..n
    BY <1>1, <2>1, <2>2
  <2> QED
    BY <1>1, <2>1, <2>2, <2>3
<1>3. ASSUME NEW j \in A(lines) PROVE j \in A(q1)
  <2>1. \A l \in (i + 1)..j : l \in 1..n
    BY <1>1
  <2>2. j \in i..(n + 1)
    BY <1>1
  <2> QED
    BY <1>1, <2>1, <2>2
<1>4. A(q1) = A(lines)
  BY <1>2, <1>3
<1> QED
  BY <1>4 DEF GroupEnd, q1

-----------------------------------------------------------------------------
(* Parts joined of which the last are empty *)

LEMMA FlattenNothing == FlattenSeq(<<>>) = <<>>
BY DEF FlattenSeq

LEMMA FlattenOneMore ==
  ASSUME NEW T, NEW parts \in Seq(Seq(T)), NEW part \in Seq(T)
  PROVE  /\ FlattenSeq(Append(parts, part)) = FlattenSeq(parts) \o part
         /\ FlattenSeq(parts) \in Seq(T)
BY FT!FlattenAppend, FT!FlattenType DEF FT!FlattenSeq, FlattenSeq

LEMMA FlattenTail ==
  ASSUME NEW T, NEW parts \in Seq(Seq(T)), NEW g \in 0..Len(parts),
         \A i \in (g + 1)..Len(parts) : parts[i] = <<>>
  PROVE  FlattenSeq(parts) = FlattenSeq(SubSeq(parts, 1, g))
<1> DEFINE Tailed(q, h) == (\A i \in (h + 1)..Len(q) : q[i] = <<>>)
                             => FlattenSeq(q) = FlattenSeq(SubSeq(q, 1, h))
           S == {q \in Seq(Seq(T)) : \A h \in 0..Len(q) : Tailed(q, h)}
<1>1. <<>> \in S
  <2>1. <<>> \in Seq(Seq(T)) /\ Len(<<>>) = 0 /\ SubSeq(<<>>, 1, 0) = <<>>
    OBVIOUS
  <2>2. \A h \in 0..Len(<<>>) : h = 0
    OBVIOUS
  <2> QED
    BY <2>1, <2>2
<1>2. ASSUME NEW q \in Seq(Seq(T)), NEW part \in Seq(T), q \in S
      PROVE  Append(q, part) \in S
  <2> DEFINE q1 == Append(q, part)
  <2>1. /\ q1 \in Seq(Seq(T)) /\ Len(q1) = Len(q) + 1 /\ Len(q) \in Nat
        /\ q1[Len(q) + 1] = part /\ \A i \in 1..Len(q) : q1[i] = q[i]
        /\ SubSeq(q1, 1, Len(q1)) = q1
    OBVIOUS
  <2>2. ASSUME NEW h \in 0..Len(q1), \A i \in (h + 1)..Len(q1) : q1[i] = <<>>
        PROVE  FlattenSeq(q1) = FlattenSeq(SubSeq(q1, 1, h))
    <3>1. CASE h = Len(q1)
      BY <2>1, <3>1
    <3>2. CASE h # Len(q1)
      <4>1. h \in 0..Len(q) /\ Len(q) + 1 \in (h + 1)..Len(q1)
            /\ \A i \in (h + 1)..Len(q) : i \in (h + 1)..Len(q1) /\ i \in 1..Len(q)
        BY <2>1, <3>2
      <4>2. part = <<>> /\ \A i \in (h + 1)..Len(q) : q[i] = <<>>
        BY <2>1, <2>2, <4>1
      <4>3. FlattenSeq(q) = FlattenSeq(SubSeq(q, 1, h))
        BY <1>2, <4>1, <4>2
      <4>4. SubSeq(q1, 1, h) = SubSeq(q, 1, h)
        BY <2>1, <4>1
      <4>5. FlattenSeq(q1) = FlattenSeq(q) \o part /\ FlattenSeq(q) \in Seq(T)
        BY FlattenOneMore
      <4>6. FlattenSeq(q) \o <<>> = FlattenSeq(q)
        BY <4>5
      <4> QED
        BY <4>2, <4>3, <4>4, <4>5, <4>6
    <3> QED
      BY <3>1, <3>2
  <2> HIDE DEF q1
  <2> QED
    BY <2>1, <2>2 DEF q1
<1> HIDE DEF S
<1>3. \A q \in Seq(Seq(T)) : q \in S
  BY <1>1, <1>2, FT!AppendInduction
<1> QED
  BY <1>3 DEF S

\* One part, at g, makes the difference between two sequences of parts.
LEMMA FlattenAt ==
  ASSUME NEW T, NEW p \in Seq(Seq(T)), NEW q \in Seq(Seq(T)), Len(p) <= Len(q),
         NEW g \in 1..Len(p),
         \A i \in 1..(g - 1) : q[i] = p[i],
         \A i \in g..Len(p) : p[i] = <<>>,
         \A i \in (g + 1)..Len(q) : q[i] = <<>>
  PROVE  FlattenSeq(q) = FlattenSeq(p) \o q[g]
<1>1. g - 1 \in 0..Len(p) /\ g \in 0..Len(q) /\ g - 1 + 1 = g /\ g \in 1..Len(q)
  OBVIOUS
<1>2. FlattenSeq(p) = FlattenSeq(SubSeq(p, 1, g - 1))
  BY <1>1, FlattenTail
<1>3. FlattenSeq(q) = FlattenSeq(SubSeq(q, 1, g))
  BY <1>1, FlattenTail
<1>4. SubSeq(q, 1, g) = Append(SubSeq(p, 1, g - 1), q[g])
  <2>1. /\ SubSeq(p, 1, g - 1) = [i \in 1..(g - 1) |-> p[i]]
        /\ SubSeq(q, 1, g) = [i \in 1..g |-> q[i]]
    BY <1>1
  <2>2. Len(SubSeq(p, 1, g - 1)) = g - 1
    BY <1>1
  <2> QED
    BY <1>1, <2>1, <2>2, SMTT(30)
<1>5. SubSeq(p, 1, g - 1) \in Seq(Seq(T)) /\ q[g] \in Seq(T)
  BY <1>1
<1>6. FlattenSeq(Append(SubSeq(p, 1, g - 1), q[g])) = FlattenSeq(SubSeq(p, 1, g - 1)) \o q[g]
  BY <1>5, FlattenOneMore
<1> QED
  BY <1>2, <1>3, <1>4, <1>6

LEMMA FlattenSame ==
  ASSUME NEW T, NEW p \in Seq(Seq(T)), NEW q \in Seq(Seq(T)), Len(q) = Len(p) + 1,
         \A i \in 1..Len(p) : q[i] = p[i], q[Len(p) + 1] = <<>>
  PROVE  FlattenSeq(q) = FlattenSeq(p)
<1>1. Len(p) \in 0..Len(q) /\ \A i \in (Len(p) + 1)..Len(q) : q[i] = <<>>
  OBVIOUS
<1>2. SubSeq(q, 1, Len(p)) = p
  OBVIOUS
<1>3. FlattenSeq(q) = FlattenSeq(SubSeq(q, 1, Len(p)))
  BY <1>1, FlattenTail
<1> QED
  BY <1>2, <1>3

-----------------------------------------------------------------------------
(* What the parser holds back, and what it makes of one more line *)

Records == {Preamble} \cup {ParseGroup(q)[1] : q \in Seq(Printable)}

Parts(lines, complete) == [i \in DOMAIN lines |-> EventAt(lines, complete, i)]

LEMMA ReconstructedType ==
  ASSUME NEW q \in Seq(Printable)
  PROVE  Reconstructed(ParseGroup(q)) \in Seq(Records)
<1>1. ParseGroup(q)[1] \in Records
  BY DEF Records
<1> QED
  BY <1>1 DEF Reconstructed

LEMMA PartsType ==
  ASSUME NEW lines \in Seq(Printable), NEW complete
  PROVE  Parts(lines, complete) \in Seq(Seq(Records))
<1>1. ASSUME NEW i \in DOMAIN lines PROVE EventAt(lines, complete, i) \in Seq(Records)
  <2>1. GroupEnd(lines, i) \in i..Len(lines)
    BY GroupEnds
  <2>2. SubSeq(lines, i, GroupEnd(lines, i)) \in Seq(Printable)
    BY <2>1
  <2>3. Reconstructed(ParseGroup(SubSeq(lines, i, GroupEnd(lines, i)))) \in Seq(Records)
    BY <2>2, ReconstructedType
  <2> QED
    BY <2>3 DEF EventAt
<1>2. Parts(lines, complete) \in [1..Len(lines) -> Seq(Records)] /\ Len(lines) \in Nat
  BY <1>1 DEF Parts
<1> QED
  BY <1>2

LEMMA PartsShape ==
  ASSUME NEW lines \in Seq(Printable), NEW complete
  PROVE  /\ Len(Parts(lines, complete)) = Len(lines)
         /\ \A i \in 1..Len(lines) : Parts(lines, complete)[i] = EventAt(lines, complete, i)
BY DEF Parts

LEMMA TraceType ==
  ASSUME NEW lines \in Seq(Printable), NEW complete
  PROVE  TraceOf(lines, complete) \in Seq(Records)
<1>1. FlattenSeq(Parts(lines, complete)) \in Seq(Records)
  <2>1. <<>> \in Seq(Records)
    OBVIOUS
  <2> QED
    BY <2>1, PartsType, FlattenOneMore
<1>2. <<Preamble>> \in Seq(Records)
  BY DEF Records
<1> QED
  BY <1>1, <1>2 DEF TraceOf, Parts

\* The parser holds no lines after a blank one, else those of the last group.
GroupFrom(lines, g) ==
  /\ Begins(lines, g)
  /\ \A k \in (g + 1)..Len(lines) : lines[k].form = "frame"

Holds(lines, acc) ==
  \/ acc = <<>> /\ (lines = <<>> \/ lines[Len(lines)].form = "blank")
  \/ \E g \in 1..Len(lines) : GroupFrom(lines, g) /\ acc = SubSeq(lines, g, Len(lines))

LEMMA HoldsType ==
  ASSUME NEW lines \in Seq(Printable), NEW acc, Holds(lines, acc)
  PROVE  acc \in Seq(Printable)
<1>1. \A g \in 1..Len(lines) : SubSeq(lines, g, Len(lines)) \in Seq(Printable)
  OBVIOUS
<1>2. <<>> \in Seq(Printable)
  OBVIOUS
<1> QED
  BY <1>1, <1>2, Zenon DEF Holds

\* The event of a group that is over.
LEMMA Settled ==
  ASSUME NEW lines \in Seq(Printable), NEW i \in 1..Len(lines),
         ~Begins(lines, i) \/ \E k \in (i + 1)..Len(lines) : lines[k].form # "frame"
  PROVE  /\ \A line \in Printable :
              EventAt(Append(lines, line), FALSE, i) = EventAt(lines, FALSE, i)
         /\ EventAt(lines, TRUE, i) = EventAt(lines, FALSE, i)
<1> DEFINE n == Len(lines)
<1>1. ASSUME NEW line \in Printable
      PROVE  /\ Len(Append(lines, line)) = n + 1
             /\ Begins(Append(lines, line), i) <=> Begins(lines, i)
  <2>1. Append(lines, line)[i] = lines[i] /\ (i # 1 => Append(lines, line)[i - 1] = lines[i - 1])
    OBVIOUS
  <2> QED
    BY <2>1 DEF Begins
<1>2. CASE ~Begins(lines, i)
  BY <1>1, <1>2 DEF EventAt
<1>3. CASE \E k \in (i + 1)..n : lines[k].form # "frame"
  <2>1. PICK k \in (i + 1)..n : lines[k].form # "frame"
    BY <1>3
  <2>2. GroupEnd(lines, i) \in i..n /\ GroupEnd(lines, i) < n /\ GroupEnd(lines, i) < n + 1
    <3>1. GroupEnd(lines, i) \in i..n /\ GroupEnd(lines, i) < k
      BY <2>1, GroupEnds
    <3> QED
      BY <3>1
  <2>3. ASSUME NEW line \in Printable
        PROVE  EventAt(Append(lines, line), FALSE, i) = EventAt(lines, FALSE, i)
    <3>1. GroupEnd(Append(lines, line), i) = GroupEnd(lines, i)
      BY <2>1, GroupEndKept
    <3>2. SubSeq(Append(lines, line), i, GroupEnd(lines, i)) = SubSeq(lines, i, GroupEnd(lines, i))
      BY <2>2
    <3> QED
      BY <1>1, <2>2, <3>1, <3>2 DEF EventAt
  <2> QED
    BY <2>2, <2>3 DEF EventAt
<1> QED
  BY <1>2, <1>3

\* All that precedes a group is settled, what follows it begins none, and it is
\* itself held back.
LEMMA AroundGroup ==
  ASSUME NEW lines \in Seq(Printable), NEW g \in 1..Len(lines), GroupFrom(lines, g)
  PROVE  /\ \A i \in 1..(g - 1) :
              ~Begins(lines, i) \/ \E k \in (i + 1)..Len(lines) : lines[k].form # "frame"
         /\ \A i \in (g + 1)..Len(lines) : ~Begins(lines, i)
         /\ GroupEnd(lines, g) = Len(lines)
         /\ EventAt(lines, FALSE, g) = <<>>
         /\ EventAt(lines, TRUE, g) = Reconstructed(ParseGroup(SubSeq(lines, g, Len(lines))))
<1>1. /\ lines[g].form # "blank"
      /\ lines[g].form = "frame" => g = 1 \/ lines[g - 1].form = "blank"
      /\ \A k \in (g + 1)..Len(lines) : lines[k].form = "frame"
  BY DEF GroupFrom, Begins
<1>2. ASSUME NEW i \in 1..(g - 1)
      PROVE  ~Begins(lines, i) \/ \E k \in (i + 1)..Len(lines) : lines[k].form # "frame"
  <2>1. CASE lines[g].form # "frame"
    <3>1. g \in (i + 1)..Len(lines)
      OBVIOUS
    <3> QED
      BY <2>1, <3>1
  <2>2. CASE lines[g].form = "frame"
    <3>1. lines[g - 1].form = "blank" /\ "blank" # "frame"
      BY <1>1, <2>2
    <3>2. CASE i = g - 1
      BY <3>1, <3>2 DEF Begins
    <3>3. CASE i # g - 1
      <4>1. g - 1 \in (i + 1)..Len(lines)
        BY <3>3
      <4> QED
        BY <3>1, <4>1
    <3> QED
      BY <3>2, <3>3
  <2> QED
    BY <2>1, <2>2
<1>3. ASSUME NEW i \in (g + 1)..Len(lines) PROVE ~Begins(lines, i)
  <2>1. i # 1 /\ (i - 1 = g \/ i - 1 \in (g + 1)..Len(lines))
    OBVIOUS
  <2>2. lines[i].form = "frame" /\ lines[i - 1].form # "blank"
    BY <1>1, <2>1
  <2> QED
    BY <2>1, <2>2 DEF Begins
<1>4. GroupEnd(lines, g) = Len(lines)
  <2>1. GroupEnd(lines, g) \in g..Len(lines) /\ Len(lines) \in g..Len(lines)
    BY GroupEnds
  <2>2. Len(lines) <= GroupEnd(lines, g)
    BY <1>1, <2>1, GroupEnds
  <2> QED
    BY <2>1, <2>2
<1>5. ~(Len(lines) < Len(lines))
  OBVIOUS
<1>6. EventAt(lines, FALSE, g) = <<>>
  BY <1>4, <1>5 DEF EventAt
<1>7. EventAt(lines, TRUE, g) = Reconstructed(ParseGroup(SubSeq(lines, g, Len(lines))))
  BY <1>4 DEF EventAt, GroupFrom
<1> QED
  BY <1>2, <1>3, <1>4, <1>6, <1>7

\* After a blank line all is settled.
LEMMA AfterBlank ==
  ASSUME NEW lines \in Seq(Printable), lines = <<>> \/ lines[Len(lines)].form = "blank"
  PROVE  \A i \in 1..Len(lines) :
           ~Begins(lines, i) \/ \E k \in (i + 1)..Len(lines) : lines[k].form # "frame"
<1> SUFFICES ASSUME NEW i \in 1..Len(lines)
             PROVE  ~Begins(lines, i) \/ \E k \in (i + 1)..Len(lines) : lines[k].form # "frame"
  OBVIOUS
<1>1. lines[Len(lines)].form = "blank" /\ "blank" # "frame"
  OBVIOUS
<1>2. CASE i = Len(lines)
  BY <1>1, <1>2 DEF Begins
<1>3. CASE i # Len(lines)
  <2>1. Len(lines) \in (i + 1)..Len(lines)
    BY <1>3
  <2> QED
    BY <1>1, <2>1
<1> QED
  BY <1>2, <1>3

LEMMA NoEvent == Reconstructed(<<>>) = <<>> /\ ParseGroup(<<>>) = <<>>
BY DEF Reconstructed, ParseGroup

\* The last line is never part of an event that is complete.
LEMMA LastIsHeldBack ==
  ASSUME NEW lines \in Seq(Printable), NEW line \in Printable
  PROVE  EventAt(Append(lines, line), FALSE, Len(lines) + 1) = <<>>
<1> DEFINE n == Len(lines)
           q == Append(lines, line)
<1>1. q \in Seq(Printable) /\ Len(q) = n + 1 /\ n + 1 \in 1..Len(q) /\ n \in Nat
  OBVIOUS
<1>2. GroupEnd(q, n + 1) \in (n + 1)..Len(q)
  BY <1>1, GroupEnds
<1>3. ~(GroupEnd(q, n + 1) < Len(q))
  BY <1>1, <1>2
<1> QED
  BY <1>3 DEF EventAt

\* Finishing: the group that is held back, if any, is the last event.
LEMMA FinishText ==
  ASSUME NEW lines \in Seq(Printable), NEW acc, Holds(lines, acc)
  PROVE  TraceOf(lines, TRUE) = TraceOf(lines, FALSE) \o Reconstructed(ParseGroup(acc))
<1> DEFINE p == Parts(lines, FALSE)
           q == Parts(lines, TRUE)
           event == Reconstructed(ParseGroup(acc))
<1>1. /\ p \in Seq(Seq(Records)) /\ q \in Seq(Seq(Records))
      /\ Len(p) = Len(lines) /\ Len(q) = Len(lines) /\ Len(lines) \in Nat
      /\ \A i \in 1..Len(lines) : /\ p[i] = EventAt(lines, FALSE, i)
                                  /\ q[i] = EventAt(lines, TRUE, i)
  <2>1. p \in Seq(Seq(Records)) /\ q \in Seq(Seq(Records))
    BY PartsType
  <2>2. Len(p) = Len(lines) /\ \A i \in 1..Len(lines) : p[i] = EventAt(lines, FALSE, i)
    BY PartsShape
  <2>3. Len(q) = Len(lines) /\ \A i \in 1..Len(lines) : q[i] = EventAt(lines, TRUE, i)
    BY PartsShape
  <2>4. Len(lines) \in Nat
    OBVIOUS
  <2> HIDE DEF p, q
  <2> QED
    BY <2>1, <2>2, <2>3, <2>4, Zenon
<1> HIDE DEF p, q
<1>2. FlattenSeq(q) = FlattenSeq(p) \o event
  <2>1. CASE acc = <<>> /\ (lines = <<>> \/ lines[Len(lines)].form = "blank")
    <3>1. \A i \in 1..Len(lines) : EventAt(lines, TRUE, i) = EventAt(lines, FALSE, i)
      BY <2>1, AfterBlank, Settled
    <3>2. p = q
      <4>1. DOMAIN lines = 1..Len(lines)
        OBVIOUS
      <4> QED
        BY <3>1, <4>1 DEF p, q, Parts
    <3>3. event = <<>> /\ FlattenSeq(p) \in Seq(Records)
      <4>1. <<>> \in Seq(Records)
        OBVIOUS
      <4> QED
        BY <1>1, <2>1, <4>1, NoEvent, FlattenOneMore
    <3> HIDE DEF event
    <3> QED
      BY <3>2, <3>3
  <2>2. ASSUME NEW g \in 1..Len(lines), GroupFrom(lines, g), acc = SubSeq(lines, g, Len(lines))
        PROVE  FlattenSeq(q) = FlattenSeq(p) \o event
    <3>1. g \in 1..Len(p) /\ \A i \in 1..(g - 1) : i \in 1..Len(lines)
      BY <1>1
    <3>2. \A i \in 1..(g - 1) : q[i] = p[i]
      BY <1>1, <2>2, <3>1, AroundGroup, Settled
    <3>3. p[g] = <<>> /\ q[g] = event
      BY <1>1, <2>2, AroundGroup
    <3>4. \A i \in (g + 1)..Len(lines) : p[i] = <<>> /\ q[i] = <<>>
      <4>1. \A i \in (g + 1)..Len(lines) : ~Begins(lines, i)
        BY <2>2, AroundGroup
      <4>2. \A i \in (g + 1)..Len(lines) : i \in 1..Len(lines)
        OBVIOUS
      <4> QED
        BY <1>1, <4>1, <4>2 DEF EventAt
    <3>5. \A i \in g..Len(lines) : i = g \/ i \in (g + 1)..Len(lines)
      OBVIOUS
    <3>6. \A i \in g..Len(p) : p[i] = <<>>
      BY <1>1, <3>3, <3>4, <3>5
    <3>7. Len(p) <= Len(q) /\ \A i \in (g + 1)..Len(q) : q[i] = <<>>
      BY <1>1, <3>4
    <3>8. p \in Seq(Seq(Records)) /\ q \in Seq(Seq(Records))
      BY <1>1
    <3>9. FlattenSeq(q) = FlattenSeq(p) \o q[g]
      BY <3>1, <3>2, <3>6, <3>7, <3>8, FlattenAt
    <3> QED
      BY <3>3, <3>9
  <2> QED
    BY <2>1, <2>2 DEF Holds
<1>3. <<Preamble>> \in Seq(Records) /\ event \in Seq(Records)
  <2>1. acc \in Seq(Printable)
    BY HoldsType
  <2> QED
    BY <2>1, ReconstructedType DEF Records
<1>4. FlattenSeq(p) \in Seq(Records)
  <2>1. <<>> \in Seq(Records)
    OBVIOUS
  <2> QED
    BY <1>1, <2>1, FlattenOneMore
<1> HIDE DEF event
<1>5. <<Preamble>> \o (FlattenSeq(p) \o event) = (<<Preamble>> \o FlattenSeq(p)) \o event
  BY <1>3, <1>4
<1>6. /\ TraceOf(lines, TRUE) = <<Preamble>> \o FlattenSeq(q)
      /\ TraceOf(lines, FALSE) = <<Preamble>> \o FlattenSeq(p)
  BY DEF TraceOf, Parts, p, q
<1> QED
  BY <1>2, <1>5, <1>6 DEF event

LEMMA FedLine ==
  ASSUME NEW acc, NEW line
  PROVE  /\ line.form = "frame" =>
              FeedLine(acc, line).lines = Append(acc, line) /\ FeedLine(acc, line).event = <<>>
         /\ line.form # "frame" => FeedLine(acc, line).event = ParseGroup(acc)
         /\ line.form = "blank" => FeedLine(acc, line).lines = <<>>
         /\ line.form \notin {"blank", "frame"} => FeedLine(acc, line).lines = <<line>>
BY DEF FeedLine, FlushAccumulated

LEMMA Appended ==
  ASSUME NEW lines \in Seq(Printable), NEW line \in Printable
  PROVE  /\ Append(lines, line) \in Seq(Printable)
         /\ Len(lines) \in Nat /\ Len(Append(lines, line)) = Len(lines) + 1
         /\ Append(lines, line)[Len(lines) + 1] = line
         /\ \A i \in 1..Len(lines) : Append(lines, line)[i] = lines[i]
OBVIOUS

LEMMA BeginsKept ==
  ASSUME NEW lines \in Seq(Printable), NEW line \in Printable, NEW i \in 1..Len(lines)
  PROVE  Begins(Append(lines, line), i) <=> Begins(lines, i)
<1>1. Append(lines, line)[i] = lines[i] /\ (i # 1 => Append(lines, line)[i - 1] = lines[i - 1])
  OBVIOUS
<1> QED
  BY <1>1 DEF Begins

\* A frame continues the last group.
LEMMA GroupGoesOn ==
  ASSUME NEW lines \in Seq(Printable), NEW line \in Printable, line.form = "frame",
         NEW g \in 1..Len(lines), GroupFrom(lines, g)
  PROVE  GroupFrom(Append(lines, line), g)
<1>1. Begins(Append(lines, line), g)
  BY BeginsKept DEF GroupFrom
<1>2. ASSUME NEW k \in (g + 1)..(Len(lines) + 1) PROVE Append(lines, line)[k].form = "frame"
  <2>1. CASE k = Len(lines) + 1
    BY <2>1, Appended
  <2>2. CASE k # Len(lines) + 1
    <3>1. k \in (g + 1)..Len(lines) /\ k \in 1..Len(lines)
      BY <2>2
    <3> QED
      BY <3>1, Appended DEF GroupFrom
  <2> QED
    BY <2>1, <2>2
<1> QED
  BY <1>1, <1>2, Appended DEF GroupFrom

\* The lines that are held back after one more.
LEMMA FeedHolds ==
  ASSUME NEW lines \in Seq(Printable), NEW line \in Printable, NEW acc, Holds(lines, acc)
  PROVE  Holds(Append(lines, line), FeedLine(acc, line).lines)
<1> DEFINE n == Len(lines)
           q == Append(lines, line)
<1>1. /\ q \in Seq(Printable) /\ n \in Nat /\ Len(q) = n + 1 /\ q[n + 1] = line
      /\ \A i \in 1..n : q[i] = lines[i]
  BY Appended
<1>2. SubSeq(q, n + 1, n + 1) = <<line>>
  <2> DEFINE s == SubSeq(q, n + 1, n + 1)
  <2>1. s \in Seq(Printable) /\ Len(s) = 1 /\ s[1] = line
    <3> HIDE DEF q
    <3> QED
      BY <1>1
  <2> HIDE DEF s
  <2>2. s = <<line>>
    BY <2>1
  <2> QED
    BY <2>2 DEF s
<1>3. CASE line.form = "blank"
  BY <1>1, <1>3, FedLine DEF Holds
<1>4. ASSUME Begins(q, n + 1) PROVE Holds(q, <<line>>)
  <2>1. n + 1 \in 1..Len(q) /\ \A k \in (n + 1 + 1)..Len(q) : q[k].form = "frame"
    BY <1>1
  <2>2. GroupFrom(q, n + 1)
    BY <1>4, <2>1 DEF GroupFrom
  <2> HIDE DEF q
  <2> QED
    BY <1>1, <1>2, <2>1, <2>2 DEF Holds
<1>5. CASE line.form \notin {"blank", "frame"}
  <2>1. Begins(q, n + 1)
    BY <1>1, <1>5 DEF Begins
  <2> QED
    BY <1>4, <1>5, <2>1, FedLine
<1>6. CASE line.form = "frame"
  <2>1. CASE acc = <<>> /\ (lines = <<>> \/ lines[n].form = "blank")
    <3>1. n + 1 = 1 \/ q[n + 1 - 1].form = "blank"
      BY <1>1, <2>1
    <3>2. Begins(q, n + 1)
      BY <1>1, <1>6, <3>1 DEF Begins
    <3>3. Append(acc, line) = <<line>>
      BY <2>1
    <3> QED
      BY <1>4, <1>6, <3>2, <3>3, FedLine
  <2>2. ASSUME NEW g \in 1..n, GroupFrom(lines, g), acc = SubSeq(lines, g, n)
        PROVE  Holds(q, FeedLine(acc, line).lines)
    <3>1. GroupFrom(q, g)
      BY <1>6, <2>2, GroupGoesOn
    <3>2. Append(acc, line) = SubSeq(q, g, n + 1)
      BY <2>2
    <3>3. g \in 1..Len(q)
      BY <1>1
    <3>4. FeedLine(acc, line).lines = SubSeq(q, g, Len(q))
      BY <1>1, <1>6, <3>2, FedLine
    <3> QED
      BY <3>1, <3>3, <3>4 DEF Holds
  <2> QED
    BY <2>1, <2>2 DEF Holds
<1> QED
  BY <1>3, <1>5, <1>6

\* What is fed into the parser shows up in the trace of the text.
LEMMA FeedParts ==
  ASSUME NEW lines \in Seq(Printable), NEW line \in Printable, NEW acc, Holds(lines, acc)
  PROVE  FlattenSeq(Parts(Append(lines, line), FALSE))
           = FlattenSeq(Parts(lines, FALSE)) \o Reconstructed(FeedLine(acc, line).event)
<1> DEFINE n == Len(lines)
           more == Append(lines, line)
           p == Parts(lines, FALSE)
           q == Parts(more, FALSE)
           event == Reconstructed(FeedLine(acc, line).event)
<1>1. /\ more \in Seq(Printable) /\ n \in Nat /\ Len(more) = n + 1 /\ more[n + 1] = line
      /\ \A i \in 1..n : more[i] = lines[i]
  BY Appended
<1>2. p \in Seq(Seq(Records)) /\ q \in Seq(Seq(Records))
  BY <1>1, PartsType
<1>3. Len(p) = n /\ \A i \in 1..n : p[i] = EventAt(lines, FALSE, i)
  BY PartsShape
<1>4. /\ Len(q) = n + 1 /\ \A i \in 1..n : q[i] = EventAt(more, FALSE, i)
      /\ q[n + 1] = EventAt(more, FALSE, n + 1)
  <2>1. Len(q) = Len(more) /\ \A i \in 1..Len(more) : q[i] = EventAt(more, FALSE, i)
    BY <1>1, PartsShape
  <2>2. n + 1 \in 1..(n + 1) /\ \A i \in 1..n : i \in 1..(n + 1)
    BY <1>1
  <2> HIDE DEF n, q, more
  <2> QED
    BY <1>1, <2>1, <2>2
<1>5. q[n + 1] = <<>>
  BY <1>4, LastIsHeldBack
<1>6. FlattenSeq(p) \in Seq(Records)
  <2>1. <<>> \in Seq(Records)
    OBVIOUS
  <2> QED
    BY <1>2, <2>1, FlattenOneMore
<1>7. ASSUME event = <<>>, \A i \in 1..n : q[i] = p[i]
      PROVE  FlattenSeq(q) = FlattenSeq(p) \o event
  <2> HIDE DEF p, q, event
  <2>1. FlattenSeq(q) = FlattenSeq(p)
    BY <1>2, <1>3, <1>4, <1>5, <1>7, FlattenSame
  <2> QED
    BY <1>6, <1>7, <2>1
<1>8. CASE acc = <<>> /\ (lines = <<>> \/ lines[n].form = "blank")
  <2>1. event = <<>>
    BY <1>8, NoEvent, FedLine
  <2>2. \A i \in 1..n : EventAt(more, FALSE, i) = EventAt(lines, FALSE, i)
    BY <1>8, AfterBlank, Settled
  <2> QED
    BY <1>3, <1>4, <1>7, <2>1, <2>2
<1>9. ASSUME NEW g \in 1..n, GroupFrom(lines, g), acc = SubSeq(lines, g, n)
      PROVE  FlattenSeq(q) = FlattenSeq(p) \o event
  <2>1. \A i \in 1..(g - 1) : i \in 1..n /\ q[i] = p[i]
    <3>1. \A i \in 1..(g - 1) : i \in 1..n
      BY <1>1
    <3> QED
      BY <1>3, <1>4, <1>9, <3>1, AroundGroup, Settled
  <2>2. \A i \in (g + 1)..n : i \in 1..n /\ q[i] = <<>> /\ p[i] = <<>>
    <3>1. \A i \in (g + 1)..n : i \in 1..n
      BY <1>1
    <3>2. \A i \in (g + 1)..n : ~Begins(lines, i)
      BY <1>9, AroundGroup
    <3>3. \A i \in (g + 1)..n : EventAt(lines, FALSE, i) = <<>> /\ EventAt(more, FALSE, i) = <<>>
      BY <3>1, <3>2, BeginsKept DEF EventAt
    <3> QED
      BY <1>3, <1>4, <3>1, <3>3
  <2>3. p[g] = <<>>
    BY <1>3, <1>9, AroundGroup
  <2>4. CASE line.form = "frame"
    <3>1. GroupFrom(more, g) /\ g \in 1..Len(more)
      BY <1>1, <1>9, <2>4, GroupGoesOn
    <3>2. q[g] = <<>>
      BY <1>1, <1>4, <3>1, AroundGroup
    <3>3. \A i \in 1..n : i \in 1..(g - 1) \/ i = g \/ i \in (g + 1)..n
      OBVIOUS
    <3>4. \A i \in 1..n : q[i] = p[i]
      BY <2>1, <2>2, <2>3, <3>2, <3>3, Zenon
    <3>5. event = <<>>
      BY <2>4, NoEvent, FedLine
    <3> QED
      BY <1>7, <3>4, <3>5
  <2>5. CASE line.form # "frame"
    <3>1. GroupEnd(more, g) = n
      <4>1. /\ g \in 1..Len(more) /\ n + 1 \in (g + 1)..Len(more) /\ n \in g..Len(more)
            /\ more[n + 1].form # "frame"
        BY <1>1, <2>5
      <4>2. GroupEnd(more, g) \in g..Len(more) /\ GroupEnd(more, g) < n + 1
        BY <1>1, <4>1, GroupEnds
      <4>3. \A k \in (g + 1)..n : more[k].form = "frame"
        BY <1>1, <1>9 DEF GroupFrom
      <4>4. n <= GroupEnd(more, g)
        BY <1>1, <4>1, <4>3, GroupEnds
      <4> QED
        BY <1>1, <4>2, <4>4
    <3>2. SubSeq(more, g, n) = acc
      BY <1>1, <1>9
    <3>3. Begins(more, g)
      BY <1>9, BeginsKept DEF GroupFrom
    <3>4. n < Len(more)
      BY <1>1
    <3>5. q[g] = event
      BY <1>4, <2>5, <3>1, <3>2, <3>3, <3>4, FedLine DEF EventAt
    <3> HIDE DEF p, q, event, more
    <3>6. g \in 1..Len(p) /\ Len(p) <= Len(q)
      BY <1>1, <1>3, <1>4
    <3>7. \A i \in g..Len(p) : p[i] = <<>>
      <4>1. \A i \in g..n : i = g \/ i \in (g + 1)..n
        OBVIOUS
      <4> QED
        BY <1>3, <2>2, <2>3, <4>1
    <3>8. \A i \in (g + 1)..Len(q) : q[i] = <<>>
      <4>1. \A i \in (g + 1)..(n + 1) : i = n + 1 \/ i \in (g + 1)..n
        BY <1>1
      <4> QED
        BY <1>4, <1>5, <2>2, <4>1
    <3>9. FlattenSeq(q) = FlattenSeq(p) \o q[g]
      BY <1>2, <2>1, <3>6, <3>7, <3>8, FlattenAt
    <3> QED
      BY <3>5, <3>9
  <2> QED
    BY <2>4, <2>5
<1> QED
  BY <1>8, <1>9 DEF Holds

LEMMA FeedText ==
  ASSUME NEW lines \in Seq(Printable), NEW line \in Printable, NEW acc, Holds(lines, acc)
  PROVE  /\ Holds(Append(lines, line), FeedLine(acc, line).lines)
         /\ TraceOf(Append(lines, line), FALSE)
              = TraceOf(lines, FALSE) \o Reconstructed(FeedLine(acc, line).event)
         /\ Reconstructed(FeedLine(acc, line).event) \in Seq(Records)
<1> DEFINE p == FlattenSeq(Parts(lines, FALSE))
           event == Reconstructed(FeedLine(acc, line).event)
<1>1. FlattenSeq(Parts(Append(lines, line), FALSE)) = p \o event
  BY FeedParts
<1>2. p \in Seq(Records) /\ <<Preamble>> \in Seq(Records)
  <2>1. <<>> \in Seq(Records)
    OBVIOUS
  <2>2. p \in Seq(Records)
    BY <2>1, PartsType, FlattenOneMore
  <2>3. <<Preamble>> \in Seq(Records)
    BY DEF Records
  <2> QED
    BY <2>2, <2>3, Zenon
<1>3. event \in Seq(Records)
  <2>1. acc \in Seq(Printable)
    BY HoldsType
  <2>2. Reconstructed(ParseGroup(acc)) \in Seq(Records)
    BY <2>1, ReconstructedType
  <2>3. Reconstructed(<<>>) \in Seq(Records)
    <3>1. <<>> \in Seq(Records)
      OBVIOUS
    <3> QED
      BY <3>1, NoEvent, Zenon
  <2> QED
    BY <2>2, <2>3, FedLine
<1> HIDE DEF p, event
<1>4. <<Preamble>> \o (p \o event) = (<<Preamble>> \o p) \o event
  BY <1>2, <1>3
<1>5. /\ TraceOf(Append(lines, line), FALSE)
           = <<Preamble>> \o FlattenSeq(Parts(Append(lines, line), FALSE))
      /\ TraceOf(lines, FALSE) = <<Preamble>> \o p
  BY DEF TraceOf, Parts, p
<1> QED
  BY <1>1, <1>3, <1>4, <1>5, FeedHolds DEF event

-----------------------------------------------------------------------------
(* The beginning of a sequence, and the rest of it *)

LEMMA MinIs ==
  ASSUME NEW a \in Int, NEW b \in Int
  PROVE  Min({a, b}) = IF a <= b THEN a ELSE b
<1>1. CASE a <= b
  <2>1. \A x \in {a, b} : (\A y \in {a, b} : x <= y) => x = a
    BY <1>1
  <2>2. a \in {a, b} /\ \A y \in {a, b} : a <= y
    BY <1>1
  <2> QED
    BY <1>1, <2>1, <2>2 DEF Min
<1>2. CASE ~(a <= b)
  <2>1. \A x \in {a, b} : (\A y \in {a, b} : x <= y) => x = b
    BY <1>2
  <2>2. b \in {a, b} /\ \A y \in {a, b} : b <= y
    BY <1>2
  <2> QED
    BY <1>2, <2>1, <2>2 DEF Min
<1> QED
  BY <1>1, <1>2

LEMMA FirstAndRest ==
  ASSUME NEW T, NEW seq \in Seq(T), NEW n \in Nat
  PROVE  /\ First(seq, n) \in Seq(T) /\ Rest(seq, n) \in Seq(T)
         /\ First(seq, n) \o Rest(seq, n) = seq
         /\ Len(First(seq, n)) <= n
<1>1. CASE n <= Len(seq)
  <2>1. First(seq, n) = SubSeq(seq, 1, n)
    BY <1>1, MinIs DEF First
  <2>2. /\ SubSeq(seq, 1, n) \in Seq(T) /\ Len(SubSeq(seq, 1, n)) = n
        /\ SubSeq(seq, n + 1, Len(seq)) \in Seq(T)
    BY <1>1
  <2> DEFINE a == SubSeq(seq, 1, n)
             b == SubSeq(seq, n + 1, Len(seq))
  <2>3. a \o b = seq
    <3>1. 1 \in 1..(Len(seq) + 1) /\ n \in (1 - 1)..Len(seq) /\ Len(seq) \in n..Len(seq)
      BY <1>1
    <3>2. a \o b = SubSeq(seq, 1, Len(seq))
      BY <3>1, ConcatAdjacentSubSeq
    <3>3. SubSeq(seq, 1, Len(seq)) = seq
      OBVIOUS
    <3> QED
      BY <3>2, <3>3, Zenon
  <2>4. First(seq, n) = a /\ Rest(seq, n) = b /\ Len(a) <= n
    BY <2>1, <2>2 DEF Rest
  <2>5. a \in Seq(T) /\ b \in Seq(T)
    BY <2>2
  <2> HIDE DEF a, b
  <2> QED
    BY <2>3, <2>4, <2>5
<1>2. CASE ~(n <= Len(seq))
  <2>1. First(seq, n) = SubSeq(seq, 1, Len(seq))
    BY <1>2, MinIs DEF First
  <2>2. SubSeq(seq, 1, Len(seq)) = seq /\ Rest(seq, n) = <<>> /\ seq \o <<>> = seq
    BY <1>2 DEF Rest
  <2> QED
    BY <1>2, <2>1, <2>2
<1> QED
  BY <1>1, <1>2

\* What is written of a buffer to fill the disk up is the beginning of the whole.
LEMMA FirstOfJoined ==
  ASSUME NEW T, NEW s \in Seq(T), NEW t \in Seq(T), NEW n \in Nat, Len(s) <= n
  PROVE  s \o First(t, n - Len(s)) = First(s \o t, n)
<1>1. n - Len(s) \in Nat /\ Len(s \o t) = Len(s) + Len(t) /\ Len(s) \in Nat /\ Len(t) \in Nat
  OBVIOUS
<1>2. CASE n <= Len(s) + Len(t)
  <2>1. First(s \o t, n) = SubSeq(s \o t, 1, n)
    BY <1>1, <1>2, MinIs DEF First
  <2>2. n - Len(s) <= Len(t)
    BY <1>1, <1>2
  <2>3. First(t, n - Len(s)) = SubSeq(t, 1, n - Len(s))
    BY <1>1, <2>2, MinIs DEF First
  <2>4. s \o SubSeq(t, 1, n - Len(s)) = SubSeq(s \o t, 1, n)
    BY <1>1, <1>2
  <2> QED
    BY <2>1, <2>3, <2>4
<1>3. CASE ~(n <= Len(s) + Len(t))
  <2>1. First(s \o t, n) = SubSeq(s \o t, 1, Len(s) + Len(t))
    BY <1>1, <1>3, MinIs DEF First
  <2>2. ~(n - Len(s) <= Len(t))
    BY <1>1, <1>3
  <2>3. First(t, n - Len(s)) = SubSeq(t, 1, Len(t))
    BY <1>1, <2>2, MinIs, SMTT(30) DEF First
  <2>4. SubSeq(t, 1, Len(t)) = t /\ SubSeq(s \o t, 1, Len(s) + Len(t)) = s \o t
    BY <1>1
  <2> QED
    BY <2>1, <2>3, <2>4
<1> QED
  BY <1>2, <1>3

Starts(s, t) == \E r \in Seq(Records) : t = s \o r

LEMMA StartsIsPrefix ==
  ASSUME NEW s \in Seq(Records), NEW t \in Seq(Records), Starts(s, t)
  PROVE  IsPrefix(s, t)
BY DEF Starts, IsPrefix

LEMMA StartsItself ==
  ASSUME NEW s \in Seq(Records)
  PROVE  Starts(s, s)
<1>1. s = s \o <<>> /\ <<>> \in Seq(Records)
  OBVIOUS
<1> QED
  BY <1>1 DEF Starts

LEMMA StartsStarts ==
  ASSUME NEW s \in Seq(Records), NEW t, NEW w, Starts(s, t), Starts(t, w)
  PROVE  Starts(s, w)
<1>1. PICK r \in Seq(Records) : t = s \o r
  BY DEF Starts
<1>2. PICK u \in Seq(Records) : w = t \o u
  BY DEF Starts
<1>3. (s \o r) \o u = s \o (r \o u) /\ r \o u \in Seq(Records)
  OBVIOUS
<1> QED
  BY <1>1, <1>2, <1>3, Zenon DEF Starts

-----------------------------------------------------------------------------
(* The sink: disk and buffer, taken together, grow by what is written. *)

SinkTypes ==
  /\ sink.disk \in Seq(Records) /\ sink.buffer \in Seq(Records)
  /\ room \in Nat /\ Len(sink.disk) <= room

Handed == sink.disk \o sink.buffer

LEMMA FlushSome ==
  ASSUME NEW disk \in Seq(Records), NEW buffer \in Seq(Records), NEW n \in Nat,
         NEW capacity \in Nat, Len(disk) <= capacity, n <= capacity - Len(disk)
  PROVE  /\ disk \o First(buffer, n) \in Seq(Records) /\ Rest(buffer, n) \in Seq(Records)
         /\ Len(disk \o First(buffer, n)) <= capacity
         /\ (disk \o First(buffer, n)) \o Rest(buffer, n) = disk \o buffer
         /\ Starts(disk, disk \o First(buffer, n))
         /\ Starts(disk \o First(buffer, n), disk \o buffer)
<1> DEFINE f == First(buffer, n)
           r == Rest(buffer, n)
<1>1. f \in Seq(Records) /\ r \in Seq(Records) /\ f \o r = buffer /\ Len(f) <= n
  BY FirstAndRest
<1> HIDE DEF f, r
<1>2. disk \o f \in Seq(Records) /\ Len(disk \o f) = Len(disk) + Len(f) /\ Len(f) \in Nat
  BY <1>1
<1>3. Len(disk \o f) <= capacity
  BY <1>1, <1>2
<1>4. (disk \o f) \o r = disk \o (f \o r)
  <2>1. disk \in Seq(Records) /\ f \in Seq(Records) /\ r \in Seq(Records)
    BY <1>1
  <2> QED
    BY <2>1, SMTT(30)
<1>5. Starts(disk, disk \o f)
  BY <1>1 DEF Starts
<1>6. Starts(disk \o f, disk \o buffer)
  BY <1>1, <1>4 DEF Starts
<1> QED
  BY <1>1, <1>2, <1>3, <1>4, <1>5, <1>6 DEF f, r

LEMMA FlushedData ==
  ASSUME NEW buffer \in Seq(Records), NEW n \in Nat, SinkShape, SinkTypes,
         n <= room - Len(sink.disk), sink' = Flushed(buffer, n), room' = room
  PROVE  SinkTypes' /\ Handed' = sink.disk \o buffer /\ Starts(sink.disk, sink'.disk)
<1>1. sink'.disk = sink.disk \o First(buffer, n) /\ sink'.buffer = Rest(buffer, n)
  BY DEF Flushed, SinkShape
<1>2. PICK disk, capacity : disk = sink.disk /\ capacity = room
  OBVIOUS
<1>3. /\ disk \in Seq(Records) /\ capacity \in Nat /\ Len(disk) <= capacity
      /\ n <= capacity - Len(disk)
  BY <1>2 DEF SinkTypes
<1>4. /\ disk \o First(buffer, n) \in Seq(Records) /\ Rest(buffer, n) \in Seq(Records)
      /\ Len(disk \o First(buffer, n)) <= capacity
      /\ (disk \o First(buffer, n)) \o Rest(buffer, n) = disk \o buffer
      /\ Starts(disk, disk \o First(buffer, n))
  BY <1>3, FlushSome
<1>5. sink'.disk = disk \o First(buffer, n) /\ sink'.buffer = Rest(buffer, n)
  BY <1>1, <1>2, Zenon
<1>6. SinkTypes'
  BY <1>2, <1>3, <1>4, <1>5 DEF SinkTypes
<1> QED
  BY <1>2, <1>4, <1>5, <1>6, Zenon DEF Handed

LEMMA WriteData ==
  ASSUME NEW records \in Seq(Records), NEW next, SinkShape, SinkTypes,
         Write(records, next), room' = room
  PROVE  /\ SinkTypes' /\ Handed' = Handed \o records /\ Starts(sink.disk, sink'.disk)
         /\ pc' \in {next, "unwind"}
<1>1. PICK buffer : buffer = sink.buffer \o records
  OBVIOUS
<1>2. buffer \in Seq(Records) /\ Handed \in Seq(Records)
  BY <1>1 DEF SinkTypes, Handed
<1>3. Handed \o records = sink.disk \o buffer
  <2>1. \A disk, old \in Seq(Records) : (disk \o old) \o records = disk \o (old \o records)
    OBVIOUS
  <2> QED
    BY <1>1, <2>1, Zenon DEF SinkTypes, Handed
<1>4. Free \in Nat /\ Free = room - Len(sink.disk)
  BY DEF Free, SinkTypes
<1>5. CASE records = <<>> /\ pc' = next /\ UNCHANGED sink
  <2>1. Handed' = Handed /\ Handed = Handed \o records
    BY <1>2, <1>5 DEF Handed
  <2>2. Starts(sink.disk, sink'.disk)
    BY <1>5, StartsItself DEF SinkTypes
  <2> QED
    BY <1>5, <2>1, <2>2 DEF SinkTypes
<1>6. ASSUME NEW n \in Nat, n <= Free, sink' = Flushed(buffer, n), pc' \in {next, "unwind"}
      PROVE  /\ SinkTypes' /\ Handed' = Handed \o records /\ Starts(sink.disk, sink'.disk)
             /\ pc' \in {next, "unwind"}
  BY <1>2, <1>3, <1>4, <1>6, FlushedData
<1>7. \A n \in 0..Min({Free, Len(buffer)}) : n \in Nat /\ n <= Free
  <2>1. PICK free, length : free = Free /\ length = Len(buffer)
    OBVIOUS
  <2>2. free \in Nat /\ length \in Nat
    BY <1>2, <1>4, <2>1
  <2>3. Min({free, length}) = IF free <= length THEN free ELSE length
    BY <2>2, MinIs
  <2>4. \A n \in 0..Min({free, length}) : n \in Nat /\ n <= free
    BY <2>2, <2>3
  <2> QED
    BY <2>1, <2>4
<1>8. Free \in Nat /\ Free <= Free
  BY <1>4
<1>9. \/ records = <<>> /\ pc' = next /\ UNCHANGED sink
      \/ \E n \in 0..Min({Free, Len(buffer)}) : sink' = Flushed(buffer, n) /\ pc' = next
      \/ sink' = Flushed(buffer, Free) /\ pc' = "unwind"
  BY <1>1 DEF Write
<1> QED
  BY <1>5, <1>6, <1>7, <1>8, <1>9, Zenon

LEMMA CloseData ==
  ASSUME SinkShape, SinkTypes, CloseSink, room' = room
  PROVE  /\ SinkTypes' /\ sink'.disk = First(Handed, room)
         /\ Starts(sink.disk, sink'.disk) /\ Starts(sink'.disk, Handed)
<1>1. PICK disk, buffer, capacity, free :
        disk = sink.disk /\ buffer = sink.buffer /\ capacity = room /\ free = Free
  OBVIOUS
<1>2. sink'.disk = disk \o First(buffer, free) /\ sink'.buffer = <<>>
  BY <1>1 DEF CloseSink, Flushed, SinkShape
<1>3. /\ disk \in Seq(Records) /\ buffer \in Seq(Records) /\ capacity \in Nat
      /\ Len(disk) <= capacity /\ free = capacity - Len(disk) /\ free \in Nat
      /\ free <= capacity - Len(disk)
  BY <1>1 DEF SinkTypes, Free
<1>4. /\ disk \o First(buffer, free) \in Seq(Records)
      /\ Len(disk \o First(buffer, free)) <= capacity
      /\ Starts(disk, disk \o First(buffer, free))
      /\ Starts(disk \o First(buffer, free), disk \o buffer)
  BY <1>3, FlushSome
<1>5. disk \o First(buffer, free) = First(disk \o buffer, capacity)
  BY <1>3, FirstOfJoined
<1>6. Handed = disk \o buffer
  BY <1>1 DEF Handed
<1>7. <<>> \in Seq(Records)
  OBVIOUS
<1>8. SinkTypes'
  BY <1>1, <1>2, <1>3, <1>4, <1>7 DEF SinkTypes
<1> QED
  BY <1>1, <1>2, <1>4, <1>5, <1>6, <1>8, Zenon

-----------------------------------------------------------------------------
(* perf script and the pipe: what it has printed is what has been read and   *)
(* what is in the pipe; it is the beginning of the report as long as perf    *)
(* script lives, and all of it if it ends without an error.                  *)

Alive   == {"none", "forked", "running"}
Success == [exited |-> TRUE, code |-> 0]

Printed ==
  /\ report \in Seq(Lines) /\ printed \in Seq(Printable) /\ pipe \in Seq(Printable)
  /\ Len(printed) <= Len(report) /\ Len(pipe) <= PipeSize
  /\ Text \in Seq(Printable) /\ printed = Text \o pipe

Result ==
  /\ child.result \in [exited : BOOLEAN, code : 0..255]
  /\ child.status \in Alive =>
       child.result = Success /\ printed = SubSeq(report, 1, Len(printed))
  /\ child.status \notin Alive /\ child.result = Success => printed = report

AtEof == at_eof \in BOOLEAN /\ (at_eof => pipe = <<>> /\ child.status \notin Alive)

PerfInv == Printed /\ Result /\ AtEof

LEMMA TextIs ==
  ASSUME NEW T, NEW text \in Seq(T), NEW q \in Seq(T)
  PROVE  SubSeq(text \o q, 1, Len(text \o q) - Len(q)) = text
<1>1. Len(text \o q) - Len(q) = Len(text)
  OBVIOUS
<1>2. SubSeq(text \o q, 1, Len(text)) = text
  OBVIOUS
<1> QED
  BY <1>1, <1>2

\* Text after a step.
LEMMA TextBecomes ==
  ASSUME NEW text \in Seq(Printable), NEW q \in Seq(Printable),
         pipe' = q, printed' = text \o q
  PROVE  Text' = text /\ Text' \in Seq(Printable) /\ printed' = Text' \o pipe'
<1>1. Text' = SubSeq(text \o q, 1, Len(text \o q) - Len(q))
  BY DEF Text
<1>2. Text' = text
  BY <1>1, TextIs
<1> QED
  BY <1>2

LEMMA AppendMoves ==
  \A s, t \in Seq(Printable), x \in Printable : Append(s \o t, x) = s \o Append(t, x)
<1> TAKE s, t \in Seq(Printable), x \in Printable
<1> QED
  OBVIOUS

LEMMA HeadMoves ==
  ASSUME NEW T, NEW s \in Seq(T), NEW t \in Seq(T), t # <<>>
  PROVE  s \o t = Append(s, Head(t)) \o Tail(t)
OBVIOUS

LEMMA InitPerf == Init => PerfInv
<1> SUFFICES ASSUME Init PROVE PerfInv
  OBVIOUS
<1>1. report \in Seq(Lines) /\ Len(report) \in Nat
  BY SessionAssumption DEF Init
<1>2. <<>> \in Seq(Printable) /\ <<>> = <<>> \o <<>> /\ Len(<<>>) = 0
      /\ SubSeq(<<>>, 1, 0 - 0) = <<>> /\ SubSeq(report, 1, 0) = <<>>
  BY <1>1
<1>3. printed = <<>> /\ pipe = <<>> /\ Text = <<>>
  BY <1>2 DEF Init, Text
<1>4. Printed
  BY <1>1, <1>2, <1>3, SessionAssumption DEF Printed
<1>5. child.status = "none" /\ child.result = Success /\ at_eof = FALSE
  BY DEF Init, Success
<1>6. Success \in [exited : BOOLEAN, code : 0..255]
  BY DEF Success
<1> QED
  BY <1>2, <1>3, <1>4, <1>5, <1>6 DEF PerfInv, Result, AtEof, Alive

\* Most steps of the tool leave all this alone.
LEMMA PerfKept ==
  ASSUME PerfInv, UNCHANGED <<report, printed, pipe, at_eof>>, child'.result = child.result,
         child'.status \in Alive <=> child.status \in Alive
  PROVE  PerfInv' /\ Text' = Text
<1>1. Text' = Text
  BY DEF Text
<1> QED
  BY <1>1 DEF PerfInv, Printed, Result, AtEof

\* A line is read.
LEMMA ReadLinePerf ==
  ASSUME PerfInv, pipe # <<>>, pipe' = Tail(pipe), UNCHANGED <<report, child, printed, at_eof>>
  PROVE  PerfInv' /\ Head(pipe) \in Printable /\ Text' = Append(Text, Head(pipe))
<1>1. PICK text, q : text = Text /\ q = pipe
  OBVIOUS
<1>2. /\ text \in Seq(Printable) /\ q \in Seq(Printable) /\ q # <<>>
      /\ printed = text \o q /\ pipe' = Tail(q)
  BY <1>1 DEF PerfInv, Printed
<1>3. /\ Head(q) \in Printable /\ Tail(q) \in Seq(Printable)
      /\ Append(text, Head(q)) \in Seq(Printable)
      /\ text \o q = Append(text, Head(q)) \o Tail(q)
      /\ Len(Tail(q)) <= Len(q) /\ Len(Tail(q)) \in Nat /\ Len(q) \in Nat
  <2>1. Head(q) \in Printable /\ Tail(q) \in Seq(Printable)
    BY <1>2
  <2>2. Append(text, Head(q)) \in Seq(Printable)
    BY <1>2, <2>1
  <2>3. text \o q = Append(text, Head(q)) \o Tail(q)
    BY <1>2, HeadMoves
  <2>4. Len(Tail(q)) <= Len(q) /\ Len(Tail(q)) \in Nat /\ Len(q) \in Nat
    BY <1>2
  <2> QED
    BY <2>1, <2>2, <2>3, <2>4, Zenon
<1>4. pipe' \in Seq(Printable) /\ printed' = Append(text, Head(q)) \o Tail(q)
  BY <1>2, <1>3
<1>5. /\ Text' = Append(text, Head(q)) /\ Text' \in Seq(Printable)
      /\ printed' = Text' \o pipe'
  BY <1>2, <1>3, <1>4, TextBecomes
<1>6. Len(pipe') <= PipeSize
  <2>1. Len(q) <= PipeSize /\ PipeSize \in Nat
    BY <1>1, SessionAssumption DEF PerfInv, Printed
  <2> QED
    BY <1>2, <1>3, <2>1
<1>7. Printed'
  BY <1>4, <1>5, <1>6 DEF PerfInv, Printed
<1>8. Result' /\ AtEof'
  BY DEF PerfInv, Result, AtEof
<1> QED
  BY <1>1, <1>3, <1>5, <1>7, <1>8 DEF PerfInv

\* A line is printed, whole or cut off.
LEMMA PrintPerf ==
  ASSUME PerfInv, child.status \in Alive, NEW line \in Printable, ToPrint > 0,
         Len(pipe) < PipeSize, printed' = Append(printed, line), pipe' = Append(pipe, line),
         UNCHANGED <<report, at_eof>>
  PROVE  Printed' /\ Text' = Text /\ Len(printed') = Len(printed) + 1
<1>1. PICK text, q : text = Text /\ q = pipe
  OBVIOUS
<1>2. text \in Seq(Printable) /\ q \in Seq(Printable) /\ printed = text \o q
      /\ Len(printed) \in Nat /\ Len(report) \in Nat
  BY <1>1 DEF PerfInv, Printed
<1>3. /\ Append(q, line) \in Seq(Printable) /\ Append(text \o q, line) = text \o Append(q, line)
      /\ Append(text \o q, line) \in Seq(Printable)
      /\ Len(Append(q, line)) = Len(q) + 1 /\ Len(Append(text \o q, line)) = Len(text \o q) + 1
      /\ Len(q) \in Nat
  <2>1. Append(q, line) \in Seq(Printable) /\ text \o q \in Seq(Printable)
    BY <1>2
  <2>2. Append(text \o q, line) = text \o Append(q, line)
    BY <1>2, AppendMoves, Zenon
  <2>3. \A s \in Seq(Printable) : /\ Append(s, line) \in Seq(Printable)
                                   /\ Len(Append(s, line)) = Len(s) + 1 /\ Len(s) \in Nat
    OBVIOUS
  <2> QED
    BY <1>2, <2>1, <2>2, <2>3, Zenon
<1>4. pipe' = Append(q, line) /\ printed' = text \o Append(q, line)
  BY <1>1, <1>2, <1>3
<1>5. Text' = text /\ Text' \in Seq(Printable) /\ printed' = Text' \o pipe'
  BY <1>2, <1>3, <1>4, TextBecomes
<1>6. Len(printed') = Len(printed) + 1
  BY <1>2, <1>3, <1>4
<1>7. Len(printed') <= Len(report')
  BY <1>2, <1>6 DEF ToPrint
<1>8. Len(pipe') <= PipeSize
  BY <1>1, <1>3, <1>4, SessionAssumption
<1>9. printed' \in Seq(Printable) /\ pipe' \in Seq(Printable) /\ report' \in Seq(Lines)
  BY <1>2, <1>3, <1>4 DEF PerfInv, Printed
<1> QED
  BY <1>1, <1>5, <1>6, <1>7, <1>8, <1>9 DEF Printed

\* All steps of decode_perf_data but one read nothing.
LEMMA ToolPerf ==
  ASSUME IInv, PerfInv, ToolStep
  PROVE  PerfInv' /\ (Text' = Text \/ ReadLine)
<1>1. UNCHANGED report
  BY DEF ToolStep
<1>2. CASE UNCHANGED <<childVars, pipe, at_eof>>
  BY <1>1, <1>2, PerfKept DEF childVars
<1>3. ASSUME NEW status, UNCHANGED <<printed, pipe, at_eof>>,
             child' = [child EXCEPT !.status = status], status \in Alive <=> child.status \in Alive
      PROVE  PerfInv' /\ Text' = Text
  <2>1. child' = [status |-> status, result |-> child.result]
    BY <1>3 DEF IInv, ChildShape
  <2>2. child'.result = child.result /\ child'.status = status
    BY <2>1
  <2> QED
    BY <1>1, <1>3, <2>2, PerfKept
<1>4. CASE Spawn \/ SpawnFails
  <2>1. child.status \in Alive /\ "forked" \in Alive
    BY <1>4 DEF IInv, Child, Alive, Spawn, SpawnFails, Goto
  <2>2. UNCHANGED <<printed, pipe, at_eof>>
    BY <1>4 DEF Spawn, SpawnFails, resultVars
  <2>3. UNCHANGED child \/ child' = [child EXCEPT !.status = "forked"]
    BY <1>4 DEF Spawn, SpawnFails
  <2> QED
    BY <1>2, <1>3, <2>1, <2>2, <2>3 DEF childVars
<1>5. CASE WaitPid \/ DropChild
  <2>1. child.status \notin Alive /\ "reaped" \notin Alive
    BY <1>5 DEF Alive, WaitPid, DropChild, Reap
  <2>2. UNCHANGED <<printed, pipe, at_eof>> /\ child' = [child EXCEPT !.status = "reaped"]
    BY <1>5 DEF WaitPid, DropChild, Reap
  <2> QED
    BY <1>3, <2>1, <2>2
<1>6. CASE ReadLine
  BY <1>1, <1>6, ReadLinePerf DEF ReadLine, childVars, resultVars
<1>7. CASE EndOfFile
  <2>1. pipe = <<>> /\ child.status \notin {"forked", "running"} /\ at_eof' = TRUE
    BY <1>7 DEF EndOfFile, WriteEndOpen
  <2>2. child.status # "none"
    BY <1>7 DEF EndOfFile, Goto, IInv, Child
  <2>3. UNCHANGED <<child, printed, pipe>>
    BY <1>7 DEF EndOfFile, childVars
  <2>4. Text' = Text
    BY <2>3 DEF Text
  <2>5. Printed' /\ Result'
    BY <1>1, <2>3, <2>4 DEF PerfInv, Printed, Result
  <2>6. AtEof'
    BY <2>1, <2>2, <2>3 DEF AtEof, Alive
  <2> QED
    BY <2>4, <2>5, <2>6 DEF PerfInv
<1>8. MakeSink \/ WritePreamble \/ FinishDecoding \/ Wait \/ Return \/ Unwind \/ DropPipe
        => UNCHANGED <<childVars, pipe, at_eof>>
  BY DEF MakeSink, WritePreamble, FinishDecoding, Wait, Return, Unwind, DropPipe, ClosePipe,
         resultVars
<1> QED
  BY <1>2, <1>4, <1>5, <1>6, <1>7, <1>8 DEF ToolStep

\* perf script ends, perhaps in the middle of a line.
LEMMA DiesPerf ==
  ASSUME PerfInv, NEW result \in [exited : BOOLEAN, code : 0..255], child.status \in Alive,
         child' = [status |-> "exiting", result |-> result], Printed',
         result = Success => printed' = report, UNCHANGED <<report, at_eof>>
  PROVE  PerfInv'
<1>1. child'.result = result /\ child'.status = "exiting" /\ "exiting" \notin Alive
  BY DEF Alive
<1>2. at_eof' \in BOOLEAN /\ ~at_eof'
  BY DEF PerfInv, AtEof
<1> QED
  BY <1>1, <1>2 DEF PerfInv, Result, AtEof

LEMMA StillPrinted ==
  ASSUME PerfInv, UNCHANGED <<report, printed, pipe>>
  PROVE  Printed' /\ Text' = Text
<1>1. Text' = Text
  BY DEF Text
<1> QED
  BY <1>1 DEF PerfInv, Printed

LEMMA OnlyLines == Lines \subseteq Printable /\ \A line \in Lines : Cuts(line) \subseteq Printable
BY DEF Printable

LEMMA PerfPerf ==
  ASSUME IInv, PerfInv, PerfScript \/ (Killed /\ Environment)
  PROVE  PerfInv' /\ Text' = Text
<1>1. UNCHANGED <<report, at_eof>>
  BY DEF PerfScript, Environment, resultVars
<1>2. {"forked", "running"} \subseteq Alive
  BY DEF Alive
<1>3. ASSUME ToPrint > 0
      PROVE  report[Len(printed) + 1] \in Lines /\ Len(printed) + 1 \in 1..Len(report)
  BY <1>3 DEF ToPrint, PerfInv, Printed
<1>4. CASE PrintLine
  <2> DEFINE line == report[Len(printed) + 1]
  <2>1. /\ child.status = "running" /\ ToPrint > 0 /\ Len(pipe) < PipeSize
        /\ printed' = Append(printed, line) /\ pipe' = Append(pipe, line) /\ UNCHANGED child
    BY <1>4 DEF PrintLine
  <2>2. line \in Printable
    BY <1>3, <2>1, OnlyLines
  <2>3. child.status \in Alive
    BY <1>2, <2>1
  <2> HIDE DEF line
  <2>4. Printed' /\ Text' = Text /\ Len(printed') = Len(printed) + 1
    BY <1>1, <2>1, <2>2, <2>3, PrintPerf
  <2>5. printed' = SubSeq(report, 1, Len(printed) + 1)
    <3>1. PICK n : n = Len(printed)
      OBVIOUS
    <3>2. n \in Nat /\ n + 1 \in 1..Len(report) /\ report \in Seq(Lines)
      BY <1>3, <2>1, <3>1 DEF PerfInv, Printed
    <3>3. printed' = Append(SubSeq(report, 1, n), report[n + 1])
      BY <2>1, <2>3, <3>1, Zenon DEF PerfInv, Result, line
    <3>4. SubSeq(report, 1, n + 1) = Append(SubSeq(report, 1, n), report[n + 1])
      BY <3>2
    <3> QED
      BY <3>1, <3>3, <3>4
  <2>6. Result'
    BY <1>1, <2>1, <2>3, <2>4, <2>5 DEF PerfInv, Result
  <2>7. AtEof'
    BY <1>1, <2>1, <2>3 DEF PerfInv, AtEof
  <2> QED
    BY <2>4, <2>6, <2>7 DEF PerfInv
<1>5. ASSUME NEW status, child' = [child EXCEPT !.status = status], UNCHANGED <<printed, pipe>>,
             status \in Alive <=> child.status \in Alive
      PROVE  PerfInv' /\ Text' = Text
  <2>1. child' = [status |-> status, result |-> child.result]
    BY <1>5 DEF IInv, ChildShape
  <2>2. child'.result = child.result /\ child'.status = status
    BY <2>1
  <2> QED
    BY <1>1, <1>5, <2>2, PerfKept
<1>6. CASE Exec /\ UNCHANGED <<printed, pipe>>
  BY <1>5, <1>6 DEF Exec, Alive
<1>7. CASE Exited /\ UNCHANGED <<printed, pipe>>
  BY <1>5, <1>7 DEF Exited, Alive
<1>8. ASSUME NEW from \in SUBSET {"forked", "running"}, NEW exited \in BOOLEAN,
             NEW code \in 0..255, Dies(from, exited, code), UNCHANGED <<printed, pipe>>,
             [exited |-> exited, code |-> code] = Success => printed = report
      PROVE  PerfInv' /\ Text' = Text
  <2>1. /\ child.status \in Alive
        /\ child' = [status |-> "exiting", result |-> [exited |-> exited, code |-> code]]
    BY <1>2, <1>8 DEF Dies
  <2>2. [exited |-> exited, code |-> code] \in [exited : BOOLEAN, code : 0..255]
    OBVIOUS
  <2>3. Printed' /\ Text' = Text
    BY <1>1, <1>8, StillPrinted
  <2> QED
    BY <1>1, <1>8, <2>1, <2>2, <2>3, DiesPerf
<1>9. \A exited, code : code # 0 => [exited |-> exited, code |-> code] # Success
  BY DEF Success
<1>10. \A code \in {1, 9, 13, 127} : code \in 0..255 /\ code # 0
  OBVIOUS
<1>11. CASE ExecFails /\ UNCHANGED <<printed, pipe>>
  <2>1. Dies({"forked"}, TRUE, 127) /\ 127 \in 0..255 /\ 127 # 0
    <3>1. Dies({"forked"}, TRUE, 127)
      BY <1>11, Zenon DEF ExecFails
    <3> QED
      BY <1>10, <3>1, Zenon
  <2> QED
    BY <1>8, <1>9, <1>11, <2>1
<1>12. CASE BrokenPipe /\ UNCHANGED <<printed, pipe>>
  <2>1. Dies({"running"}, FALSE, 13) /\ 13 \in 0..255 /\ 13 # 0
    <3>1. Dies({"running"}, FALSE, 13)
      BY <1>12, Zenon DEF BrokenPipe
    <3> QED
      BY <1>10, <3>1, Zenon
  <2> QED
    BY <1>8, <1>9, <1>12, <2>1
<1>13. CASE Exit /\ UNCHANGED <<printed, pipe>>
  <2>1. CASE ToPrint = 0 /\ \E code \in {0, 1} : Dies({"running"}, TRUE, code)
    <3>1. PICK code \in {0, 1} : Dies({"running"}, TRUE, code)
      BY <2>1
    <3>2. printed = report
      <4>1. child.status \in Alive
        BY <1>2, <3>1 DEF Dies
      <4>2. printed = SubSeq(report, 1, Len(printed))
        BY <4>1 DEF PerfInv, Result
      <4>3. Len(printed) = Len(report)
        BY <2>1 DEF ToPrint, PerfInv, Printed
      <4>4. SubSeq(report, 1, Len(report)) = report
        BY DEF PerfInv, Printed
      <4> QED
        BY <4>2, <4>3, <4>4, Zenon
    <3>3. code \in 0..255
      OBVIOUS
    <3> QED
      BY <1>8, <1>13, <3>1, <3>2, <3>3
  <2>2. CASE Dies({"running"}, TRUE, 1)
    <3>1. 1 \in 0..255 /\ 1 # 0
      OBVIOUS
    <3> QED
      BY <1>8, <1>9, <1>13, <2>2, <3>1
  <2> QED
    BY <1>13, <2>1, <2>2 DEF Exit
<1>14. CASE Killed
  <2>1. Dies({"forked", "running"}, FALSE, 9) /\ 9 \in 0..255 /\ 9 # 0
    <3>1. Dies({"forked", "running"}, FALSE, 9)
      BY <1>14, Zenon DEF Killed
    <3> QED
      BY <1>10, <3>1, Zenon
  <2>2. CASE UNCHANGED <<printed, pipe>>
    BY <1>8, <1>9, <2>1, <2>2
  <2>3. CASE ~UNCHANGED <<printed, pipe>>
    <3>1. /\ child.status = "running" /\ ToPrint > 0 /\ Len(pipe) < PipeSize
          /\ \E cut \in Cuts(report[Len(printed) + 1]) :
               printed' = Append(printed, cut) /\ pipe' = Append(pipe, cut)
      BY <1>14, <2>3 DEF Killed
    <3>2. PICK cut \in Cuts(report[Len(printed) + 1]) :
            printed' = Append(printed, cut) /\ pipe' = Append(pipe, cut)
      BY <3>1
    <3>3. cut \in Printable /\ child.status \in Alive
      BY <1>2, <1>3, <3>1, OnlyLines
    <3>4. Printed' /\ Text' = Text
      BY <1>1, <3>1, <3>2, <3>3, PrintPerf
    <3>5. child' = [status |-> "exiting", result |-> [exited |-> FALSE, code |-> 9]]
      BY <2>1 DEF Dies
    <3>6. [exited |-> FALSE, code |-> 9] \in [exited : BOOLEAN, code : 0..255]
      OBVIOUS
    <3> QED
      BY <1>1, <1>9, <2>1, <3>3, <3>4, <3>5, <3>6, DiesPerf
  <2> QED
    BY <2>2, <2>3
<1> QED
  BY <1>4, <1>6, <1>7, <1>11, <1>12, <1>13, <1>14 DEF PerfScript

-----------------------------------------------------------------------------
(* What has been decoded is on the disk, in the buffer, or kept back by the  *)
(* reconstructor or by the parser, in this order; a failure loses an end.    *)

Before == {"spawn", "not_spawned", "make_sink", "preamble"}

Nothing ==
  /\ Text = <<>> /\ accumulated_lines = <<>> /\ pending = <<>>
  /\ sink.buffer = <<>> /\ sink.disk = <<>>

Decoded ==
  Holds(Text, accumulated_lines) /\ Handed \o pending = TraceOf(Text, FALSE)

DataInv ==
  /\ SinkTypes /\ pending \in Seq(Records)
  /\ pc \in Before => Nothing /\ ~at_eof
  /\ pc = "read" => Decoded /\ ~at_eof
  /\ pc = "finish" => Decoded /\ at_eof
  /\ pc \in {"wait", "waitpid", "return"} => Handed = TraceOf(Text, TRUE) /\ at_eof
  /\ pc = "unwind" => Starts(Handed, TraceOf(Text, at_eof))
  /\ pc \in {"drop_pipe", "drop_child", "thrown"} => Starts(sink.disk, TraceOf(Text, at_eof))
  /\ pc = "returned" => sink.disk = First(TraceOf(Text, TRUE), room) /\ at_eof

LEMMA InitData == Init => DataInv
<1> SUFFICES ASSUME Init PROVE DataInv
  OBVIOUS
<1>1. sink.disk = <<>> /\ sink.buffer = <<>> /\ pending = <<>> /\ accumulated_lines = <<>>
  BY DEF Init
<1>2. pc = "spawn" /\ ~at_eof
  BY DEF Init
<1>3. room \in Nat
  BY SessionAssumption DEF Init
<1>4. <<>> \in Seq(Records) /\ Len(<<>>) = 0 /\ 0 <= room
  BY <1>3
<1>5. SinkTypes /\ pending \in Seq(Records)
  BY <1>1, <1>3, <1>4 DEF SinkTypes
<1>6. Text = <<>>
  BY DEF Init, Text
<1> QED
  BY <1>1, <1>2, <1>5, <1>6 DEF DataInv, Nothing

LEMMA DataKept ==
  ASSUME DataInv, UNCHANGED <<pc, at_eof, accumulated_lines, pending, sink, room>>, Text' = Text
  PROVE  DataInv' /\ Starts(sink.disk, sink'.disk)
<1>1. Starts(sink.disk, sink'.disk)
  BY StartsItself DEF DataInv, SinkTypes
<1>2. UNCHANGED Handed
  BY DEF Handed
<1> QED
  BY <1>1, <1>2, Zenon DEF DataInv, SinkTypes, Nothing, Decoded

\* A part of what is known is written, with what has been written it makes the
\* same.
Joined(a, b, c) == (a \o b) \o c
Alike(f, r, p, e) == f \o r = p \o e

LEMMA JoinedIs ==
  ASSUME NEW a \in Seq(Records), NEW b \in Seq(Records), NEW c \in Seq(Records)
  PROVE  Joined(a, b, c) = a \o (b \o c)
BY DEF Joined

LEMMA Regrouped ==
  ASSUME NEW h \in Seq(Records), NEW p \in Seq(Records), NEW e \in Seq(Records),
         NEW f \in Seq(Records), NEW r \in Seq(Records), Alike(f, r, p, e)
  PROVE  Joined(h, f, r) = Joined(h, p, e)
<1>1. Joined(h, f, r) = h \o (f \o r)
  BY JoinedIs, ZenonT(60)
<1>2. Joined(h, p, e) = h \o (p \o e)
  BY JoinedIs, ZenonT(60)
<1> QED
  BY <1>1, <1>2, Zenon DEF Alike

LEMMA EmptyTrace == TraceOf(<<>>, FALSE) = <<Preamble>> /\ <<Preamble>> \in Seq(Records)
<1>1. Parts(<<>>, FALSE) = <<>>
  BY DEF Parts
<1>2. FlattenSeq(Parts(<<>>, FALSE)) = <<>>
  BY <1>1, FlattenNothing
<1>3. <<Preamble>> \in Seq(Records)
  BY DEF Records
<1>4. <<Preamble>> \o <<>> = <<Preamble>>
  BY <1>3
<1> QED
  BY <1>2, <1>3, <1>4 DEF TraceOf, Parts

LEMMA NothingAdded ==
  \A s \in Seq(Records) : s \o <<>> = s /\ <<>> \o s = s /\ <<>> \o <<>> = <<>>
OBVIOUS

LEMMA WritePreambleData ==
  ASSUME IInv, PerfInv, DataInv, WritePreamble, UNCHANGED room, Text' = Text
  PROVE  DataInv' /\ Starts(sink.disk, sink'.disk)
<1>1. /\ Nothing /\ ~at_eof /\ UNCHANGED <<at_eof, accumulated_lines, pending>>
      /\ Write(<<Preamble>>, "read")
  BY DEF WritePreamble, DataInv, Before, resultVars
<1>2. /\ SinkTypes' /\ Handed' = Handed \o <<Preamble>> /\ Starts(sink.disk, sink'.disk)
      /\ pc' \in {"read", "unwind"}
  BY <1>1, EmptyTrace, WriteData DEF DataInv, IInv
<1>3. Handed' = <<Preamble>> /\ Handed' \o pending' = <<Preamble>>
  BY <1>1, <1>2, EmptyTrace, NothingAdded, Zenon DEF Nothing, Handed
<1>4. TraceOf(Text', FALSE) = <<Preamble>> /\ Holds(Text', accumulated_lines')
  BY <1>1, EmptyTrace DEF Nothing, Holds
<1>5. Decoded' /\ ~at_eof'
  BY <1>1, <1>3, <1>4 DEF Decoded
<1>6. Starts(Handed', TraceOf(Text', at_eof'))
  <2>1. at_eof' = FALSE
    BY <1>1, Zenon DEF PerfInv, AtEof
  <2> QED
    BY <1>3, <1>4, <2>1, EmptyTrace, StartsItself
<1>7. CASE pc' = "read"
  BY <1>1, <1>2, <1>5, <1>7 DEF DataInv, Before
<1>8. CASE pc' = "unwind"
  BY <1>1, <1>2, <1>6, <1>8 DEF DataInv, Before
<1> QED
  BY <1>2, <1>7, <1>8

LEMMA ReadLineData ==
  ASSUME IInv, PerfInv, DataInv, ReadLine, UNCHANGED room,
         Head(pipe) \in Printable, Text' = Append(Text, Head(pipe))
  PROVE  DataInv' /\ Starts(sink.disk, sink'.disk)
<1>1. PICK text, line, acc : text = Text /\ line = Head(pipe) /\ acc = accumulated_lines
  OBVIOUS
<1>2. PICK fed : fed = FeedLine(acc, line)
  OBVIOUS
<1>3. /\ Decoded /\ ~at_eof /\ UNCHANGED at_eof /\ accumulated_lines' = fed.lines
      /\ Process(fed.event, "read")
  BY <1>1, <1>2 DEF ReadLine, DataInv, resultVars
<1>4. text \in Seq(Printable) /\ line \in Printable /\ Holds(text, acc)
  BY <1>1, <1>3 DEF PerfInv, Printed, Decoded
<1>5. PICK event : event = Reconstructed(fed.event)
  OBVIOUS
<1>6. /\ Holds(Append(text, line), fed.lines) /\ event \in Seq(Records)
      /\ TraceOf(Append(text, line), FALSE) = TraceOf(text, FALSE) \o event
  BY <1>2, <1>4, <1>5, FeedText
<1>7. PICK known : known = pending \o event
  OBVIOUS
<1>8. pending \in Seq(Records) /\ Handed \in Seq(Records) /\ known \in Seq(Records)
  BY <1>6, <1>7 DEF DataInv, SinkTypes, Handed
<1>9. PICK n \in 0..Len(known) : pending' = Rest(known, n) /\ Write(First(known, n), "read")
  BY <1>3, <1>5, <1>7, Zenon DEF Process
<1>10. PICK f, r : f = First(known, n) /\ r = Rest(known, n)
  OBVIOUS
<1>11. f \in Seq(Records) /\ r \in Seq(Records) /\ f \o r = known
  <2>1. n \in Nat
    BY <1>8
  <2> QED
    BY <1>8, <1>10, <2>1, FirstAndRest
<1>12. /\ SinkTypes' /\ Handed' = Handed \o f /\ Starts(sink.disk, sink'.disk)
       /\ pc' \in {"read", "unwind"}
  BY <1>9, <1>10, <1>11, WriteData DEF DataInv, IInv
<1>13. Handed' \o pending' = TraceOf(Text', FALSE)
  <2>1. Joined(Handed, f, r) = Joined(Handed, pending, event)
    <3>1. Alike(f, r, pending, event)
      BY <1>7, <1>11, Zenon DEF Alike
    <3>2. /\ Handed \in Seq(Records) /\ pending \in Seq(Records) /\ event \in Seq(Records)
          /\ f \in Seq(Records) /\ r \in Seq(Records)
      BY <1>6, <1>8, <1>11
    <3> QED
      BY <3>1, <3>2, Regrouped
  <2>2. Handed \o pending = TraceOf(text, FALSE)
    BY <1>1, <1>3 DEF Decoded
  <2> QED
    BY <1>1, <1>6, <1>9, <1>10, <1>12, <2>1, <2>2, Zenon DEF Joined
<1>14. pending' \in Seq(Records) /\ ~at_eof'
  BY <1>3, <1>9, <1>10, <1>11
<1>15. Decoded'
  BY <1>1, <1>3, <1>6, <1>13, Zenon DEF Decoded
<1>16. Starts(Handed', TraceOf(Text', at_eof'))
  <2>1. at_eof' = FALSE
    BY <1>3, Zenon DEF PerfInv, AtEof
  <2> QED
    BY <1>13, <1>14, <2>1, Zenon DEF Starts
<1>17. CASE pc' = "read"
  BY <1>12, <1>14, <1>15, <1>17 DEF DataInv, Before
<1>18. CASE pc' = "unwind"
  BY <1>12, <1>14, <1>16, <1>18 DEF DataInv, Before
<1> QED
  BY <1>12, <1>17, <1>18

LEMMA FinishDecodingData ==
  ASSUME IInv, PerfInv, DataInv, FinishDecoding, UNCHANGED room, Text' = Text
  PROVE  DataInv' /\ Starts(sink.disk, sink'.disk)
<1>1. PICK text, acc : text = Text /\ acc = accumulated_lines
  OBVIOUS
<1>2. PICK event : event = Reconstructed(ParseGroup(acc))
  OBVIOUS
<1>3. /\ Decoded /\ at_eof /\ UNCHANGED at_eof /\ pending' = <<>>
      /\ Write(pending \o event, "wait")
  BY <1>1, <1>2 DEF FinishDecoding, FinishParser, FlushAccumulated, DataInv, resultVars
<1>4. text \in Seq(Printable) /\ Holds(text, acc)
  BY <1>1, <1>3 DEF PerfInv, Printed, Decoded
<1>5. event \in Seq(Records) /\ TraceOf(text, TRUE) = TraceOf(text, FALSE) \o event
  <2>1. acc \in Seq(Printable)
    BY <1>4, HoldsType
  <2> QED
    BY <1>2, <1>4, <2>1, FinishText, ReconstructedType
<1>6. PICK known : known = pending \o event
  OBVIOUS
<1>7. pending \in Seq(Records) /\ Handed \in Seq(Records) /\ known \in Seq(Records)
  BY <1>5, <1>6 DEF DataInv, SinkTypes, Handed
<1>8. /\ SinkTypes' /\ Handed' = Handed \o known /\ Starts(sink.disk, sink'.disk)
      /\ pc' \in {"wait", "unwind"}
  BY <1>3, <1>6, <1>7, WriteData DEF DataInv, IInv
<1>9. Handed' = TraceOf(Text', TRUE)
  <2>1. <<>> \in Seq(Records) /\ known \o <<>> = known
    BY <1>7
  <2>2. Handed \o known \in Seq(Records)
    BY <1>7
  <2>3. Joined(Handed, known, <<>>) = Joined(Handed, pending, event)
    <3>1. PICK none : none = <<>>
      OBVIOUS
    <3>2. Alike(known, none, pending, event)
      BY <1>6, <2>1, <3>1, Zenon DEF Alike
    <3>3. /\ Handed \in Seq(Records) /\ pending \in Seq(Records) /\ event \in Seq(Records)
          /\ known \in Seq(Records) /\ none \in Seq(Records)
      BY <1>5, <1>7, <2>1, <3>1
    <3>4. Joined(Handed, known, none) = Joined(Handed, pending, event)
      BY <3>2, <3>3, Regrouped
    <3> QED
      BY <3>1, <3>4
  <2>4. (Handed \o known) \o <<>> = Handed \o known
    BY <2>2, NothingAdded, Zenon
  <2>5. Handed \o pending = TraceOf(text, FALSE)
    BY <1>1, <1>3 DEF Decoded
  <2> QED
    BY <1>1, <1>5, <1>8, <2>3, <2>4, <2>5, Zenon DEF Joined
<1>10. pending' \in Seq(Records)
  BY <1>3
<1>11. Starts(Handed', TraceOf(Text', at_eof'))
  <2>1. at_eof' = TRUE
    BY <1>3, Zenon DEF PerfInv, AtEof
  <2>2. Handed' \in Seq(Records)
    <3>1. sink'.disk \in Seq(Records) /\ sink'.buffer \in Seq(Records)
      BY <1>8 DEF SinkTypes
    <3>2. Handed' = sink'.disk \o sink'.buffer
      BY DEF Handed
    <3>3. \A s, t \in Seq(Records) : s \o t \in Seq(Records)
      OBVIOUS
    <3> QED
      BY <3>1, <3>2, <3>3, Zenon
  <2>3. Starts(Handed', Handed')
    BY <2>2, StartsItself
  <2> QED
    BY <1>9, <2>1, <2>3, Zenon
<1>12. CASE pc' = "wait"
  BY <1>3, <1>8, <1>9, <1>10, <1>12 DEF DataInv, Before
<1>13. CASE pc' = "unwind"
  BY <1>3, <1>8, <1>10, <1>11, <1>13 DEF DataInv, Before
<1> QED
  BY <1>8, <1>12, <1>13

\* Where nothing is written: the place, and whether there is more text, change.
LEMMA MovesData ==
  ASSUME DataInv, AtEof, Text' = Text, UNCHANGED <<accumulated_lines, pending, room>>,
         sink'.disk = sink.disk, sink'.buffer = sink.buffer,
         \/ pc \in Before /\ pc' \in Before /\ UNCHANGED at_eof
         \/ pc \in Before /\ pc' = "drop_pipe" /\ UNCHANGED at_eof
         \/ pc = "read" /\ pc' = "finish" /\ at_eof' = TRUE
         \/ pc = "wait" /\ pc' = "waitpid" /\ UNCHANGED at_eof
         \/ pc = "waitpid" /\ pc' = "return" /\ UNCHANGED at_eof
         \/ pc = "drop_pipe" /\ pc' = "drop_child" /\ UNCHANGED at_eof
         \/ pc = "drop_child" /\ pc' = "thrown" /\ UNCHANGED at_eof
  PROVE  DataInv' /\ Starts(sink.disk, sink'.disk)
<1>1. Starts(sink.disk, sink'.disk)
  BY StartsItself DEF DataInv, SinkTypes
<1>2. SinkTypes' /\ pending' \in Seq(Records) /\ Handed' = Handed
  BY DEF DataInv, SinkTypes, Handed
<1>3. CASE pc \in Before /\ pc' \in Before /\ UNCHANGED at_eof
  <2>1. Nothing' /\ ~at_eof'
    BY <1>3 DEF DataInv, Nothing
  <2> QED
    BY <1>1, <1>2, <1>3, <2>1 DEF DataInv, Before
<1>4. CASE pc \in Before /\ pc' = "drop_pipe" /\ UNCHANGED at_eof
  <2>1. at_eof = FALSE /\ Text = <<>> /\ sink.disk = <<>>
    BY <1>4, Zenon DEF DataInv, Nothing, AtEof
  <2>2. Starts(<<>>, <<Preamble>>)
    <3>1. <<Preamble>> = <<>> \o <<Preamble>>
      BY EmptyTrace, NothingAdded, Zenon
    <3> QED
      BY <3>1, EmptyTrace DEF Starts
  <2>3. Starts(sink'.disk, TraceOf(Text', at_eof'))
    BY <1>4, <2>1, <2>2, EmptyTrace, Zenon
  <2> QED
    BY <1>1, <1>2, <1>4, <2>3 DEF DataInv, Before
<1>5. CASE pc = "read" /\ pc' = "finish" /\ at_eof' = TRUE
  <2>1. Decoded'
    BY <1>2, <1>5, Zenon DEF DataInv, Decoded
  <2> QED
    BY <1>1, <1>2, <1>5, <2>1 DEF DataInv, Before
<1>6. CASE pc = "wait" /\ pc' = "waitpid" /\ UNCHANGED at_eof
  BY <1>1, <1>2, <1>6 DEF DataInv, Before
<1>7. CASE pc = "waitpid" /\ pc' = "return" /\ UNCHANGED at_eof
  BY <1>1, <1>2, <1>7 DEF DataInv, Before
<1>8. CASE pc = "drop_pipe" /\ pc' = "drop_child" /\ UNCHANGED at_eof
  BY <1>1, <1>2, <1>8 DEF DataInv, Before
<1>9. CASE pc = "drop_child" /\ pc' = "thrown" /\ UNCHANGED at_eof
  BY <1>1, <1>2, <1>9 DEF DataInv, Before
<1> QED
  BY <1>3, <1>4, <1>5, <1>6, <1>7, <1>8, <1>9

\* The sink is closed: the buffer is written, as far as it fits.
LEMMA ClosingData ==
  ASSUME IInv, PerfInv, DataInv, Return \/ Unwind, UNCHANGED room, Text' = Text
  PROVE  DataInv' /\ Starts(sink.disk, sink'.disk)
<1>1. UNCHANGED <<at_eof, pending>> /\ CloseSink
  BY DEF Return, Unwind, resultVars
<1>2. /\ SinkTypes' /\ sink'.disk = First(Handed, room)
      /\ Starts(sink.disk, sink'.disk) /\ Starts(sink'.disk, Handed)
  BY <1>1, CloseData DEF DataInv, IInv
<1>3. CASE Return
  <2>1. pc = "return" /\ pc' = "returned"
    BY <1>3 DEF Return, Goto
  <2>2. Handed = TraceOf(Text, TRUE) /\ at_eof
    BY <2>1 DEF DataInv
  <2>3. sink'.disk = First(TraceOf(Text', TRUE), room') /\ at_eof'
    BY <1>1, <1>2, <2>2, Zenon
  <2> QED
    BY <1>1, <1>2, <2>1, <2>3 DEF DataInv, Before
<1>4. CASE Unwind
  <2>1. pc = "unwind" /\ pc' = "drop_pipe"
    BY <1>4 DEF Unwind, Goto
  <2>2. Starts(Handed, TraceOf(Text, at_eof))
    BY <2>1 DEF DataInv
  <2>3. Starts(sink'.disk, TraceOf(Text, at_eof))
    <3>1. PICK disk, handed, trace :
            disk = sink'.disk /\ handed = Handed /\ trace = TraceOf(Text, at_eof)
      OBVIOUS
    <3>2. Starts(disk, handed) /\ Starts(handed, trace)
      BY <1>2, <2>2, <3>1, Zenon
    <3>3. disk \in Seq(Records)
      BY <1>2, <3>1 DEF SinkTypes
    <3> QED
      BY <3>1, <3>2, <3>3, StartsStarts, Zenon
  <2>4. Starts(sink'.disk, TraceOf(Text', at_eof'))
    BY <1>1, <2>3, Zenon
  <2> QED
    BY <1>1, <1>2, <2>1, <2>4 DEF DataInv, Before
<1> QED
  BY <1>3, <1>4

LEMMA ToolData ==
  ASSUME IInv, PerfInv, DataInv, ToolStep
  PROVE  DataInv' /\ Starts(sink.disk, sink'.disk)
<1>1. UNCHANGED room /\ AtEof
  BY DEF ToolStep, PerfInv
<1>2. CASE ReadLine
  BY <1>1, <1>2, ReadLinePerf, ReadLineData DEF ReadLine, childVars, resultVars, ToolStep
<1>3. CASE ~ReadLine
  <2>1. Text' = Text
    BY <1>3, ToolPerf
  <2>2. CASE WritePreamble
    BY <1>1, <2>1, <2>2, WritePreambleData
  <2>3. CASE FinishDecoding
    BY <1>1, <2>1, <2>3, FinishDecodingData
  <2>4. CASE Return \/ Unwind
    BY <1>1, <2>1, <2>4, ClosingData
  <2>5. CASE Spawn \/ SpawnFails
    <3>1. UNCHANGED <<accumulated_lines, pending, sink, at_eof>>
      BY <2>5 DEF Spawn, SpawnFails, dataVars, resultVars
    <3>2. pc \in Before /\ pc' \in Before
      BY <2>5 DEF Spawn, SpawnFails, Goto, Before
    <3> QED
      BY <1>1, <2>1, <3>1, <3>2, MovesData
  <2>6. CASE MakeSink
    <3>1. UNCHANGED <<accumulated_lines, pending, at_eof>>
      BY <2>6 DEF MakeSink, resultVars
    <3>2. sink'.disk = sink.disk /\ sink'.buffer = sink.buffer
      BY <2>6 DEF MakeSink, IInv, SinkShape
    <3>3. pc \in Before /\ (pc' \in Before \/ pc' = "drop_pipe")
      BY <2>6 DEF MakeSink, Goto, Before
    <3> QED
      BY <1>1, <2>1, <3>1, <3>2, <3>3, MovesData
  <2>7. CASE EndOfFile
    BY <1>1, <2>1, <2>7, MovesData DEF EndOfFile, Goto, dataVars
  <2>8. CASE Wait
    BY <1>1, <2>1, <2>8, MovesData DEF Wait, ClosePipe, Goto, dataVars, resultVars
  <2>9. CASE WaitPid
    BY <1>1, <2>1, <2>9, MovesData DEF WaitPid, Reap, Goto, dataVars
  <2>10. CASE DropPipe
    BY <1>1, <2>1, <2>10, MovesData DEF DropPipe, ClosePipe, Goto, dataVars, resultVars
  <2>11. CASE DropChild
    BY <1>1, <2>1, <2>11, MovesData DEF DropChild, Reap, Goto, dataVars
  <2> QED
    BY <1>3, <2>2, <2>3, <2>4, <2>5, <2>6, <2>7, <2>8, <2>9, <2>10, <2>11 DEF ToolStep
<1> QED
  BY <1>2, <1>3

\* Whatever has been written is the beginning of the trace of the text.
LEMMA DiskStartsTrace ==
  ASSUME IInv, PerfInv, DataInv
  PROVE  Starts(sink.disk, TraceOf(Text, at_eof))
<1>1. PICK text, disk, buffer, kept :
        text = Text /\ disk = sink.disk /\ buffer = sink.buffer /\ kept = pending
  OBVIOUS
<1>2. /\ text \in Seq(Printable) /\ disk \in Seq(Records) /\ buffer \in Seq(Records)
      /\ kept \in Seq(Records) /\ Handed = disk \o buffer
  BY <1>1 DEF PerfInv, Printed, DataInv, SinkTypes, Handed
<1>3. at_eof = TRUE \/ at_eof = FALSE
  BY DEF PerfInv, AtEof
<1>4. disk \o buffer \in Seq(Records)
  BY <1>2
<1>5. CASE pc \in Before
  <2>1. at_eof = FALSE /\ text = <<>> /\ disk = <<>>
    BY <1>1, <1>3, <1>5, Zenon DEF DataInv, Nothing
  <2>2. Starts(<<>>, <<Preamble>>)
    <3>1. <<Preamble>> = <<>> \o <<Preamble>>
      BY EmptyTrace, NothingAdded, Zenon
    <3> QED
      BY <3>1, EmptyTrace DEF Starts
  <2> QED
    BY <1>1, <2>1, <2>2, EmptyTrace, Zenon
<1>6. CASE pc \in {"read", "finish"}
  <2>1. TraceOf(text, FALSE) = Joined(disk, buffer, kept)
    BY <1>1, <1>2, <1>6, Zenon DEF DataInv, Decoded, Joined
  <2>2. Starts(disk, TraceOf(text, FALSE))
    <3>1. Joined(disk, buffer, kept) = disk \o (buffer \o kept)
      BY <1>2, JoinedIs
    <3>2. buffer \o kept \in Seq(Records)
      BY <1>2
    <3> QED
      BY <2>1, <3>1, <3>2, Zenon DEF Starts
  <2>3. Starts(TraceOf(text, FALSE), TraceOf(text, TRUE))
    <3>1. PICK acc : acc = accumulated_lines
      OBVIOUS
    <3>2. Holds(text, acc)
      BY <1>1, <1>6, <3>1 DEF DataInv, Decoded
    <3>3. /\ TraceOf(text, TRUE) = TraceOf(text, FALSE) \o Reconstructed(ParseGroup(acc))
          /\ Reconstructed(ParseGroup(acc)) \in Seq(Records)
      BY <1>2, <3>2, FinishText, HoldsType, ReconstructedType
    <3> QED
      BY <3>3, Zenon DEF Starts
  <2>4. Starts(disk, TraceOf(text, TRUE))
    BY <1>2, <2>2, <2>3, StartsStarts
  <2> QED
    BY <1>1, <1>3, <2>2, <2>4, Zenon
<1>7. CASE pc \in {"wait", "waitpid", "return"}
  <2>1. TraceOf(text, TRUE) = disk \o buffer /\ at_eof = TRUE
    BY <1>1, <1>2, <1>3, <1>7, Zenon DEF DataInv
  <2> QED
    BY <1>1, <1>2, <2>1, Zenon DEF Starts
<1>8. CASE pc = "unwind"
  <2>1. Starts(disk \o buffer, TraceOf(Text, at_eof)) /\ Starts(disk, disk \o buffer)
    BY <1>2, <1>8, Zenon DEF DataInv, Starts
  <2> QED
    BY <1>1, <1>2, <2>1, StartsStarts, Zenon
<1>9. CASE pc \in {"drop_pipe", "drop_child", "thrown"}
  BY <1>9 DEF DataInv
<1>10. CASE pc = "returned"
  <2>1. PICK trace, n : trace = TraceOf(text, TRUE) /\ n = room
    OBVIOUS
  <2>2. trace \in Seq(Records) /\ n \in Nat
    BY <1>2, <2>1, TraceType DEF DataInv, SinkTypes
  <2>3. First(trace, n) \o Rest(trace, n) = trace /\ Rest(trace, n) \in Seq(Records)
    BY <2>2, FirstAndRest
  <2>4. disk = First(trace, n) /\ at_eof = TRUE
    BY <1>1, <1>3, <1>10, <2>1, Zenon DEF DataInv
  <2> QED
    BY <1>1, <2>1, <2>3, <2>4, Zenon DEF Starts
<1> QED
  BY <1>5, <1>6, <1>7, <1>8, <1>9, <1>10, Zenon DEF IInv, Where, Before

-----------------------------------------------------------------------------
(* What decode_perf_data makes of the exit code of perf script *)

Codes ==
  /\ pipe_open \in BOOLEAN /\ warned \in BOOLEAN /\ exit_code \in -1..255
  /\ sink.state \in {"none", "open", "closed"}
  /\ pc \in {"return", "returned"} =>
       exit_code = WaitCode(child.result) /\ (warned <=> exit_code # 0)

LEMMA WaitCodes ==
  ASSUME NEW result \in [exited : BOOLEAN, code : 0..255]
  PROVE  /\ WaitCode(result) \in -1..255
         /\ WaitCode(result) = 0 => result = Success
<1>1. result.code \in 0..255 /\ result = [exited |-> result.exited, code |-> result.code]
  OBVIOUS
<1>2. CASE result.exited = TRUE
  BY <1>1, <1>2 DEF WaitCode, Success
<1>3. CASE result.exited = FALSE
  BY <1>3 DEF WaitCode
<1> QED
  BY <1>2, <1>3

LEMMA CodesKept ==
  ASSUME Codes, UNCHANGED <<exit_code, warned>>, pipe_open' \in BOOLEAN,
         sink'.state \in {"none", "open", "closed"},
         pc' \in {"return", "returned"} => pc \in {"return", "returned"} /\ UNCHANGED child
  PROVE  Codes'
BY DEF Codes

LEMMA CodesStep ==
  ASSUME IInv, PerfInv, Codes, Next
  PROVE  Codes'
<1>1. CASE ToolStep
  <2>1. CASE WaitPid
    <3>1. /\ exit_code' = WaitCode(child.result) /\ warned' = (exit_code' # 0)
          /\ UNCHANGED <<pipe_open, sink>> /\ child' = [child EXCEPT !.status = "reaped"]
      BY <2>1 DEF WaitPid, Reap, dataVars
    <3>2. child'.result = child.result
      BY <3>1 DEF IInv, ChildShape
    <3>3. exit_code' \in -1..255
      BY <3>1, WaitCodes DEF PerfInv, Result
    <3>4. warned' \in BOOLEAN /\ (warned' <=> exit_code' # 0)
      BY <3>1, Zenon
    <3>5. pipe_open' \in BOOLEAN /\ sink'.state \in {"none", "open", "closed"}
      BY <3>1 DEF Codes
    <3>6. exit_code' = WaitCode(child'.result)
      BY <3>1, <3>2
    <3> QED
      BY <3>3, <3>4, <3>5, <3>6, Zenon DEF Codes
  <2>2. CASE ~WaitPid
    <3>1. UNCHANGED <<exit_code, warned>>
      BY <1>1, <2>2 DEF ToolStep, Spawn, SpawnFails, MakeSink, WritePreamble, ReadLine, EndOfFile,
            FinishDecoding, Wait, Return, Unwind, DropPipe, DropChild, ClosePipe, resultVars
    <3>2. pipe_open' \in BOOLEAN
      BY <1>1, <2>2, Zenon DEF ToolStep, Spawn, SpawnFails, MakeSink, WritePreamble, ReadLine,
            EndOfFile, FinishDecoding, Wait, Return, Unwind, DropPipe, DropChild, ClosePipe, Reap,
            Codes
    <3>3. sink'.state \in {"none", "open", "closed"}
      <4>1. CASE MakeSink
        BY <4>1 DEF MakeSink, IInv, SinkShape, Codes
      <4>2. CASE WritePreamble \/ ReadLine \/ FinishDecoding
        BY <4>2, WriteKeepsState
        DEF WritePreamble, ReadLine, Process, FinishDecoding, Codes, IInv
      <4>3. CASE Return \/ Unwind
        BY <4>3, CloseSinkCloses DEF Return, Unwind, IInv
      <4>4. CASE UNCHANGED sink
        BY <4>4 DEF Codes
      <4>5. Spawn \/ SpawnFails \/ EndOfFile \/ Wait \/ DropPipe \/ DropChild => UNCHANGED sink
        BY DEF Spawn, SpawnFails, EndOfFile, Wait, DropPipe, DropChild, ClosePipe, Reap, dataVars
      <4> QED
        BY <1>1, <2>2, <4>1, <4>2, <4>3, <4>4, <4>5 DEF ToolStep
    <3>4. pc' \in {"return", "returned"} => pc \in {"return", "returned"} /\ UNCHANGED child
      <4>1. CASE WritePreamble \/ ReadLine \/ FinishDecoding
        BY <4>1, WriteKeepsState DEF WritePreamble, ReadLine, Process, FinishDecoding, IInv
      <4>2. CASE Return
        BY <4>2 DEF Return, Goto, childVars
      <4>3. CASE ~(WritePreamble \/ ReadLine \/ FinishDecoding \/ Return)
        BY <1>1, <2>2, <4>3 DEF ToolStep, Spawn, SpawnFails, MakeSink, EndOfFile, Wait, Unwind,
             DropPipe, DropChild, Goto
      <4> QED
        BY <4>1, <4>2, <4>3
    <3> QED
      BY <3>1, <3>2, <3>3, <3>4, CodesKept
  <2> QED
    BY <2>1, <2>2
<1>2. CASE PerfScript \/ (Killed /\ Environment)
  <2>1. UNCHANGED <<pc, pipe_open, sink, exit_code, warned>>
    BY <1>2 DEF PerfScript, Environment, dataVars, resultVars
  <2>2. pc \in {"return", "returned"} => UNCHANGED child
    <3>1. pc \in {"return", "returned"} => child.status = "reaped"
      BY DEF IInv, Child
    <3> QED
      BY <1>2, <3>1 DEF PerfScript, PrintLine, Exec, ExecFails, BrokenPipe, Exit, Exited, Killed, Dies
  <2> QED
    BY <2>1, <2>2, CodesKept DEF Codes
<1> QED
  BY <1>1, <1>2 DEF Next

-----------------------------------------------------------------------------
(* The whole invariant, and what follows from it *)

SessionInv == IInv /\ PerfInv /\ DataInv /\ Codes

LEMMA InitCodes == Init => Codes
<1> SUFFICES ASSUME Init PROVE Codes
  OBVIOUS
<1>1. pc = "spawn" /\ pipe_open = FALSE /\ warned = FALSE /\ sink.state = "none"
  BY DEF Init
<1>2. exit_code \in -1..255
  BY DEF Init
<1> QED
  BY <1>1, <1>2 DEF Codes

LEMMA EnvironmentData ==
  ASSUME IInv, PerfInv, DataInv, PerfScript \/ (Killed /\ Environment)
  PROVE  DataInv' /\ Starts(sink.disk, sink'.disk)
<1>1. Text' = Text
  BY PerfPerf
<1>2. UNCHANGED <<pc, at_eof, accumulated_lines, pending, sink, room>>
  BY DEF PerfScript, Environment, dataVars, resultVars
<1> QED
  BY <1>1, <1>2, DataKept

LEMMA SessionStep == SessionInv /\ [Next]_vars => SessionInv'
<1> SUFFICES ASSUME SessionInv, [Next]_vars PROVE SessionInv'
  OBVIOUS
<1>1. CASE Next
  <2>1. IInv'
    BY <1>1, ToolStepIInv, PerfScriptIInv DEF Next, SessionInv
  <2>2. PerfInv'
    BY <1>1, ToolPerf, PerfPerf DEF Next, SessionInv
  <2>3. DataInv'
    BY <1>1, ToolData, EnvironmentData DEF Next, SessionInv
  <2>4. Codes'
    BY <1>1, CodesStep DEF SessionInv
  <2> QED
    BY <2>1, <2>2, <2>3, <2>4 DEF SessionInv
<1>2. CASE UNCHANGED vars
  <2>1. IInv'
    BY <1>2 DEF SessionInv, IInv, Where, Pipe, Child, Sink, ChildShape, SinkShape,
                vars, childVars, dataVars
  <2>2. PerfInv' /\ Text' = Text
    BY <1>2, PerfKept DEF SessionInv, vars, childVars, resultVars
  <2>3. DataInv'
    BY <1>2, <2>2, DataKept DEF SessionInv, vars, dataVars, resultVars
  <2>4. Codes'
    BY <1>2 DEF SessionInv, Codes, vars, childVars, dataVars, resultVars
  <2> QED
    BY <2>1, <2>2, <2>3, <2>4 DEF SessionInv
<1> QED
  BY <1>1, <1>2

\* What has been read, decoded and written in each phase.  (decode_perf_data)
THEOREM SessionHoldsData == Spec => []SessionInv
<1>1. Init => SessionInv
  BY InitIInv, InitPerf, InitData, InitCodes DEF SessionInv
<1> QED
  BY <1>1, SessionStep, PTL DEF Spec

\* The types, with what fits into the pipe and onto the disk.  (decode_perf_data)
THEOREM SessionTypes == Spec => []TypeOK
<1>1. SessionInv => TypeOK
  <2> SUFFICES ASSUME SessionInv PROVE TypeOK
    OBVIOUS
  <2>1. pc \in Final \cup {"spawn", "make_sink", "preamble", "read", "finish", "wait",
                           "waitpid", "return", "unwind", "drop_pipe", "drop_child"}
    BY DEF SessionInv, IInv, Where, Final
  <2>2. child.status \in {"none", "forked", "running", "exiting", "zombie", "reaped"}
    BY DEF SessionInv, IInv, Child
  <2>3. child.result \in [exited : BOOLEAN, code : 0..255]
    BY DEF SessionInv, PerfInv, Result
  <2>4. Len(pipe) <= PipeSize /\ Len(printed) <= Len(report)
    BY DEF SessionInv, PerfInv, Printed
  <2>5. {pipe_open, at_eof, warned} \subseteq BOOLEAN
    BY DEF SessionInv, PerfInv, AtEof, Codes
  <2>6. Len(sink.disk) <= room
    BY DEF SessionInv, DataInv, SinkTypes
  <2>7. sink.state \in {"none", "open", "closed"} /\ exit_code \in -1..255
    BY DEF SessionInv, Codes
  <2> QED
    BY <2>1, <2>2, <2>3, <2>4, <2>5, <2>6, <2>7 DEF TypeOK
<1> QED
  BY <1>1, SessionHoldsData, PTL

\* What returns without a warning has decoded all that perf script had to print,
\* for reports of any length, any pipe and any disk.  (decode_perf_data)
THEOREM UnwarnedIsWhole == Spec => []UnwarnedOutputIsWhole
<1>1. SessionInv => UnwarnedOutputIsWhole
  <2> SUFFICES ASSUME SessionInv, pc = "returned", ~warned
               PROVE  sink.disk = First(TraceOf(report, TRUE), room)
    BY DEF UnwarnedOutputIsWhole
  <2>1. WaitCode(child.result) = 0
    BY Zenon DEF SessionInv, Codes
  <2>2. child.result = Success
    BY <2>1, WaitCodes DEF SessionInv, PerfInv, Result
  <2>3. at_eof /\ sink.disk = First(TraceOf(Text, TRUE), room)
    BY DEF SessionInv, DataInv
  <2>4. pipe = <<>> /\ child.status \notin Alive
    BY <2>3 DEF SessionInv, PerfInv, AtEof
  <2>5. printed = report
    BY <2>2, <2>4 DEF SessionInv, PerfInv, Result
  <2>6. Text = report
    <3>1. Text \in Seq(Printable) /\ printed = Text \o pipe
      BY DEF SessionInv, PerfInv, Printed
    <3>2. Text \o <<>> = Text
      BY <3>1
    <3> QED
      BY <2>4, <2>5, <3>1, <3>2
  <2> QED
    BY <2>3, <2>6
<1> QED
  BY <1>1, SessionHoldsData, PTL

-----------------------------------------------------------------------------
(* Times *)

TF == INSTANCE FoldTheorems WITH Op <- AppendDigit

\* The first n digits of a time, and the number that they make with what
\* precedes them.
Digits(time, n)  == [i \in 1..n |-> Digit(time, i)]
Leading(time, n) == TF!Fold(time.hi, Digits(time, n))

Times == [hi : Nat, lo : Seq(0..9)]

\* parse_time takes TimeDigits digits.
LEMMA ParseTimeIsFold ==
  ASSUME NEW time
  PROVE  ParseTime(time) = Leading(time, TimeDigits)
<1>1. LoBuf(time.lo) = Digits(time, TimeDigits)
  BY DEF LoBuf, Digits, Digit
<1>2. \A base, seq : FoldLeft(AppendDigit, base, seq) = TF!Fold(base, seq)
  BY DEF TF!Fold, TF!FoldLeft, FoldLeft, TF!MapThenFoldSet, MapThenFoldSet, TF!Max, Max
<1> QED
  BY <1>1, <1>2 DEF ParseTime, Leading

LEMMA DigitIs ==
  ASSUME NEW time \in Times, NEW i
  PROVE  Digit(time, i) \in 0..9
BY DEF Digit, Times

LEMMA LeadingNone ==
  ASSUME NEW time \in Times
  PROVE  Leading(time, 0) = time.hi
<1>1. Digits(time, 0) = <<>>
  BY DEF Digits
<1> QED
  BY <1>1, TF!FoldEmpty DEF Leading

LEMMA LeadingOneMore ==
  ASSUME NEW time \in Times, NEW n \in Nat
  PROVE  Leading(time, n + 1) = 10 * Leading(time, n) + Digit(time, n + 1)
<1>1. Digits(time, n) \in Seq(0..9) /\ Digit(time, n + 1) \in 0..9
  BY DigitIs DEF Digits
<1>2. Digits(time, n + 1) = Append(Digits(time, n), Digit(time, n + 1))
  <2>1. Len(Digits(time, n)) = n
    BY DEF Digits
  <2> QED
    BY <1>1, <2>1 DEF Digits
<1>3. TF!Fold(time.hi, Append(Digits(time, n), Digit(time, n + 1)))
        = AppendDigit(TF!Fold(time.hi, Digits(time, n)), Digit(time, n + 1))
  BY <1>1, TF!FoldAppend
<1> QED
  BY <1>2, <1>3 DEF Leading, AppendDigit

LEMMA LeadingIsNat ==
  ASSUME NEW time \in Times
  PROVE  \A n \in Nat : Leading(time, n) \in Nat
<1> DEFINE S == {n \in Nat : Leading(time, n) \in Nat}
<1>1. 0 \in S
  BY LeadingNone DEF Times
<1>2. ASSUME NEW n \in Nat, n \in S PROVE n + 1 \in S
  BY <1>2, LeadingOneMore, DigitIs
<1> HIDE DEF S
<1>3. \A n \in Nat : n \in S
  BY <1>1, <1>2, TF!Induction
<1> QED
  BY <1>3 DEF S

\* As far as they have been read, the earlier of two times is the smaller number
\* or they are the same.
LEMMA LeadingInOrder ==
  ASSUME NEW a \in Times, NEW b \in Times, NotLater(a, b)
  PROVE  \A n \in Nat : Leading(a, n) <= Leading(b, n)
<1> DEFINE Same(n) == /\ Leading(a, n) = Leading(b, n) /\ a.hi = b.hi
                      /\ \A i \in 1..n : Digit(a, i) = Digit(b, i)
           S == {n \in Nat : Leading(a, n) < Leading(b, n) \/ Same(n)}
<1>1. 0 \in S
  <2>1. a.hi < b.hi \/ a.hi = b.hi
    BY DEF NotLater
  <2> QED
    BY <2>1, LeadingNone
<1>2. ASSUME NEW n \in Nat, n \in S PROVE n + 1 \in S
  <2>1. /\ Leading(a, n + 1) = 10 * Leading(a, n) + Digit(a, n + 1)
        /\ Leading(b, n + 1) = 10 * Leading(b, n) + Digit(b, n + 1)
    BY LeadingOneMore
  <2>2. Leading(a, n) \in Nat /\ Leading(b, n) \in Nat
    BY LeadingIsNat
  <2>3. Digit(a, n + 1) \in 0..9 /\ Digit(b, n + 1) \in 0..9
    BY DigitIs
  <2>4. CASE Leading(a, n) < Leading(b, n)
    <3>1. Leading(a, n + 1) < Leading(b, n + 1)
      BY <2>1, <2>2, <2>3, <2>4
    <3> QED
      BY <3>1
  <2>5. CASE Same(n)
    <3>1. ~(Digit(a, n + 1) > Digit(b, n + 1))
      <4> SUFFICES ASSUME Digit(a, n + 1) > Digit(b, n + 1) PROVE FALSE
        OBVIOUS
      <4>1. n + 1 \in DOMAIN a.lo
        BY <2>3 DEF Digit
      <4>2. a.hi \in Nat /\ b.hi \in Nat
        BY DEF Times
      <4>3. PICK j \in 1..(n + 1 - 1) : Digit(a, j) < Digit(b, j)
        BY <2>5, <4>1, <4>2 DEF NotLater
      <4>4. j \in 1..n /\ Digit(a, j) \in 0..9
        BY DigitIs
      <4> QED
        BY <2>5, <4>3, <4>4
    <3>2. CASE Digit(a, n + 1) < Digit(b, n + 1)
      <4>1. Leading(a, n + 1) < Leading(b, n + 1)
        BY <2>1, <2>2, <2>3, <2>5, <3>2
      <4> QED
        BY <4>1
    <3>3. CASE Digit(a, n + 1) = Digit(b, n + 1)
      <4>1. Same(n + 1)
        <5>1. \A i \in 1..(n + 1) : i \in 1..n \/ i = n + 1
          OBVIOUS
        <5> QED
          BY <2>1, <2>5, <3>3, <5>1
      <4> QED
        BY <4>1
    <3> QED
      BY <2>3, <3>1, <3>2, <3>3
  <2> QED
    BY <1>2, <2>4, <2>5
<1> HIDE DEF S
<1>3. \A n \in Nat : n \in S
  BY <1>1, <1>2, TF!Induction
<1> QED
  <2> SUFFICES ASSUME NEW n \in Nat PROVE Leading(a, n) <= Leading(b, n)
    OBVIOUS
  <2>1. Leading(a, n) \in Nat /\ Leading(b, n) \in Nat
    BY LeadingIsNat
  <2>2. Leading(a, n) < Leading(b, n) \/ Leading(a, n) = Leading(b, n)
    BY <1>3 DEF S
  <2> QED
    BY <2>1, <2>2

\* Lines in time order make events in time order, for fractions of any number of
\* digits of which the code takes any number.  (parse_time)
THEOREM TimesInOrder == Spec => []TimesKeepTheirOrder
<1>1. SessionInv => TimesKeepTheirOrder
  <2> SUFFICES ASSUME SessionInv,
                      NEW i \in DOMAIN report, NEW j \in DOMAIN report,
                      report[i].form = "header", report[j].form = "header",
                      NotLater(report[i].time, report[j].time)
               PROVE  ParseTime(report[i].time) <= ParseTime(report[j].time)
    BY DEF TimesKeepTheirOrder
  <2>1. report \in Seq(Lines)
    BY DEF SessionInv, PerfInv, Printed
  <2>2. report[i] \in Lines /\ report[j] \in Lines
    BY <2>1
  <2>3. report[i].time \in Times /\ report[j].time \in Times
    BY <2>2, TimesAssumption DEF Times
  <2> QED
    BY <2>3, DigitsAssumption, LeadingInOrder, ParseTimeIsFold
<1> QED
  BY <1>1, SessionHoldsData, PTL

-----------------------------------------------------------------------------
(* The refinement *)

LEMMA InitOutput == Init => Output!Init
BY DEF Init, Output!Init, Text

\* A step reads a line or none, and what it has written follows the text.
LEMMA StepOutput ==
  ASSUME SessionInv, [Next]_vars
  PROVE  Output!Next
<1>1. SessionInv'
  BY SessionStep
<1>2. Starts(sink.disk, sink'.disk)
  BY ToolData, EnvironmentData, StartsItself
  DEF SessionInv, Next, vars, dataVars, DataInv, SinkTypes
<1>3. Starts(sink'.disk, TraceOf(Text', at_eof'))
  <2>1. (Starts(sink.disk, TraceOf(Text, at_eof)))'
    BY <1>1, DiskStartsTrace, PTL DEF SessionInv
  <2> QED
    BY <2>1 DEF Starts
<1>4. IsPrefix(sink.disk, sink'.disk) /\ IsPrefix(sink'.disk, TraceOf(Text', at_eof'))
  <2>1. PICK old, new, trace :
          old = sink.disk /\ new = sink'.disk /\ trace = TraceOf(Text', at_eof')
    OBVIOUS
  <2>2. old \in Seq(Records) /\ new \in Seq(Records)
    BY <1>1, <2>1 DEF SessionInv, DataInv, SinkTypes
  <2>3. trace \in Seq(Records)
    <3>1. PICK text, complete : text = Text' /\ complete = at_eof'
      OBVIOUS
    <3>2. text \in Seq(Printable)
      BY <1>1, <3>1 DEF SessionInv, PerfInv, Printed
    <3> QED
      BY <2>1, <3>1, <3>2, TraceType
  <2>4. IsPrefix(old, new) /\ IsPrefix(new, trace)
    BY <1>2, <1>3, <2>1, <2>2, <2>3, StartsIsPrefix
  <2> QED
    BY <2>1, <2>4
<1>5. Text' = Text \/ (~at_eof /\ \E line \in Printable : Text' = Append(Text, line))
  <2>1. CASE UNCHANGED vars
    BY <2>1 DEF vars, childVars, Text
  <2>2. CASE PerfScript \/ (Killed /\ Environment)
    BY <2>2, PerfPerf DEF SessionInv
  <2>3. CASE ToolStep
    <3>1. CASE ReadLine
      <4>1. Head(pipe) \in Printable /\ Text' = Append(Text, Head(pipe))
        BY <2>3, <3>1, ReadLinePerf
        DEF ReadLine, ToolStep, childVars, resultVars, SessionInv
      <4>2. ~at_eof
        BY <3>1 DEF ReadLine, SessionInv, DataInv
      <4> QED
        BY <4>1, <4>2
    <3>2. CASE ~ReadLine
      BY <2>3, <3>2, ToolPerf DEF SessionInv
    <3> QED
      BY <3>1, <3>2
  <2> QED
    BY <2>1, <2>2, <2>3 DEF Next
<1>6. at_eof' \in {at_eof, TRUE}
  BY DEF Next, vars, ToolStep, Spawn, SpawnFails, MakeSink, WritePreamble, ReadLine, EndOfFile,
         FinishDecoding, Wait, WaitPid, Return, Unwind, DropPipe, DropChild, ClosePipe, Reap,
         PerfScript, Environment, resultVars
<1> QED
  BY <1>4, <1>5, <1>6, Zenon DEF Output!Next, Output!IsPrefix, IsPrefix

\* Whatever fails and whenever: the output grows as a prefix of the trace of what
\* has been read.  (feed_line, parse_group, write)
THEOREM OutputIsOfTheText == Spec => OutputFollowsText
<1>1. SessionInv /\ [Next]_vars => [Output!Next]_<<Text, at_eof, sink.disk>>
  BY StepOutput
<1> QED
  BY <1>1, InitOutput, SessionHoldsData, PTL DEF Spec, OutputFollowsText, Output!Spec
=============================================================================
