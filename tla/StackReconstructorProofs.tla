----------------------- MODULE StackReconstructorProofs -----------------------
(***************************************************************************)
(* Proofs about StackReconstructor.  What a thread has written and what it *)
(* still has pending, taken together, bring the viewer to the frames that  *)
(* are open on its callstacks: every handler keeps that up, and all the    *)
(* properties of the nesting follow from it.  In StackContexts the         *)
(* callstacks are in addition those of the program's contexts, and the     *)
(* spans that a context found when it was entered stay open as long as it  *)
(* lasts: every branch of a program keeps that up.                         *)
(***************************************************************************)
EXTENDS StackContexts, FiniteSetTheorems, TLAPS

-----------------------------------------------------------------------------
(* Types of what a handler works on *)

PendingEvent ==
  [kind : {"Call", "Ret", "RetFromUntraced"}, symbol : Frames, reset_time : Time]
OutEvent  == [type : {"begin", "end"}, symbol : Frames, time : Int]
Callstack == [stack : Seq(Frames), create_time : Time]

ThreadInfo ==
  [ stack           : Seq(Frames),
    create_time     : Time,
    inactive        : Seq(Callstack),
    pending         : Seq(PendingEvent),
    pending_time    : Time,
    last_event_time : Time,
    out             : Seq(OutEvent) ]

Span == [symbol : Frames, nth : Nat]
Wrongs == {"late begin", "late end", "unmatched"}
View ==
  [ open   : Seq(Span),
    begins : Nat,
    high   : Int,
    wrong  : SUBSET Wrongs ]

-----------------------------------------------------------------------------
(* What pending events make of the frames that are open.  ok turns false at  *)
(* a return that does not return from the innermost one.                     *)

Opened == [ok : BOOLEAN, stack : Seq(Frames)]

Settle(s, ev) ==
  IF ev.kind = "Call" THEN [s EXCEPT !.stack = Append(@, ev.symbol)]
  ELSE IF ev.kind # "Ret" THEN s
  ELSE IF s.stack # <<>> /\ Last(s.stack) = ev.symbol
       THEN [s EXCEPT !.stack = Front(@)]
       ELSE [s EXCEPT !.ok = FALSE]

RF == INSTANCE FoldTheorems WITH Op <- Replay
SF == INSTANCE FoldTheorems WITH Op <- Settle

Open(frames) == [ok |-> TRUE, stack |-> frames]

\* With the frames from open, the pending events evs leave the frames to open.
Leads(from, evs, to) == SF!Fold(Open(from), evs) = Open(to)

\* ReplayAll is the fold that FoldTheorems is about.
LEMMA ReplayAllIsFold ==
  ASSUME NEW v, NEW written
  PROVE  ReplayAll(v, written) = RF!Fold(v, written)
BY DEF ReplayAll, RF!Fold, RF!FoldLeft, FoldLeft, RF!MapThenFoldSet, MapThenFoldSet,
       RF!Max, Max

LEMMA ReplayNothing ==
  ASSUME NEW v
  PROVE  ReplayAll(v, <<>>) = v
BY ReplayAllIsFold, RF!FoldEmpty

LEMMA ReplayOneMore ==
  ASSUME NEW v, NEW T, NEW written \in Seq(T), NEW e \in T
  PROVE  ReplayAll(v, Append(written, e)) = Replay(ReplayAll(v, written), e)
<1>1. RF!Fold(v, Append(written, e)) = Replay(RF!Fold(v, written), e)
  BY RF!FoldAppend
<1> QED
  BY <1>1, ReplayAllIsFold

LEMMA ReplayConcat ==
  ASSUME NEW v, NEW T, NEW first \in Seq(T), NEW second \in Seq(T)
  PROVE  ReplayAll(v, first \o second) = ReplayAll(ReplayAll(v, first), second)
<1>1. RF!Fold(v, first \o second) = RF!Fold(RF!Fold(v, first), second)
  BY RF!FoldConcat
<1> QED
  BY <1>1, ReplayAllIsFold

LEMMA FlattenNothing == FlattenSeq(<<>>) = <<>>
BY DEF FlattenSeq

LEMMA FlattenOneMore ==
  ASSUME NEW T, NEW parts \in Seq(Seq(T)), NEW part \in Seq(T)
  PROVE  /\ FlattenSeq(Append(parts, part)) = FlattenSeq(parts) \o part
         /\ FlattenSeq(parts) \in Seq(T)
BY RF!FlattenAppend, RF!FlattenType DEF RF!FlattenSeq, FlattenSeq

-----------------------------------------------------------------------------
(* Leads *)

LEMMA LeadsNowhere ==
  ASSUME NEW from
  PROVE  Leads(from, <<>>, from)
BY SF!FoldEmpty DEF Leads

LEMMA LeadsOn ==
  ASSUME NEW from, NEW via, NEW to,
         NEW first \in Seq(PendingEvent), NEW second \in Seq(PendingEvent),
         Leads(from, first, via), Leads(via, second, to)
  PROVE  Leads(from, first \o second, to)
<1>1. SF!Fold(Open(from), first \o second) = SF!Fold(SF!Fold(Open(from), first), second)
  BY SF!FoldConcat
<1> QED
  BY <1>1 DEF Leads

LEMMA LeadsByOne ==
  ASSUME NEW from, NEW ev \in PendingEvent
  PROVE  SF!Fold(Open(from), <<ev>>) = Settle(Open(from), ev)
<1>1. <<>> \in Seq(PendingEvent) /\ <<ev>> = Append(<<>>, ev)
  OBVIOUS
<1>2. SF!Fold(Open(from), Append(<<>>, ev)) = Settle(SF!Fold(Open(from), <<>>), ev)
  BY <1>1, SF!FoldAppend, ZenonT(60)
<1> QED
  BY <1>1, <1>2, SF!FoldEmpty

LEMMA LeadsByCall ==
  ASSUME NEW from \in Seq(Frames), NEW f \in Frames
  PROVE  /\ CallEvent(f) \in PendingEvent
         /\ Leads(from, <<CallEvent(f)>>, Append(from, f))
<1>1. CallEvent(f) \in PendingEvent
  BY TimeAssumption DEF CallEvent, PendingEvent, Time
<1>2. Settle(Open(from), CallEvent(f)) = Open(Append(from, f))
  BY DEF Settle, Open, CallEvent
<1> QED
  BY <1>1, <1>2, LeadsByOne DEF Leads

LEMMA LeadsByRet ==
  ASSUME NEW from \in Seq(Frames), NEW f \in Frames
  PROVE  /\ RetEvent(f) \in PendingEvent
         /\ Leads(Append(from, f), <<RetEvent(f)>>, from)
<1>1. RetEvent(f) \in PendingEvent
  BY TimeAssumption DEF RetEvent, PendingEvent, Time
<1>2. /\ Append(from, f) # <<>> /\ Last(Append(from, f)) = f
      /\ Front(Append(from, f)) = from
  BY DEF Last, Front
<1>3. Settle(Open(Append(from, f)), RetEvent(f)) = Open(from)
  BY <1>2 DEF Settle, Open, RetEvent
<1> QED
  BY <1>1, <1>3, LeadsByOne DEF Leads

LEMMA LeadsByRetFromUntraced ==
  ASSUME NEW from \in Seq(Frames), NEW time \in Time
  PROVE  /\ RetFromUntraced(time) \in PendingEvent
         /\ Leads(from, <<RetFromUntraced(time)>>, from)
<1>1. RetFromUntraced(time) \in PendingEvent
  BY DEF RetFromUntraced, PendingEvent, Frames
<1>2. Settle(Open(from), RetFromUntraced(time)) = Open(from)
  BY DEF Settle, Open, RetFromUntraced
<1> QED
  BY <1>1, <1>2, LeadsByOne DEF Leads

LEMMA ConcatType ==
  ASSUME NEW T, NEW first \in Seq(T), NEW second \in Seq(T)
  PROVE  first \o second \in Seq(T)
OBVIOUS

LEMMA ConcatEmpty ==
  ASSUME NEW T
  PROVE  /\ <<>> \in Seq(T)
         /\ \A seq \in Seq(T) : seq \o <<>> = seq /\ <<>> \o seq = seq
OBVIOUS

LEMMA ConcatAppend ==
  ASSUME NEW T, NEW first \in Seq(T), NEW second \in Seq(T), NEW e \in T
  PROVE  first \o Append(second, e) = Append(first \o second, e)
OBVIOUS

\* Calls of the frames, outermost first, open them.
LEMMA LeadsByCalls ==
  ASSUME NEW from \in Seq(Frames), NEW frames \in Seq(Frames)
  PROVE  /\ CallsOf(frames) \in Seq(PendingEvent)
         /\ Leads(from, CallsOf(frames), from \o frames)
<1>1. CallsOf(<<>>) = <<>>
  BY DEF CallsOf
<1>2. ASSUME NEW fs \in Seq(Frames), NEW f \in Frames,
             CallsOf(fs) \in Seq(PendingEvent), Leads(from, CallsOf(fs), from \o fs)
      PROVE  /\ CallsOf(Append(fs, f)) \in Seq(PendingEvent)
             /\ Leads(from, CallsOf(Append(fs, f)), from \o Append(fs, f))
  <2>1. CallsOf(Append(fs, f)) = CallsOf(fs) \o <<CallEvent(f)>>
    BY DEF CallsOf
  <2>2. /\ CallEvent(f) \in PendingEvent
        /\ Leads(from \o fs, <<CallEvent(f)>>, Append(from \o fs, f))
    BY ConcatType, LeadsByCall
  <2>3. <<CallEvent(f)>> \in Seq(PendingEvent)
    BY <2>2
  <2>4. Leads(from, CallsOf(fs) \o <<CallEvent(f)>>, Append(from \o fs, f))
    BY <1>2, <2>2, <2>3, LeadsOn
  <2>5. CallsOf(fs) \o <<CallEvent(f)>> \in Seq(PendingEvent)
    BY <1>2, <2>3, ConcatType
  <2>6. from \o Append(fs, f) = Append(from \o fs, f)
    BY ConcatAppend
  <2> QED
    BY <2>1, <2>4, <2>5, <2>6
<1> DEFINE S == {fs \in Seq(Frames) : /\ CallsOf(fs) \in Seq(PendingEvent)
                                      /\ Leads(from, CallsOf(fs), from \o fs)}
<1>3. <<>> \in S
  <2>1. <<>> \in Seq(Frames) /\ CallsOf(<<>>) \in Seq(PendingEvent)
    BY <1>1, ConcatEmpty
  <2>2. Leads(from, CallsOf(<<>>), from \o <<>>)
    BY <1>1, ConcatEmpty, LeadsNowhere
  <2> QED
    BY <2>1, <2>2
<1>4. \A fs \in Seq(Frames), f \in Frames : fs \in S => Append(fs, f) \in S
  BY <1>2
<1> HIDE DEF S
<1>5. frames \in S
  BY <1>3, <1>4, RF!AppendInduction
<1> QED
  BY <1>5 DEF S

\* Returns from the frames, innermost first, close them.
LEMMA ReturnsOfOneMore ==
  ASSUME NEW fs \in Seq(Frames), NEW f \in Frames
  PROVE  ReturnsOf(Append(fs, f)) = <<RetEvent(f)>> \o ReturnsOf(fs)
<1> DEFINE n == Len(fs)
           longer == Append(fs, f)
<1>1. /\ n \in Nat /\ Len(longer) = n + 1 /\ longer[n + 1] = f
      /\ \A i \in 1..n : longer[i] = fs[i]
  OBVIOUS
<1>2. ReturnsOf(fs) = [i \in 1..n |-> RetEvent(fs[(n - i) + 1])]
  BY DEF ReturnsOf, Reverse
<1> HIDE DEF n
<1>3. ReturnsOf(longer) = [i \in 1..(n + 1) |-> RetEvent(longer[((n + 1) - i) + 1])]
  BY <1>1 DEF ReturnsOf, Reverse
<1> HIDE DEF longer
<1>4. ReturnsOf(longer) = [i \in 1..(n + 1) |-> IF i = 1 THEN RetEvent(f)
                                                ELSE ReturnsOf(fs)[i - 1]]
  BY <1>1, <1>2, <1>3
<1>5. <<RetEvent(f)>> \o ReturnsOf(fs)
        = [i \in 1..(n + 1) |-> IF i = 1 THEN RetEvent(f) ELSE ReturnsOf(fs)[i - 1]]
  <2> DEFINE Returns == {RetEvent(g) : g \in Frames}
  <2>1. n \in Nat /\ \A i \in 1..n : RetEvent(fs[(n - i) + 1]) \in Returns
    BY DEF n
  <2> HIDE DEF Returns
  <2>2. ReturnsOf(fs) \in Seq(Returns) /\ Len(ReturnsOf(fs)) = n
    BY <1>2, <2>1
  <2> QED
    BY <2>1, <2>2
<1> QED
  BY <1>4, <1>5 DEF longer

LEMMA LeadsByReturns ==
  ASSUME NEW from \in Seq(Frames), NEW frames \in Seq(Frames)
  PROVE  /\ ReturnsOf(frames) \in Seq(PendingEvent)
         /\ Leads(from \o frames, ReturnsOf(frames), from)
<1>1. ReturnsOf(<<>>) = <<>>
  BY DEF ReturnsOf
<1>2. ASSUME NEW fs \in Seq(Frames), NEW f \in Frames,
             ReturnsOf(fs) \in Seq(PendingEvent), Leads(from \o fs, ReturnsOf(fs), from)
      PROVE  /\ ReturnsOf(Append(fs, f)) \in Seq(PendingEvent)
             /\ Leads(from \o Append(fs, f), ReturnsOf(Append(fs, f)), from)
  <2>1. /\ RetEvent(f) \in PendingEvent
        /\ Leads(Append(from \o fs, f), <<RetEvent(f)>>, from \o fs)
    BY ConcatType, LeadsByRet
  <2>2. <<RetEvent(f)>> \in Seq(PendingEvent)
    BY <2>1
  <2>3. Leads(Append(from \o fs, f), <<RetEvent(f)>> \o ReturnsOf(fs), from)
    BY <1>2, <2>1, <2>2, LeadsOn
  <2>4. <<RetEvent(f)>> \o ReturnsOf(fs) \in Seq(PendingEvent)
    BY <1>2, <2>2, ConcatType
  <2>5. from \o Append(fs, f) = Append(from \o fs, f)
    BY ConcatAppend
  <2> QED
    BY <2>3, <2>4, <2>5, ReturnsOfOneMore
<1> DEFINE S == {fs \in Seq(Frames) : /\ ReturnsOf(fs) \in Seq(PendingEvent)
                                      /\ Leads(from \o fs, ReturnsOf(fs), from)}
<1>3. <<>> \in S
  <2>1. <<>> \in Seq(Frames) /\ ReturnsOf(<<>>) \in Seq(PendingEvent)
    BY <1>1, ConcatEmpty
  <2>2. Leads(from \o <<>>, ReturnsOf(<<>>), from)
    BY <1>1, ConcatEmpty, LeadsNowhere
  <2> QED
    BY <2>1, <2>2
<1>4. \A fs \in Seq(Frames), f \in Frames : fs \in S => Append(fs, f) \in S
  BY <1>2
<1> HIDE DEF S
<1>5. frames \in S
  BY <1>3, <1>4, RF!AppendInduction
<1> QED
  BY <1>5 DEF S
-----------------------------------------------------------------------------
(* What the viewer makes of one event *)

LEMMA MaxOfTwo ==
  ASSUME NEW a \in Int, NEW b \in Int
  PROVE  Max({a, b}) = IF a >= b THEN a ELSE b
<1> DEFINE m == IF a >= b THEN a ELSE b
<1>1. m \in {a, b} /\ \A y \in {a, b} : m >= y
  OBVIOUS
<1>2. \A x \in {a, b} : (\A y \in {a, b} : x >= y) => x = m
  OBVIOUS
<1> HIDE DEF m
<1>3. Max({a, b}) = m
  BY <1>1, <1>2 DEF Max
<1> QED
  BY <1>3 DEF m

LEMMA SymbolicOneMore ==
  ASSUME NEW spans \in Seq(Span), NEW span \in Span
  PROVE  /\ Symbolic(spans) \in Seq(Frames)
         /\ Symbolic(Append(spans, span)) = Append(Symbolic(spans), span.symbol)
<1>1. \A sp \in Span : sp.symbol \in Frames
  BY DEF Span
<1> QED
  BY <1>1 DEF Symbolic

LEMMA SymbolicType ==
  ASSUME NEW spans \in Seq(Span)
  PROVE  Symbolic(spans) \in Seq(Frames) /\ Len(Symbolic(spans)) = Len(spans)
<1>1. \A sp \in Span : sp.symbol \in Frames
  BY DEF Span
<1> QED
  BY <1>1 DEF Symbolic

LEMMA SymbolicFront ==
  ASSUME NEW spans \in Seq(Span), spans # <<>>
  PROVE  /\ Symbolic(spans) # <<>> /\ Last(Symbolic(spans)) = Last(spans).symbol
         /\ Front(spans) \in Seq(Span)
         /\ Symbolic(Front(spans)) = Front(Symbolic(spans))
<1> DEFINE n == Len(spans)
<1>1. n \in Nat \ {0} /\ DOMAIN spans = 1..n
  OBVIOUS
<1>2. Front(spans) \in Seq(Span) /\ Front(spans) = [i \in 1..(n - 1) |-> spans[i]]
  BY DEF Front
<1>3. Symbolic(Front(spans)) = [i \in 1..(n - 1) |-> spans[i].symbol]
  BY <1>1, <1>2 DEF Symbolic
<1>4. /\ Symbolic(spans) \in Seq(Frames) /\ Len(Symbolic(spans)) = n
      /\ \A i \in 1..n : Symbolic(spans)[i] = spans[i].symbol
  BY <1>1, SymbolicType DEF Symbolic
<1>5. Front(Symbolic(spans)) = [i \in 1..(n - 1) |-> spans[i].symbol]
  BY <1>1, <1>4 DEF Front
<1> QED
  BY <1>1, <1>2, <1>3, <1>4, <1>5 DEF Last

Later(a, b) == IF a >= b THEN a ELSE b

LEMMA ViewFields ==
  ASSUME NEW v \in View
  PROVE  /\ v.open \in Seq(Span) /\ v.begins \in Nat /\ v.high \in Int
         /\ v.wrong \in SUBSET Wrongs
         /\ v = [open |-> v.open, begins |-> v.begins, high |-> v.high, wrong |-> v.wrong]
BY DEF View

LEMMA ViewOfFields ==
  ASSUME NEW open \in Seq(Span), NEW begins \in Nat, NEW high \in Int,
         NEW wrong \in SUBSET Wrongs
  PROVE  [open |-> open, begins |-> begins, high |-> high, wrong |-> wrong] \in View
BY DEF View

Late(v, e) ==
  IF e.time >= v.high THEN {}
  ELSE IF e.type = "begin" THEN {"late begin"} ELSE {"late end"}

LEMMA LateType ==
  ASSUME NEW v, NEW e
  PROVE  /\ Late(v, e) \in SUBSET Wrongs /\ "unmatched" \notin Late(v, e)
         /\ "late end" \in Late(v, e) <=> ~(e.time >= v.high) /\ e.type # "begin"
BY DEF Late, Wrongs

\* The view after an event: what it has open and what it found wrong.
Viewed(v, e, open, begins, wrong) ==
  [open |-> open, begins |-> begins, high |-> Later(v.high, e.time), wrong |-> wrong]

LEMMA ViewedType ==
  ASSUME NEW v \in View, NEW e \in OutEvent, NEW open \in Seq(Span), NEW begins \in Nat,
         NEW wrong \in SUBSET Wrongs
  PROVE  Viewed(v, e, open, begins, wrong) \in View
<1>1. v.high \in Int /\ e.time \in Int
  BY ViewFields DEF OutEvent
<1>2. Later(v.high, e.time) \in Int
  BY <1>1 DEF Later
<1> QED
  BY <1>2, ViewOfFields DEF Viewed

\* A begin opens a span, whatever its time.
LEMMA ReplayBegin ==
  ASSUME NEW v \in View, NEW e \in OutEvent, e.type = "begin"
  PROVE  /\ Replay(v, e) \in View
         /\ Symbolic(Replay(v, e).open) = Append(Symbolic(v.open), e.symbol)
         /\ Replay(v, e).high = Later(v.high, e.time)
         /\ "unmatched" \in Replay(v, e).wrong <=> "unmatched" \in v.wrong
         /\ "late end" \in Replay(v, e).wrong <=> "late end" \in v.wrong
<1> DEFINE span == [symbol |-> e.symbol, nth |-> v.begins]
           wrong == v.wrong \cup Late(v, e)
<1>1. v.high \in Int /\ e.time \in Int /\ e.symbol \in Frames /\ v.begins \in Nat
  BY ViewFields DEF OutEvent
<1>2. span \in Span /\ span.symbol = e.symbol
  BY <1>1 DEF Span
<1>3. Max({v.high, e.time}) = Later(v.high, e.time)
  BY <1>1, MaxOfTwo DEF Later
<1>4. Replay(v, e) = Viewed(v, e, Append(v.open, span), v.begins + 1, wrong)
  BY <1>3 DEF Replay, Viewed, View, Late
<1>5. /\ wrong \in SUBSET Wrongs
      /\ "unmatched" \in wrong <=> "unmatched" \in v.wrong
      /\ "late end" \in wrong <=> "late end" \in v.wrong
  BY LateType, ViewFields
<1> HIDE DEF span, wrong
<1>6. v.open \in Seq(Span)
  BY ViewFields
<1>7. Append(v.open, span) \in Seq(Span) /\ v.begins + 1 \in Nat
  BY <1>1, <1>2, <1>6
<1>8. Symbolic(Append(v.open, span)) = Append(Symbolic(v.open), e.symbol)
  BY <1>2, <1>6, SymbolicOneMore
<1>9. Replay(v, e) \in View
  BY <1>4, <1>5, <1>7, ViewedType
<1>10. /\ Replay(v, e).open = Append(v.open, span)
       /\ Replay(v, e).high = Later(v.high, e.time)
       /\ Replay(v, e).wrong = wrong
  BY <1>4 DEF Viewed
<1> QED
  BY <1>5, <1>8, <1>9, <1>10

\* An end of the innermost span closes it; an earlier end than what was seen is late.
LEMMA ReplayEnd ==
  ASSUME NEW v \in View, NEW e \in OutEvent, e.type = "end"
  PROVE  /\ Replay(v, e) \in View
         /\ Replay(v, e).high = Later(v.high, e.time)
         /\ "late end" \in Replay(v, e).wrong <=>
              "late end" \in v.wrong \/ ~(e.time >= v.high)
         /\ Symbolic(v.open) # <<>> /\ Last(Symbolic(v.open)) = e.symbol =>
              /\ Symbolic(Replay(v, e).open) = Front(Symbolic(v.open))
              /\ "unmatched" \in Replay(v, e).wrong <=> "unmatched" \in v.wrong
<1>1. v.open \in Seq(Span) /\ v.high \in Int /\ e.time \in Int /\ v.begins \in Nat
  BY ViewFields DEF OutEvent
<1>2. Max({v.high, e.time}) = Later(v.high, e.time)
  BY <1>1, MaxOfTwo DEF Later
<1>3. CASE v.open # <<>> /\ Last(v.open).symbol = e.symbol
  <2> DEFINE wrong == v.wrong \cup Late(v, e)
  <2>1. Replay(v, e) = Viewed(v, e, Front(v.open), v.begins, wrong)
    BY <1>2, <1>3 DEF Replay, Viewed, View, Late
  <2>2. /\ Front(v.open) \in Seq(Span)
        /\ Symbolic(Front(v.open)) = Front(Symbolic(v.open))
    BY <1>1, <1>3, SymbolicFront
  <2>3. /\ wrong \in SUBSET Wrongs
        /\ "unmatched" \in wrong <=> "unmatched" \in v.wrong
        /\ "late end" \in wrong <=> "late end" \in v.wrong \/ ~(e.time >= v.high)
    BY LateType, ViewFields
  <2> HIDE DEF wrong
  <2>4. Replay(v, e) \in View
    BY <1>1, <2>1, <2>2, <2>3, ViewedType
  <2>5. /\ Replay(v, e).open = Front(v.open) /\ Replay(v, e).wrong = wrong
        /\ Replay(v, e).high = Later(v.high, e.time)
    BY <2>1 DEF Viewed
  <2> QED
    BY <2>2, <2>3, <2>4, <2>5
<1>4. CASE v.open = <<>> \/ Last(v.open).symbol # e.symbol
  <2> DEFINE wrong == (v.wrong \cup Late(v, e)) \cup {"unmatched"}
  <2>1. Replay(v, e) = Viewed(v, e, v.open, v.begins, wrong)
    BY <1>2, <1>4 DEF Replay, Viewed, View, Late
  <2>2. ~(Symbolic(v.open) # <<>> /\ Last(Symbolic(v.open)) = e.symbol)
    <3>1. CASE v.open = <<>>
      <4>1. Symbolic(v.open) = <<>>
        BY <3>1 DEF Symbolic
      <4> QED
        BY <4>1
    <3>2. CASE v.open # <<>>
      BY <1>1, <1>4, <3>2, SymbolicFront
    <3> QED
      BY <3>1, <3>2
  <2>3. /\ wrong \in SUBSET Wrongs
        /\ "late end" \in wrong <=> "late end" \in v.wrong \/ ~(e.time >= v.high)
    BY LateType, ViewFields DEF Wrongs
  <2> HIDE DEF wrong
  <2>4. Replay(v, e) \in View
    BY <1>1, <2>1, <2>3, ViewedType
  <2>5. Replay(v, e).high = Later(v.high, e.time) /\ Replay(v, e).wrong = wrong
    BY <2>1 DEF Viewed
  <2> QED
    BY <2>2, <2>3, <2>4, <2>5
<1> QED
  BY <1>3, <1>4

-----------------------------------------------------------------------------
(* What the viewer makes of a pending event once it is written *)

\* As long as s is ok, v has the frames of s open and found nothing unmatched.
Shows(v, s) ==
  s.ok => Symbolic(v.open) = s.stack /\ "unmatched" \notin v.wrong

LEMMA SettleType ==
  ASSUME NEW s \in Opened, NEW ev \in PendingEvent
  PROVE  Settle(s, ev) \in Opened
<1>1. ev.symbol \in Frames /\ s.stack \in Seq(Frames)
  BY DEF Opened, PendingEvent
<1>2. Append(s.stack, ev.symbol) \in Seq(Frames)
  BY <1>1
<1>3. s.stack # <<>> => Front(s.stack) \in Seq(Frames)
  BY <1>1 DEF Front
<1> QED
  BY <1>2, <1>3 DEF Settle, Opened

LEMMA ReplayOne ==
  ASSUME NEW v, NEW e \in OutEvent
  PROVE  ReplayAll(v, <<e>>) = Replay(v, e)
<1>1. <<>> \in Seq(OutEvent) /\ <<e>> = Append(<<>>, e)
  OBVIOUS
<1>2. ReplayAll(v, Append(<<>>, e)) = Replay(ReplayAll(v, <<>>), e)
  BY <1>1, ReplayOneMore, ZenonT(60)
<1> QED
  BY <1>1, <1>2, ReplayNothing

LEMMA ReplayTwo ==
  ASSUME NEW v, NEW e \in OutEvent, NEW f \in OutEvent
  PROVE  ReplayAll(v, <<e, f>>) = Replay(Replay(v, e), f)
<1>1. <<e>> \in Seq(OutEvent) /\ <<e, f>> = Append(<<e>>, f)
  OBVIOUS
<1>2. ReplayAll(v, Append(<<e>>, f)) = Replay(ReplayAll(v, <<e>>), f)
  BY <1>1, ReplayOneMore, ZenonT(60)
<1> QED
  BY <1>1, <1>2, ReplayOne

LEMMA WrittenByKind ==
  ASSUME NEW ev \in PendingEvent, NEW time \in Int
  PROVE  /\ ev.kind = "Call" => Written(ev, time) = <<BeginAt(ev.symbol, time)>>
         /\ ev.kind = "Ret" => Written(ev, time) = <<EndAt(ev.symbol, time)>>
         /\ ev.kind = "RetFromUntraced" =>
              Written(ev, time) = <<BeginAt(Unknown, ev.reset_time), EndAt(Unknown, time)>>
         /\ BeginAt(ev.symbol, time) \in OutEvent /\ BeginAt(ev.symbol, time).type = "begin"
         /\ EndAt(ev.symbol, time) \in OutEvent /\ EndAt(ev.symbol, time).type = "end"
         /\ BeginAt(Unknown, ev.reset_time) \in OutEvent
         /\ BeginAt(Unknown, ev.reset_time).type = "begin"
         /\ EndAt(Unknown, time) \in OutEvent /\ EndAt(Unknown, time).type = "end"
         /\ Written(ev, time) \in Seq(OutEvent)
<1>1. /\ ev.kind = "Call" => Written(ev, time) = <<BeginAt(ev.symbol, time)>>
      /\ ev.kind = "Ret" => Written(ev, time) = <<EndAt(ev.symbol, time)>>
      /\ ev.kind = "RetFromUntraced" =>
           Written(ev, time) = <<BeginAt(Unknown, ev.reset_time), EndAt(Unknown, time)>>
  BY Zenon DEF Written
<1>2. ev.reset_time \in Int /\ Unknown \in Frames /\ ev.symbol \in Frames
  BY TimeAssumption DEF PendingEvent, Time, Frames
<1>3. /\ BeginAt(ev.symbol, time) \in OutEvent /\ BeginAt(ev.symbol, time).type = "begin"
      /\ EndAt(ev.symbol, time) \in OutEvent /\ EndAt(ev.symbol, time).type = "end"
      /\ BeginAt(Unknown, ev.reset_time) \in OutEvent
      /\ BeginAt(Unknown, ev.reset_time).type = "begin"
      /\ EndAt(Unknown, time) \in OutEvent /\ EndAt(Unknown, time).type = "end"
  BY <1>2 DEF OutEvent, BeginAt, EndAt
<1>4. ev.kind \in {"Call", "Ret", "RetFromUntraced"}
  BY DEF PendingEvent
<1>5. Written(ev, time) \in Seq(OutEvent)
  <2>1. \A e, f \in OutEvent : <<e>> \in Seq(OutEvent) /\ <<e, f>> \in Seq(OutEvent)
    OBVIOUS
  <2> QED
    BY <1>1, <1>3, <1>4, <2>1
<1> QED
  BY <1>1, <1>3, <1>5
\* Once it is written, the viewer has open what the pending event leaves open; only
\* an end can be late, and only if the viewer has seen a later time.
LEMMA WrittenShows ==
  ASSUME NEW v \in View, NEW s \in Opened, Shows(v, s),
         NEW ev \in PendingEvent, NEW time \in Int
  PROVE  /\ ReplayAll(v, Written(ev, time)) \in View
         /\ Shows(ReplayAll(v, Written(ev, time)), Settle(s, ev))
<1>1. CASE ev.kind = "Call"
  <2> DEFINE e == BeginAt(ev.symbol, time)
             w == Replay(v, e)
  <2>1. e \in OutEvent /\ e.type = "begin" /\ Written(ev, time) = <<e>>
    BY <1>1, WrittenByKind
  <2>2. e.symbol = ev.symbol
    BY DEF BeginAt
  <2> HIDE DEF e
  <2>3. ReplayAll(v, Written(ev, time)) = w
    BY <2>1, ReplayOne
  <2>4. /\ w \in View /\ Symbolic(w.open) = Append(Symbolic(v.open), ev.symbol)
        /\ "unmatched" \in w.wrong <=> "unmatched" \in v.wrong
    BY <2>1, <2>2, ReplayBegin
  <2>5. Settle(s, ev).ok = s.ok /\ Settle(s, ev).stack = Append(s.stack, ev.symbol)
    BY <1>1 DEF Settle, Opened
  <2> HIDE DEF w
  <2> QED
    BY <2>3, <2>4, <2>5 DEF Shows
<1>2. CASE ev.kind = "Ret"
  <2> DEFINE e == EndAt(ev.symbol, time)
             w == Replay(v, e)
  <2>1. e \in OutEvent /\ e.type = "end" /\ Written(ev, time) = <<e>>
    BY <1>2, WrittenByKind
  <2>2. e.symbol = ev.symbol
    BY DEF EndAt
  <2> HIDE DEF e
  <2>3. ReplayAll(v, Written(ev, time)) = w
    BY <2>1, ReplayOne
  <2>4. /\ w \in View
        /\ Symbolic(v.open) # <<>> /\ Last(Symbolic(v.open)) = ev.symbol =>
             /\ Symbolic(w.open) = Front(Symbolic(v.open))
             /\ "unmatched" \in w.wrong <=> "unmatched" \in v.wrong
    BY <2>1, <2>2, ReplayEnd
  <2>5. Settle(s, ev).ok =>
          /\ s.ok /\ s.stack # <<>> /\ Last(s.stack) = ev.symbol
          /\ Settle(s, ev).stack = Front(s.stack)
    BY <1>2 DEF Settle, Opened
  <2> HIDE DEF w
  <2> QED
    BY <2>3, <2>4, <2>5 DEF Shows
<1>3. CASE ev.kind = "RetFromUntraced"
  <2> DEFINE e == BeginAt(Unknown, ev.reset_time)
             f == EndAt(Unknown, time)
             w == Replay(v, e)
             x == Replay(w, f)
  <2>1. /\ e \in OutEvent /\ e.type = "begin" /\ f \in OutEvent /\ f.type = "end"
        /\ Written(ev, time) = <<e, f>>
    BY <1>3, WrittenByKind
  <2>2. e.symbol = Unknown /\ f.symbol = Unknown /\ Unknown \in Frames
    BY DEF BeginAt, EndAt, Frames
  <2> HIDE DEF e, f
  <2>3. ReplayAll(v, Written(ev, time)) = x
    BY <2>1, ReplayTwo
  <2>4. /\ w \in View /\ Symbolic(w.open) = Append(Symbolic(v.open), Unknown)
        /\ "unmatched" \in w.wrong <=> "unmatched" \in v.wrong
    BY <2>1, <2>2, ReplayBegin
  <2> HIDE DEF w
  <2>5. /\ Symbolic(w.open) # <<>> /\ Last(Symbolic(w.open)) = Unknown
        /\ Front(Symbolic(w.open)) = Symbolic(v.open)
    <3>1. Symbolic(v.open) \in Seq(Frames)
      BY ViewFields, SymbolicType
    <3> QED
      BY <2>2, <2>4, <3>1 DEF Last, Front
  <2>6. /\ x \in View /\ Symbolic(x.open) = Symbolic(v.open)
        /\ "unmatched" \in x.wrong <=> "unmatched" \in v.wrong
    BY <2>1, <2>2, <2>4, <2>5, ReplayEnd
  <2>7. Settle(s, ev) = s
    BY <1>3 DEF Settle
  <2> HIDE DEF x
  <2> QED
    BY <2>3, <2>6, <2>7 DEF Shows
<1> QED
  BY <1>1, <1>2, <1>3 DEF PendingEvent

LEMMA HighIsInt ==
  ASSUME NEW v \in View
  PROVE  v.high \in Int
BY ViewFields

LEMMA LaterBounds ==
  ASSUME NEW a \in Int, NEW b \in Int, NEW c \in Int
  PROVE  /\ Later(a, b) \in Int
         /\ a <= c /\ b <= c => Later(a, b) <= c
         /\ a <= b => Later(a, b) = b
BY DEF Later

\* When the latest time written is, and whether an end came late.
LEMMA WrittenTimes ==
  ASSUME NEW v \in View, NEW ev \in PendingEvent, NEW time \in Int
  PROVE  /\ ev.kind = "Call" =>
              /\ ReplayAll(v, Written(ev, time)).high = Later(v.high, time)
              /\ "late end" \in ReplayAll(v, Written(ev, time)).wrong <=> "late end" \in v.wrong
         /\ ev.kind = "Ret" =>
              /\ ReplayAll(v, Written(ev, time)).high = Later(v.high, time)
              /\ "late end" \in ReplayAll(v, Written(ev, time)).wrong <=>
                   "late end" \in v.wrong \/ ~(time >= v.high)
         /\ ev.kind = "RetFromUntraced" =>
              /\ ReplayAll(v, Written(ev, time)).high = Later(Later(v.high, ev.reset_time), time)
              /\ "late end" \in ReplayAll(v, Written(ev, time)).wrong <=>
                   "late end" \in v.wrong \/ ~(time >= Later(v.high, ev.reset_time))
<1>1. ASSUME ev.kind = "Call"
      PROVE  /\ ReplayAll(v, Written(ev, time)).high = Later(v.high, time)
             /\ "late end" \in ReplayAll(v, Written(ev, time)).wrong <=> "late end" \in v.wrong
  <2> DEFINE e == BeginAt(ev.symbol, time)
  <2>1. e \in OutEvent /\ e.type = "begin" /\ Written(ev, time) = <<e>>
    BY <1>1, WrittenByKind
  <2>2. e.time = time
    BY DEF BeginAt
  <2> HIDE DEF e
  <2>3. ReplayAll(v, Written(ev, time)) = Replay(v, e)
    BY <2>1, ReplayOne
  <2> QED
    BY <2>1, <2>2, <2>3, ReplayBegin
<1>2. ASSUME ev.kind = "Ret"
      PROVE  /\ ReplayAll(v, Written(ev, time)).high = Later(v.high, time)
             /\ "late end" \in ReplayAll(v, Written(ev, time)).wrong <=>
                  "late end" \in v.wrong \/ ~(time >= v.high)
  <2> DEFINE e == EndAt(ev.symbol, time)
  <2>1. e \in OutEvent /\ e.type = "end" /\ Written(ev, time) = <<e>>
    BY <1>2, WrittenByKind
  <2>2. e.time = time
    BY DEF EndAt
  <2> HIDE DEF e
  <2>3. ReplayAll(v, Written(ev, time)) = Replay(v, e)
    BY <2>1, ReplayOne
  <2> QED
    BY <2>1, <2>2, <2>3, ReplayEnd
<1>3. ASSUME ev.kind = "RetFromUntraced"
      PROVE  /\ ReplayAll(v, Written(ev, time)).high = Later(Later(v.high, ev.reset_time), time)
             /\ "late end" \in ReplayAll(v, Written(ev, time)).wrong <=>
                  "late end" \in v.wrong \/ ~(time >= Later(v.high, ev.reset_time))
  <2> DEFINE e == BeginAt(Unknown, ev.reset_time)
             f == EndAt(Unknown, time)
             w == Replay(v, e)
  <2>1. /\ e \in OutEvent /\ e.type = "begin" /\ f \in OutEvent /\ f.type = "end"
        /\ Written(ev, time) = <<e, f>>
    BY <1>3, WrittenByKind
  <2>2. e.time = ev.reset_time /\ f.time = time
    BY DEF BeginAt, EndAt
  <2> HIDE DEF e, f
  <2>3. ReplayAll(v, Written(ev, time)) = Replay(w, f)
    BY <2>1, ReplayTwo
  <2>4. /\ w \in View /\ w.high = Later(v.high, ev.reset_time)
        /\ "late end" \in w.wrong <=> "late end" \in v.wrong
    BY <2>1, <2>2, ReplayBegin
  <2> HIDE DEF w
  <2> QED
    BY <2>1, <2>2, <2>3, <2>4, ReplayEnd
<1> QED
  BY <1>1, <1>2, <1>3

\* An event is in time for a viewer that has seen nothing later than high.
InTime(high, ev, time) ==
  /\ ev.kind = "Call" \/ high <= time
  /\ ev.kind = "RetFromUntraced" => ev.reset_time <= time

LEMMA WrittenInTime ==
  ASSUME NEW v \in View, NEW ev \in PendingEvent, NEW time \in Int, NEW latest \in Int
  PROVE  /\ "late end" \notin v.wrong /\ InTime(v.high, ev, time) =>
              "late end" \notin ReplayAll(v, Written(ev, time)).wrong
         /\ v.high <= latest /\ time <= latest /\ InTime(v.high, ev, time) =>
              ReplayAll(v, Written(ev, time)).high <= latest
         /\ v.high <= time /\ InTime(v.high, ev, time) =>
              ReplayAll(v, Written(ev, time)).high <= time
<1> DEFINE high == v.high
           reset == ev.reset_time
           lateBefore == "late end" \in v.wrong
           w == ReplayAll(v, Written(ev, time))
           lateAfter == "late end" \in w.wrong
           after == w.high
<1>1. high \in Int
  BY HighIsInt
<1>2. reset \in Int
  BY TimeAssumption DEF PendingEvent, Time
<1>3. /\ ev.kind = "Call" => after = Later(high, time) /\ (lateAfter <=> lateBefore)
      /\ ev.kind = "Ret" =>
           after = Later(high, time) /\ (lateAfter <=> lateBefore \/ ~(time >= high))
      /\ ev.kind = "RetFromUntraced" =>
           /\ after = Later(Later(high, reset), time)
           /\ lateAfter <=> lateBefore \/ ~(time >= Later(high, reset))
  BY WrittenTimes
<1>4. ev.kind \in {"Call", "Ret", "RetFromUntraced"}
  BY DEF PendingEvent
<1>5. InTime(high, ev, time) <=> /\ ev.kind = "Call" \/ high <= time
                                 /\ ev.kind = "RetFromUntraced" => reset <= time
  BY DEF InTime
<1> HIDE DEF high, reset, lateBefore, after, lateAfter
<1>6. ~lateBefore /\ InTime(high, ev, time) => ~lateAfter
  BY <1>1, <1>2, <1>3, <1>4, <1>5 DEF Later
<1>7. high <= latest /\ time <= latest /\ InTime(high, ev, time) => after <= latest
  BY <1>1, <1>2, <1>3, <1>4, <1>5 DEF Later
<1>8. high <= time /\ InTime(high, ev, time) => after <= time
  BY <1>1, <1>2, <1>3, <1>4, <1>5 DEF Later
<1> QED
  BY <1>6, <1>7, <1>8 DEF high, lateBefore, after, lateAfter

-----------------------------------------------------------------------------
(* What the viewer makes of a flush.  time[i] is when the i-th pending event *)
(* is written.                                                               *)

Writes(evs, time) == FlattenSeq([i \in DOMAIN evs |-> Written(evs[i], time[i])])

LEMMA WritesNothing ==
  ASSUME NEW time
  PROVE  Writes(<<>>, time) = <<>>
<1>1. [i \in DOMAIN <<>> |-> Written(<<>>[i], time[i])] = <<>>
  OBVIOUS
<1> QED
  BY <1>1, FlattenNothing DEF Writes

LEMMA WritesOneMore ==
  ASSUME NEW time \in [Nat -> Int],
         NEW evs \in Seq(PendingEvent), NEW ev \in PendingEvent
  PROVE  /\ Writes(Append(evs, ev), time) = Writes(evs, time) \o Written(ev, time[Len(evs) + 1])
         /\ Writes(evs, time) \in Seq(OutEvent)
         /\ Written(ev, time[Len(evs) + 1]) \in Seq(OutEvent)
<1> DEFINE n == Len(evs)
           parts == [i \in DOMAIN evs |-> Written(evs[i], time[i])]
           longer == Append(evs, ev)
           allParts == [i \in DOMAIN longer |-> Written(longer[i], time[i])]
           part == Written(ev, time[n + 1])
<1>1. /\ n \in Nat /\ DOMAIN evs = 1..n /\ DOMAIN longer = 1..(n + 1) /\ longer[n + 1] = ev
      /\ \A i \in 1..n : longer[i] = evs[i] /\ evs[i] \in PendingEvent
      /\ \A i \in 1..(n + 1) : time[i] \in Int
  OBVIOUS
<1> HIDE DEF n
<1>2. part \in Seq(OutEvent) /\ \A i \in 1..n : Written(evs[i], time[i]) \in Seq(OutEvent)
  <2>1. \A e \in PendingEvent, t \in Int : Written(e, t) \in Seq(OutEvent)
    BY WrittenByKind
  <2>2. \A i \in 1..n : evs[i] \in PendingEvent /\ time[i] \in Int
    BY <1>1
  <2>3. ev \in PendingEvent /\ time[n + 1] \in Int
    BY <1>1
  <2> QED
    BY <2>1, <2>2, <2>3
<1>3. parts \in Seq(Seq(OutEvent)) /\ Len(parts) = n
  <2> DEFINE P == Seq(OutEvent)
  <2>1. \A i \in 1..n : Written(evs[i], time[i]) \in P
    BY <1>2
  <2>2. parts = [i \in 1..n |-> Written(evs[i], time[i])]
    BY <1>1
  <2> HIDE DEF P, parts
  <2>3. parts \in Seq(P) /\ Len(parts) = n
    BY <1>1, <2>1, <2>2
  <2> QED
    BY <2>3 DEF P
<1>4. allParts = Append(parts, part)
  BY <1>1, <1>3
<1> HIDE DEF parts, part, longer
<1>5. FlattenSeq(Append(parts, part)) = FlattenSeq(parts) \o part /\ FlattenSeq(parts) \in Seq(OutEvent)
  BY <1>2, <1>3, FlattenOneMore
<1> QED
  BY <1>2, <1>4, <1>5 DEF Writes, parts, part, longer, n

LEMMA WritesShow ==
  ASSUME NEW v \in View, NEW from \in Opened, Shows(v, from),
         NEW time \in [Nat -> Int], NEW pending \in Seq(PendingEvent)
  PROVE  /\ Writes(pending, time) \in Seq(OutEvent)
         /\ ReplayAll(v, Writes(pending, time)) \in View
         /\ SF!Fold(from, pending) \in Opened
         /\ Shows(ReplayAll(v, Writes(pending, time)), SF!Fold(from, pending))
<1> DEFINE w(evs) == ReplayAll(v, Writes(evs, time))
           s(evs) == SF!Fold(from, evs)
           Ok(evs) == /\ Writes(evs, time) \in Seq(OutEvent)
                      /\ w(evs) \in View /\ s(evs) \in Opened /\ Shows(w(evs), s(evs))
<1>1. Ok(<<>>)
  <2>1. <<>> \in Seq(OutEvent)
    BY ConcatEmpty
  <2>2. Writes(<<>>, time) = <<>> /\ w(<<>>) = v /\ s(<<>>) = from
    BY WritesNothing, ReplayNothing, SF!FoldEmpty
  <2> QED
    BY <2>1, <2>2
<1>2. ASSUME NEW evs \in Seq(PendingEvent), NEW ev \in PendingEvent, Ok(evs)
      PROVE  Ok(Append(evs, ev))
  <2> DEFINE part == Written(ev, time[Len(evs) + 1])
  <2>1. /\ Writes(Append(evs, ev), time) = Writes(evs, time) \o part
        /\ part \in Seq(OutEvent)
    BY WritesOneMore
  <2>2. w(Append(evs, ev)) = ReplayAll(w(evs), part)
    BY <1>2, <2>1, ReplayConcat
  <2>3. s(Append(evs, ev)) = Settle(s(evs), ev)
    BY SF!FoldAppend
  <2>4. time[Len(evs) + 1] \in Int
    OBVIOUS
  <2>5. ReplayAll(w(evs), part) \in View /\ Shows(ReplayAll(w(evs), part), Settle(s(evs), ev))
    BY <1>2, <2>4, WrittenShows
  <2>6. Settle(s(evs), ev) \in Opened
    BY <1>2, SettleType
  <2>7. Writes(evs, time) \o part \in Seq(OutEvent)
    BY <1>2, <2>1, ConcatType
  <2> HIDE DEF part
  <2> QED
    BY <2>1, <2>2, <2>3, <2>5, <2>6, <2>7
<1> HIDE DEF Ok
<1> DEFINE S == {evs \in Seq(PendingEvent) : Ok(evs)}
<1>3. <<>> \in S
  BY <1>1, ConcatEmpty
<1>4. \A evs \in Seq(PendingEvent), ev \in PendingEvent : evs \in S => Append(evs, ev) \in S
  BY <1>2
<1> HIDE DEF S
<1>5. pending \in S
  BY <1>3, <1>4, RF!AppendInduction
<1> QED
  BY <1>5 DEF S, Ok

LEMMA WritesType ==
  ASSUME NEW v \in View, NEW time \in [Nat -> Int], NEW pending \in Seq(PendingEvent)
  PROVE  /\ Writes(pending, time) \in Seq(OutEvent)
         /\ ReplayAll(v, Writes(pending, time)) \in View
<1> DEFINE from == [ok |-> FALSE, stack |-> <<>>]
<1>1. from \in Opened /\ Shows(v, from)
  BY ConcatEmpty DEF Opened, Shows
<1> HIDE DEF from
<1> QED
  BY <1>1, WritesShow

\* Pending events that can be written from a time on, when the viewer has seen high:
\* it has seen nothing later, or there is nothing but calls.
Fits(high, time, evs) ==
  /\ high <= time \/ \A i \in DOMAIN evs : evs[i].kind = "Call"
  /\ \A i \in DOMAIN evs : evs[i].kind = "RetFromUntraced" => evs[i].reset_time <= time

LEMMA FitsOneMore ==
  ASSUME NEW high \in Int, NEW time \in Int,
         NEW evs \in Seq(PendingEvent), NEW ev \in PendingEvent
  PROVE  Fits(high, time, Append(evs, ev)) =>
           /\ Fits(high, time, evs)
           /\ ev.kind = "Call" \/ high <= time
           /\ ev.kind = "RetFromUntraced" => ev.reset_time <= time
<1> DEFINE n == Len(evs)
           longer == Append(evs, ev)
<1>1. /\ n \in Nat /\ DOMAIN longer = 1..(n + 1) /\ DOMAIN evs = 1..n
      /\ longer[n + 1] = ev /\ \A i \in 1..n : longer[i] = evs[i]
  OBVIOUS
<1> HIDE DEF n, longer
<1>2. n + 1 \in DOMAIN longer /\ \A i \in DOMAIN evs : i \in DOMAIN longer /\ longer[i] = evs[i]
  BY <1>1
<1>3. longer[n + 1] = ev
  BY <1>1
<1>4. Fits(high, time, longer) => Fits(high, time, evs)
  BY <1>2 DEF Fits
<1>5. Fits(high, time, longer) => /\ ev.kind = "Call" \/ high <= time
                                  /\ ev.kind = "RetFromUntraced" => ev.reset_time <= time
  BY <1>2, <1>3 DEF Fits
<1> QED
  BY <1>4, <1>5 DEF longer

\* No end was late and nothing is later than latest; what has been seen is no later than
\* the time t reached, if at first it was no later than time.
Punctual(v, high, time, t, latest) ==
  /\ "late end" \notin v.wrong
  /\ v.high <= latest
  /\ high <= time => v.high <= t

LEMMA PunctualOn ==
  ASSUME NEW v \in View, NEW ev \in PendingEvent,
         NEW high \in Int, NEW time \in Int, NEW t \in Int, NEW tn \in Int, NEW latest \in Int
  PROVE  /\ time <= tn /\ t <= tn /\ tn <= latest
         /\ ev.kind = "Call" \/ high <= time
         /\ ev.kind = "RetFromUntraced" => ev.reset_time <= time
         /\ Punctual(v, high, time, t, latest)
         => Punctual(ReplayAll(v, Written(ev, tn)), high, time, tn, latest)
<1> DEFINE w == ReplayAll(v, Written(ev, tn))
           seen == v.high
           reset == ev.reset_time
<1>1. seen \in Int /\ reset \in Int
  BY HighIsInt, TimeAssumption DEF PendingEvent, Time
<1>2. InTime(seen, ev, tn) <=> /\ ev.kind = "Call" \/ seen <= tn
                               /\ ev.kind = "RetFromUntraced" => reset <= tn
  BY DEF InTime
<1>3. /\ "late end" \notin v.wrong /\ InTime(seen, ev, tn) => "late end" \notin w.wrong
      /\ seen <= latest /\ tn <= latest /\ InTime(seen, ev, tn) => w.high <= latest
      /\ seen <= tn /\ InTime(seen, ev, tn) => w.high <= tn
  BY WrittenInTime
<1>4. /\ "late end" \notin v.wrong /\ seen <= latest /\ (high <= time => seen <= t)
      <=> Punctual(v, high, time, t, latest)
  BY DEF Punctual
<1>5. /\ "late end" \notin w.wrong /\ w.high <= latest /\ (high <= time => w.high <= tn)
      <=> Punctual(w, high, time, tn, latest)
  BY DEF Punctual
<1> DEFINE Premise == /\ time <= tn /\ t <= tn /\ tn <= latest
                      /\ ev.kind = "Call" \/ high <= time
                      /\ ev.kind = "RetFromUntraced" => reset <= time
                      /\ Punctual(v, high, time, t, latest)
<1> HIDE DEF w, seen, reset
<1>6. Premise => /\ time <= tn /\ t <= tn /\ tn <= latest
                 /\ ev.kind = "Call" \/ high <= time
                 /\ ev.kind = "RetFromUntraced" => reset <= time
                 /\ "late end" \notin v.wrong /\ seen <= latest /\ (high <= time => seen <= t)
  BY <1>4
<1>7. \A a, b, c \in Int : a <= b /\ b <= c => a <= c
  OBVIOUS
<1>8. /\ Premise => "late end" \notin v.wrong /\ seen <= latest /\ tn <= latest
      /\ Premise /\ high <= time => seen <= tn
      /\ Premise => InTime(seen, ev, tn)
  <2> HIDE DEF Premise
  <2>1. Premise => "late end" \notin v.wrong /\ seen <= latest /\ tn <= latest
    BY <1>6
  <2>2. Premise /\ high <= time => seen <= tn
    BY <1>1, <1>6, <1>7
  <2>3. Premise /\ ev.kind = "RetFromUntraced" => reset <= tn
    BY <1>1, <1>6, <1>7
  <2> QED
    BY <1>2, <1>6, <2>1, <2>2, <2>3
<1> HIDE DEF Premise
<1>9. Premise => Punctual(w, high, time, tn, latest)
  BY <1>3, <1>5, <1>8
<1> QED
  BY <1>9 DEF Premise, w, reset

\* Times that start at time[0], never step back and end by latest.
Advances(time, latest) ==
  \A i \in Nat : time[0] <= time[i] /\ time[i] <= time[i + 1] /\ time[i] <= latest

LEMMA WritesInTime ==
  ASSUME NEW v \in View, NEW time \in [Nat -> Int], NEW pending \in Seq(PendingEvent),
         NEW latest \in Int, Advances(time, latest)
  PROVE  /\ v.high <= latest /\ "late end" \notin v.wrong /\ Fits(v.high, time[0], pending)
         => Punctual(ReplayAll(v, Writes(pending, time)), v.high, time[0],
                     time[Len(pending)], latest)
<1> DEFINE high == v.high
           w(evs) == ReplayAll(v, Writes(evs, time))
           Start == "late end" \notin v.wrong /\ high <= latest
           Ok(evs) == Start /\ Fits(high, time[0], evs) =>
                        Punctual(w(evs), high, time[0], time[Len(evs)], latest)
<1>1. Ok(<<>>)
  <2>1. w(<<>>) = v /\ Len(<<>>) = 0
    BY WritesNothing, ReplayNothing
  <2> QED
    BY <2>1 DEF Punctual
<1>2. high \in Int
  BY HighIsInt
<1> HIDE DEF high, Start
<1>3. ASSUME NEW evs \in Seq(PendingEvent), NEW ev \in PendingEvent, Ok(evs)
      PROVE  Ok(Append(evs, ev))
  <2> DEFINE n == Len(evs)
             part == Written(ev, time[n + 1])
             x == w(evs)
  <2>1. w(Append(evs, ev)) = ReplayAll(x, part)
    <3>1. /\ Writes(Append(evs, ev), time) = Writes(evs, time) \o part
          /\ Writes(evs, time) \in Seq(OutEvent) /\ part \in Seq(OutEvent)
      BY WritesOneMore
    <3> QED
      BY <3>1, ReplayConcat
  <2>2. x \in View
    BY WritesType
  <2>3. n \in Nat /\ n + 1 \in Nat /\ 0 \in Nat /\ Len(Append(evs, ev)) = n + 1
    OBVIOUS
  <2>4. Start /\ Fits(high, time[0], evs) => Punctual(x, high, time[0], time[n], latest)
    BY <1>3
  <2> HIDE DEF n, x, w, Ok
  <2>5. /\ time[0] \in Int /\ time[n] \in Int /\ time[n + 1] \in Int
    BY <2>3
  <2>6. time[0] <= time[n + 1] /\ time[n] <= time[n + 1] /\ time[n + 1] <= latest
    BY <2>3 DEF Advances
  <2>7. Fits(high, time[0], Append(evs, ev)) =>
           /\ Fits(high, time[0], evs)
           /\ ev.kind = "Call" \/ high <= time[0]
           /\ ev.kind = "RetFromUntraced" => ev.reset_time <= time[0]
    BY <1>2, <2>5, FitsOneMore
  <2>8. Start /\ Fits(high, time[0], Append(evs, ev)) =>
          Punctual(ReplayAll(x, part), high, time[0], time[n + 1], latest)
    BY <1>2, <2>2, <2>4, <2>5, <2>6, <2>7, PunctualOn
  <2> QED
    BY <2>1, <2>3, <2>8 DEF Ok
<1> HIDE DEF Ok
<1> DEFINE S == {evs \in Seq(PendingEvent) : Ok(evs)}
<1>4. <<>> \in S
  BY <1>1, ConcatEmpty
<1>5. \A evs \in Seq(PendingEvent), ev \in PendingEvent : evs \in S => Append(evs, ev) \in S
  BY <1>3
<1> HIDE DEF S
<1>6. pending \in S
  BY <1>4, <1>5, RF!AppendInduction
<1> QED
  BY <1>6 DEF S, Ok, Start, high
-----------------------------------------------------------------------------
(* When a flush writes: from pending_time on, and never back *)

\* The offset of pending event i from that of the event before it.
OffsetAt(pending, total, offset, i) ==
  IF i = 1 THEN 0
  ELSE IF i - 1 \in Calls(pending)
       THEN offset[i - 1] + (total - offset[i - 1])
                            \div Cardinality({c \in Calls(pending) : c >= i - 1})
       ELSE offset[i - 1]

LEMMA OffsetAtFirst ==
  ASSUME NEW pending, NEW total, NEW offset
  PROVE  OffsetAt(pending, total, offset, 1) = 0
BY DEF OffsetAt

LEMMA OffsetAtLater ==
  ASSUME NEW pending, NEW total, NEW f, NEW g, NEW i, i = 1 \/ f[i - 1] = g[i - 1]
  PROVE  OffsetAt(pending, total, f, i) = OffsetAt(pending, total, g, i)
BY DEF OffsetAt

LEMMA OffsetsExist ==
  ASSUME NEW pending, NEW total
  PROVE  \A n \in Nat : \E f : f = [i \in 1..n |-> OffsetAt(pending, total, f, i)]
<1> DEFINE Solves(f, n) == f = [i \in 1..n |-> OffsetAt(pending, total, f, i)]
           S == {n \in Nat : \E f : Solves(f, n)}
<1>1. 0 \in S
  <2>1. Solves([i \in 1..0 |-> 0], 0)
    OBVIOUS
  <2> QED
    BY <2>1
<1>2. ASSUME NEW n \in Nat, NEW f, Solves(f, n)
      PROVE  \E g : Solves(g, n + 1)
  <2> DEFINE g == [i \in 1..(n + 1) |-> OffsetAt(pending, total, f, i)]
  <2>1. \A i \in 1..(n + 1) : i # 1 => i - 1 \in 1..n /\ g[i - 1] = f[i - 1]
    BY <1>2
  <2>2. \A i \in 1..(n + 1) : OffsetAt(pending, total, g, i) = OffsetAt(pending, total, f, i)
    BY <2>1, OffsetAtLater, SMTT(30)
  <2>3. Solves(g, n + 1)
    BY <2>2
  <2> QED
    BY <2>3
<1>3. \A n \in Nat : n \in S => n + 1 \in S
  BY <1>2
<1> HIDE DEF S
<1>4. \A n \in Nat : n \in S
  BY <1>1, <1>3, RF!Induction
<1> QED
  BY <1>4 DEF S

LEMMA OffsetsAt ==
  ASSUME NEW pending \in Seq(PendingEvent), NEW total
  PROVE  Offsets(pending, total)
           = [i \in DOMAIN pending |-> OffsetAt(pending, total, Offsets(pending, total), i)]
<1>1. DOMAIN pending = 1..Len(pending) /\ Len(pending) \in Nat
  OBVIOUS
<1>2. \E f : f = [i \in DOMAIN pending |-> OffsetAt(pending, total, f, i)]
  <2>1. PICK f : f = [i \in 1..Len(pending) |-> OffsetAt(pending, total, f, i)]
    BY <1>1, OffsetsExist
  <2> QED
    BY <1>1, <2>1, Zenon
<1> DEFINE Solution == CHOOSE f : f = [i \in DOMAIN pending |-> OffsetAt(pending, total, f, i)]
<1>3. Offsets(pending, total) = Solution
  BY DEF Offsets, OffsetAt
<1>4. Solution = [i \in DOMAIN pending |-> OffsetAt(pending, total, Solution, i)]
  BY <1>2
<1> HIDE DEF Solution
<1> QED
  BY <1>3, <1>4

\* A part of what is left is no more than what is left.
LEMMA PartOf ==
  ASSUME NEW a \in Nat, NEW c \in Nat \ {0}
  PROVE  a \div c \in 0..a
<1> DEFINE q == a \div c
           r == a % c
<1>1. q \in Int /\ r \in 0..(c - 1) /\ a = c * q + r
  OBVIOUS
<1> HIDE DEF q, r
<1>2. q >= 0
  <2> SUFFICES ASSUME q <= -1 PROVE FALSE
    BY <1>1
  <2>1. c * q <= c * (-1)
    BY <1>1
  <2> QED
    BY <1>1, <2>1
<1>3. q <= a
  <2>1. q <= c * q
    BY <1>1, <1>2
  <2> QED
    BY <1>1, <2>1
<1> QED
  BY <1>1, <1>2, <1>3 DEF q

LEMMA CallsLeft ==
  ASSUME NEW pending \in Seq(PendingEvent), NEW i \in Calls(pending)
  PROVE  Cardinality({c \in Calls(pending) : c >= i}) \in Nat \ {0}
<1> DEFINE n == Len(pending)
           left == {c \in Calls(pending) : c >= i}
<1>1. n \in Nat /\ DOMAIN pending = 1..n
  OBVIOUS
<1>2. i \in left /\ left \in SUBSET (1..n)
  BY <1>1 DEF Calls
<1> HIDE DEF n, left
<1>3. IsFiniteSet(left)
  <2>1. IsFiniteSet(1..n)
    BY <1>1, FS_Interval
  <2> QED
    BY <1>2, <2>1, FS_Subset
<1>4. Cardinality(left) \in Nat /\ Cardinality(left) # 0
  BY <1>2, <1>3, FS_CardinalityType, FS_EmptySet
<1> QED
  BY <1>4 DEF left

LEMMA OffsetsAdvance ==
  ASSUME NEW pending \in Seq(PendingEvent), NEW total \in Nat
  PROVE  \A n \in Nat : n + 1 \in DOMAIN pending =>
           /\ Offsets(pending, total)[n + 1] \in 0..total
           /\ n # 0 => Offsets(pending, total)[n] <= Offsets(pending, total)[n + 1]
<1> DEFINE offset == Offsets(pending, total)
           Ok(n) == n + 1 \in DOMAIN pending =>
                      /\ offset[n + 1] \in 0..total
                      /\ n # 0 => offset[n] <= offset[n + 1]
           S == {n \in Nat : Ok(n)}
<1>1. \A i \in DOMAIN pending : offset[i] = OffsetAt(pending, total, offset, i)
  BY OffsetsAt
<1> HIDE DEF offset
<1>2. Ok(0)
  <2>1. 1 \in DOMAIN pending => offset[1] = 0
    BY <1>1, OffsetAtFirst
  <2> QED
    BY <2>1
<1>3. ASSUME NEW n \in Nat, Ok(n) PROVE Ok(n + 1)
  <2> SUFFICES ASSUME (n + 1) + 1 \in DOMAIN pending
               PROVE  offset[(n + 1) + 1] \in 0..total /\ offset[n + 1] <= offset[(n + 1) + 1]
    OBVIOUS
  <2>1. n + 1 \in DOMAIN pending /\ (n + 1) + 1 # 1 /\ ((n + 1) + 1) - 1 = n + 1
    OBVIOUS
  <2>2. offset[n + 1] \in 0..total
    BY <1>3, <2>1
  <2> DEFINE before == offset[n + 1]
             left == Cardinality({c \in Calls(pending) : c >= n + 1})
  <2>3. offset[(n + 1) + 1]
          = IF n + 1 \in Calls(pending) THEN before + (total - before) \div left ELSE before
    BY <1>1, <2>1 DEF OffsetAt
  <2>4. n + 1 \in Calls(pending) => left \in Nat \ {0}
    BY CallsLeft
  <2> HIDE DEF before, left
  <2>5. before \in 0..total /\ total - before \in Nat
    BY <2>2 DEF before
  <2>6. n + 1 \in Calls(pending) => (total - before) \div left \in 0..(total - before)
    BY <2>4, <2>5, PartOf
  <2>7. offset[(n + 1) + 1] \in before..total
    BY <2>3, <2>5, <2>6
  <2> QED
    BY <2>5, <2>7 DEF before
<1> HIDE DEF Ok
<1>4. 0 \in S /\ \A n \in Nat : n \in S => n + 1 \in S
  BY <1>2, <1>3
<1> HIDE DEF S
<1>5. \A n \in Nat : n \in S
  BY <1>4, RF!Induction
<1> QED
  BY <1>5 DEF S, Ok, offset
\* When each pending event is written, by its index.
FlushTime(r, to_time) ==
  LET total == IF to_time > r.pending_time THEN to_time - r.pending_time ELSE 0
  IN  [i \in Nat |-> IF i = 0 THEN r.pending_time
                     ELSE IF i \in DOMAIN r.pending
                          THEN r.pending_time + Offsets(r.pending, total)[i]
                          ELSE r.pending_time + total]

LEMMA FlushTimes ==
  ASSUME NEW r, NEW to_time \in Int,
         r.pending \in Seq(PendingEvent), r.pending_time \in Int
  PROVE  /\ FlushTime(r, to_time) \in [Nat -> Int]
         /\ FlushTime(r, to_time)[0] = r.pending_time
         /\ Advances(FlushTime(r, to_time), Later(to_time, r.pending_time))
         /\ Flushed(r, to_time) = Writes(r.pending, FlushTime(r, to_time))
<1> DEFINE start == r.pending_time
           total == IF to_time > start THEN to_time - start ELSE 0
           pending == r.pending
           offset == Offsets(pending, total)
           n == Len(pending)
           time == [i \in Nat |-> IF i = 0 THEN start
                                  ELSE IF i \in DOMAIN pending THEN start + offset[i]
                                       ELSE start + total]
<1>1. FlushTime(r, to_time) = time
  BY DEF FlushTime
<1>2. total \in Nat /\ start \in Int /\ start + total = Later(to_time, start)
  BY DEF Later
<1>3. pending \in Seq(PendingEvent) /\ n \in Nat /\ DOMAIN pending = 1..n
  OBVIOUS
<1>4. Flushed(r, to_time) = FlattenSeq([i \in DOMAIN pending |-> Written(pending[i], start + offset[i])])
  BY DEF Flushed
<1>5. \A i \in DOMAIN pending : time[i] = start + offset[i]
  BY <1>3
<1>6. Flushed(r, to_time) = Writes(pending, time)
  <2> HIDE DEF time, start, offset, pending
  <2>1. [i \in DOMAIN pending |-> Written(pending[i], start + offset[i])]
          = [i \in DOMAIN pending |-> Written(pending[i], time[i])]
    BY <1>5
  <2> QED
    BY <1>4, <2>1 DEF Writes
<1> HIDE DEF start, total, pending, n
<1>7. \A i \in 1..n : /\ offset[i] \in 0..total
                      /\ i # 1 => offset[i - 1] <= offset[i]
  <2> SUFFICES ASSUME NEW i \in 1..n
               PROVE  /\ offset[i] \in 0..total
                      /\ i # 1 => offset[i - 1] <= offset[i]
    OBVIOUS
  <2>1. i - 1 \in Nat /\ (i - 1) + 1 = i /\ i \in DOMAIN pending /\ (i # 1 <=> i - 1 # 0)
    BY <1>3
  <2> HIDE DEF offset
  <2>2. /\ offset[(i - 1) + 1] \in 0..total
        /\ i - 1 # 0 => offset[i - 1] <= offset[(i - 1) + 1]
    BY <1>2, <1>3, <2>1, OffsetsAdvance DEF offset
  <2> QED
    BY <2>1, <2>2
<1> HIDE DEF offset
<1>8. \A i \in Nat : time[i] = IF i = 0 THEN start
                               ELSE IF i \in 1..n THEN start + offset[i] ELSE start + total
  BY <1>3
<1>9. time \in [Nat -> Int]
  BY <1>2, <1>3, <1>7
<1> HIDE DEF time
<1>10. \A i \in Nat : /\ start <= time[i] /\ time[i] <= start + total
                      /\ time[i] <= time[i + 1]
  <2> SUFFICES ASSUME NEW i \in Nat
               PROVE  /\ start <= time[i] /\ time[i] <= start + total
                      /\ time[i] <= time[i + 1]
    OBVIOUS
  <2>1. CASE i = 0
    <3>1. time[0] = start
      BY <1>8
    <3>2. \/ time[1] = start + offset[1] /\ offset[1] \in 0..total
          \/ time[1] = start + total
      BY <1>7, <1>8
    <3>3. time[0 + 1] = time[1]
      OBVIOUS
    <3> QED
      BY <1>2, <2>1, <3>1, <3>2, <3>3
  <2>2. CASE i \in 1..n
    <3>1. i + 1 \in 1..n => offset[i] <= offset[i + 1]
      <4>1. (i + 1) - 1 = i /\ i + 1 # 1
        BY <2>2
      <4> QED
        BY <1>7, <4>1
    <3> QED
      BY <1>2, <1>3, <1>7, <1>8, <2>2, <3>1, SMTT(30)
  <2>3. CASE i > n
    <3>1. i # 0 /\ i \notin 1..n /\ i + 1 # 0 /\ i + 1 \notin 1..n
      BY <1>3, <2>3
    <3> QED
      BY <1>2, <1>8, <3>1
  <2> QED
    BY <1>3, <2>1, <2>2, <2>3
<1>11. time[0] = start
  BY <1>8
<1>12. Advances(time, Later(to_time, start))
  BY <1>2, <1>10, <1>11 DEF Advances
<1> QED
  BY <1>1, <1>6, <1>9, <1>11, <1>12 DEF start, pending

\* Any written events leave the viewer in some view.
LEMMA ReplayAllType ==
  ASSUME NEW v \in View, NEW written \in Seq(OutEvent)
  PROVE  ReplayAll(v, written) \in View
<1> DEFINE S == {evs \in Seq(OutEvent) : ReplayAll(v, evs) \in View}
<1>1. <<>> \in S
  BY ConcatEmpty, ReplayNothing
<1>2. ASSUME NEW evs \in Seq(OutEvent), NEW e \in OutEvent, evs \in S
      PROVE  Append(evs, e) \in S
  <2>1. ReplayAll(v, Append(evs, e)) = Replay(ReplayAll(v, evs), e)
    BY ReplayOneMore
  <2>2. ReplayAll(v, evs) \in View
    BY <1>2
  <2>3. e.type = "begin" \/ e.type = "end"
    BY DEF OutEvent
  <2>4. Replay(ReplayAll(v, evs), e) \in View
    BY <2>2, <2>3, ReplayBegin, ReplayEnd
  <2>5. Append(evs, e) \in Seq(OutEvent)
    OBVIOUS
  <2> QED
    BY <2>1, <2>4, <2>5
<1> HIDE DEF S
<1>3. written \in S
  BY <1>1, <1>2, RF!AppendInduction
<1> QED
  BY <1>3 DEF S

\* What a flush shows: the frames that the pending events lead to.
LEMMA FlushShows ==
  ASSUME NEW r, NEW to_time \in Int, NEW v \in View, NEW frames \in Seq(Frames),
         r.pending \in Seq(PendingEvent), r.pending_time \in Int,
         "unmatched" \notin v.wrong, Leads(Symbolic(v.open), r.pending, frames)
  PROVE  /\ Flushed(r, to_time) \in Seq(OutEvent)
         /\ ReplayAll(v, Flushed(r, to_time)) \in View
         /\ "unmatched" \notin ReplayAll(v, Flushed(r, to_time)).wrong
         /\ Symbolic(ReplayAll(v, Flushed(r, to_time)).open) = frames
<1> DEFINE time == FlushTime(r, to_time)
           from == Open(Symbolic(v.open))
<1>1. time \in [Nat -> Int] /\ Flushed(r, to_time) = Writes(r.pending, time)
  BY FlushTimes
<1>2. Symbolic(v.open) \in Seq(Frames)
  BY ViewFields, SymbolicType
<1>3. from \in Opened /\ Shows(v, from)
  BY <1>2 DEF Opened, Open, Shows
<1>4. SF!Fold(from, r.pending) = Open(frames)
  BY DEF Leads
<1> HIDE DEF time, from
<1>5. /\ Writes(r.pending, time) \in Seq(OutEvent)
      /\ ReplayAll(v, Writes(r.pending, time)) \in View
      /\ Shows(ReplayAll(v, Writes(r.pending, time)), Open(frames))
  BY <1>1, <1>3, <1>4, WritesShow
<1> QED
  BY <1>1, <1>5 DEF Shows, Open

\* When a flush of events that fit writes: no end is late.
LEMMA FlushInTime ==
  ASSUME NEW r, NEW to_time \in Int, NEW v \in View, NEW latest \in Int,
         r.pending \in Seq(PendingEvent), r.pending_time \in Int
  PROVE  /\ to_time <= latest /\ r.pending_time <= latest /\ v.high <= latest
         /\ "late end" \notin v.wrong /\ Fits(v.high, r.pending_time, r.pending)
         => /\ "late end" \notin ReplayAll(v, Flushed(r, to_time)).wrong
            /\ ReplayAll(v, Flushed(r, to_time)).high <= latest
<1> DEFINE time == FlushTime(r, to_time)
           end == Later(to_time, r.pending_time)
<1>1. /\ time \in [Nat -> Int] /\ Flushed(r, to_time) = Writes(r.pending, time)
      /\ time[0] = r.pending_time /\ Advances(time, end)
  BY FlushTimes
<1>2. end \in Int /\ (to_time <= latest /\ r.pending_time <= latest => end <= latest)
  BY LaterBounds
<1> HIDE DEF time, end
<1>3. end <= latest => Advances(time, latest)
  <2>1. \A i \in Nat : time[i] \in Int
    BY <1>1
  <2>2. \A a \in Int : a <= end /\ end <= latest => a <= latest
    BY <1>2
  <2> QED
    BY <1>1, <2>1, <2>2 DEF Advances
<1>4. Advances(time, latest) =>
        (/\ v.high <= latest /\ "late end" \notin v.wrong /\ Fits(v.high, time[0], r.pending)
         => Punctual(ReplayAll(v, Writes(r.pending, time)), v.high, time[0],
                     time[Len(r.pending)], latest))
  BY <1>1, WritesInTime
<1> QED
  BY <1>1, <1>2, <1>3, <1>4 DEF Punctual
-----------------------------------------------------------------------------
(* No time that is written or kept is later than a limit *)

\* An interval that a pending event begins by itself begins by the limit.
ResetBy(evs, limit) ==
  \A i \in DOMAIN evs : evs[i].kind = "RetFromUntraced" => evs[i].reset_time <= limit

LEMMA ResetByOneMore ==
  ASSUME NEW evs \in Seq(PendingEvent), NEW ev \in PendingEvent, NEW limit
  PROVE  ResetBy(Append(evs, ev), limit) =>
           ResetBy(evs, limit) /\ (ev.kind = "RetFromUntraced" => ev.reset_time <= limit)
<1> DEFINE n == Len(evs)
           longer == Append(evs, ev)
<1>1. /\ n \in Nat /\ DOMAIN longer = 1..(n + 1) /\ DOMAIN evs = 1..n
      /\ longer[n + 1] = ev /\ \A i \in 1..n : longer[i] = evs[i]
  OBVIOUS
<1> HIDE DEF n, longer
<1>2. n + 1 \in DOMAIN longer /\ \A i \in DOMAIN evs : i \in DOMAIN longer /\ longer[i] = evs[i]
  BY <1>1
<1>3. longer[n + 1] = ev
  BY <1>1
<1>4. ResetBy(longer, limit) =>
        ResetBy(evs, limit) /\ (ev.kind = "RetFromUntraced" => ev.reset_time <= limit)
  BY <1>2, <1>3 DEF ResetBy
<1> QED
  BY <1>4 DEF longer

LEMMA ResetByBoth ==
  ASSUME NEW first \in Seq(PendingEvent), NEW second \in Seq(PendingEvent), NEW limit
  PROVE  ResetBy(first, limit) /\ ResetBy(second, limit) => ResetBy(first \o second, limit)
<1> DEFINE all == first \o second
           m == Len(first)
<1>1. \A i \in DOMAIN all : \/ i \in DOMAIN first /\ all[i] = first[i]
                            \/ i - m \in DOMAIN second /\ all[i] = second[i - m]
  OBVIOUS
<1> HIDE DEF all, m
<1>2. \A i \in DOMAIN all : \/ \E j \in DOMAIN first : all[i] = first[j]
                            \/ \E j \in DOMAIN second : all[i] = second[j]
  BY <1>1
<1>3. ResetBy(first, limit) /\ ResetBy(second, limit) => ResetBy(all, limit)
  BY <1>2 DEF ResetBy
<1> QED
  BY <1>3 DEF all

LEMMA WrittenWithin ==
  ASSUME NEW v \in View, NEW ev \in PendingEvent, NEW time \in Int, NEW limit \in Int
  PROVE  /\ v.high <= limit /\ time <= limit
         /\ ev.kind = "RetFromUntraced" => ev.reset_time <= limit
         => ReplayAll(v, Written(ev, time)).high <= limit
<1> DEFINE high == v.high
           reset == ev.reset_time
           after == ReplayAll(v, Written(ev, time)).high
<1>1. high \in Int /\ reset \in Int
  BY HighIsInt, TimeAssumption DEF PendingEvent, Time
<1>2. /\ ev.kind = "Call" => after = Later(high, time)
      /\ ev.kind = "Ret" => after = Later(high, time)
      /\ ev.kind = "RetFromUntraced" => after = Later(Later(high, reset), time)
  BY WrittenTimes
<1>3. ev.kind \in {"Call", "Ret", "RetFromUntraced"}
  BY DEF PendingEvent
<1> HIDE DEF high, reset, after
<1>4. /\ high <= limit /\ time <= limit /\ (ev.kind = "RetFromUntraced" => reset <= limit)
      => after <= limit
  BY <1>1, <1>2, <1>3 DEF Later
<1> QED
  BY <1>4 DEF high, reset, after

LEMMA WritesWithin ==
  ASSUME NEW v \in View, NEW time \in [Nat -> Int], NEW pending \in Seq(PendingEvent),
         NEW limit \in Int, \A i \in Nat : time[i] <= limit
  PROVE  v.high <= limit /\ ResetBy(pending, limit)
         => ReplayAll(v, Writes(pending, time)).high <= limit
<1> DEFINE w(evs) == ReplayAll(v, Writes(evs, time))
           Ok(evs) == v.high <= limit /\ ResetBy(evs, limit) => w(evs).high <= limit
<1>1. Ok(<<>>)
  <2>1. w(<<>>) = v
    BY WritesNothing, ReplayNothing
  <2> QED
    BY <2>1
<1>2. ASSUME NEW evs \in Seq(PendingEvent), NEW ev \in PendingEvent, Ok(evs)
      PROVE  Ok(Append(evs, ev))
  <2> DEFINE n == Len(evs)
             part == Written(ev, time[n + 1])
             x == w(evs)
  <2>1. w(Append(evs, ev)) = ReplayAll(x, part)
    <3>1. /\ Writes(Append(evs, ev), time) = Writes(evs, time) \o part
          /\ Writes(evs, time) \in Seq(OutEvent) /\ part \in Seq(OutEvent)
      BY WritesOneMore
    <3> QED
      BY <3>1, ReplayConcat
  <2>2. x \in View
    BY WritesType
  <2>3. time[n + 1] \in Int /\ time[n + 1] <= limit
    OBVIOUS
  <2>4. v.high <= limit /\ ResetBy(evs, limit) => x.high <= limit
    BY <1>2
  <2>5. ResetBy(Append(evs, ev), limit) =>
          ResetBy(evs, limit) /\ (ev.kind = "RetFromUntraced" => ev.reset_time <= limit)
    BY ResetByOneMore
  <2> HIDE DEF n, x, w, Ok
  <2>6. /\ x.high <= limit /\ time[n + 1] <= limit
        /\ ev.kind = "RetFromUntraced" => ev.reset_time <= limit
        => ReplayAll(x, part).high <= limit
    BY <2>2, <2>3, WrittenWithin
  <2> QED
    BY <2>1, <2>3, <2>4, <2>5, <2>6 DEF Ok
<1> HIDE DEF Ok
<1> DEFINE S == {evs \in Seq(PendingEvent) : Ok(evs)}
<1>3. <<>> \in S
  BY <1>1, ConcatEmpty
<1>4. \A evs \in Seq(PendingEvent), ev \in PendingEvent : evs \in S => Append(evs, ev) \in S
  BY <1>2
<1> HIDE DEF S
<1>5. pending \in S
  BY <1>3, <1>4, RF!AppendInduction
<1> QED
  BY <1>5 DEF S, Ok

\* An interval is shared out between pending_time and to_time, or not at all.
LEMMA FlushWithin ==
  ASSUME NEW r, NEW to_time \in Int, NEW v \in View, NEW limit \in Int,
         r.pending \in Seq(PendingEvent), r.pending_time \in Int
  PROVE  /\ to_time <= limit /\ r.pending_time <= limit /\ v.high <= limit
         /\ ResetBy(r.pending, limit)
         => ReplayAll(v, Flushed(r, to_time)).high <= limit
<1> DEFINE time == FlushTime(r, to_time)
           end == Later(to_time, r.pending_time)
<1>1. /\ time \in [Nat -> Int] /\ Flushed(r, to_time) = Writes(r.pending, time)
      /\ Advances(time, end)
  BY FlushTimes
<1>2. end \in Int /\ (to_time <= limit /\ r.pending_time <= limit => end <= limit)
  BY LaterBounds
<1> HIDE DEF time, end
<1>3. end <= limit => \A i \in Nat : time[i] <= limit
  <2>1. \A i \in Nat : time[i] \in Int /\ time[i] <= end
    BY <1>1 DEF Advances
  <2>2. \A a \in Int : a <= end /\ end <= limit => a <= limit
    BY <1>2
  <2> QED
    BY <2>1, <2>2
<1>4. (\A i \in Nat : time[i] <= limit) =>
        (v.high <= limit /\ ResetBy(r.pending, limit)
         => ReplayAll(v, Writes(r.pending, time)).high <= limit)
  BY <1>1, WritesWithin
<1> QED
  BY <1>1, <1>2, <1>3, <1>4

-----------------------------------------------------------------------------
(* What every handler keeps up *)

\* What the viewer v will have made of r's thread once the written events reach it.
Shown(v, r) == ReplayAll(v, r.out)

\* The written and the pending events lead to the frames.
Follows(v, r, frames) ==
  /\ "unmatched" \notin Shown(v, r).wrong
  /\ Leads(Symbolic(Shown(v, r).open), r.pending, frames)

Tracks(v, r, frames) ==
  /\ v \in View /\ r \in ThreadInfo /\ frames \in Seq(Frames)
  /\ Follows(v, r, frames)

\* No time of r's thread is later than that of its last event, and what is pending can
\* be written in time.
CreatedBy(r, last) ==
  /\ r.create_time <= last
  /\ \A i \in DOMAIN r.inactive : r.inactive[i].create_time <= last

Timely(v, r) ==
  /\ "late end" \notin Shown(v, r).wrong
  /\ Shown(v, r).high <= r.last_event_time
  /\ r.pending_time <= r.last_event_time
  /\ CreatedBy(r, r.last_event_time)
  /\ Fits(Shown(v, r).high, r.pending_time, r.pending)

\* What is written, what is pending and what the thread keeps are no later than limit.
Within(v, r, limit) ==
  /\ Shown(v, r).high <= limit
  /\ r.pending_time <= limit
  /\ r.last_event_time <= limit
  /\ CreatedBy(r, limit)
  /\ ResetBy(r.pending, limit)

\* s is no later than any limit that r is within.
StaysWithin(v, r, s) == \A limit \in Int : Within(v, r, limit) => Within(v, s, limit)

\* Events that may be added at time when the thread has come to last: those of the
\* event itself, or calls that begin at an earlier time.
Allowed(last, time, evs) ==
  /\ time <= last
  /\ time = last \/ \A i \in DOMAIN evs : evs[i].kind = "Call"
  /\ \A i \in DOMAIN evs : evs[i].kind = "RetFromUntraced" => evs[i].reset_time <= time

\* r and s differ at most in what is written and pending.
SameStacks(r, s) ==
  /\ s.stack = r.stack /\ s.inactive = r.inactive
  /\ s.create_time = r.create_time /\ s.last_event_time = r.last_event_time

LEMMA ThreadInfoFields ==
  ASSUME NEW r \in ThreadInfo
  PROVE  /\ r.stack \in Seq(Frames) /\ r.create_time \in Time
         /\ r.inactive \in Seq(Callstack) /\ r.pending \in Seq(PendingEvent)
         /\ r.pending_time \in Time /\ r.last_event_time \in Time
         /\ r.out \in Seq(OutEvent)
         /\ \A s \in Seq(Frames) : [r EXCEPT !.stack = s] \in ThreadInfo
         /\ \A c \in Time : [r EXCEPT !.create_time = c] \in ThreadInfo
         /\ \A c \in Seq(Callstack) : [r EXCEPT !.inactive = c] \in ThreadInfo
         /\ \A t \in Time : [r EXCEPT !.last_event_time = t] \in ThreadInfo
         /\ \A o \in Seq(OutEvent) : [r EXCEPT !.out = o] \in ThreadInfo
BY DEF ThreadInfo

LEMMA TimeIsInt == Time \subseteq Int /\ 0 \in Time
BY TimeAssumption DEF Time

LEMMA ShownIsView ==
  ASSUME NEW v \in View, NEW r \in ThreadInfo
  PROVE  Shown(v, r) \in View /\ Shown(v, r).high \in Int
BY ThreadInfoFields, ReplayAllType, HighIsInt DEF Shown

\* s is r with all that was pending written.
Drained(v, r, s, frames) ==
  /\ Tracks(v, s, frames)
  /\ SameStacks(r, s)
  /\ s.pending = <<>>
  /\ Symbolic(Shown(v, s).open) = frames

\* As far as it is written, nothing is later than last.
WrittenBy(v, s, last) ==
  /\ "late end" \notin Shown(v, s).wrong
  /\ Shown(v, s).high <= last
  /\ s.pending_time <= last

LEMMA FlushTracks ==
  ASSUME NEW v, NEW r, NEW frames, NEW time \in Time,
         Tracks(v, r, frames)
  PROVE  /\ Drained(v, r, Flush(r, time), frames)
         /\ Timely(v, r) /\ time <= r.last_event_time =>
              WrittenBy(v, Flush(r, time), r.last_event_time)
         /\ \A limit \in Int : Within(v, r, limit) /\ time <= limit =>
              Within(v, Flush(r, time), limit)
<1> DEFINE w == Shown(v, r)
           x == Shown(v, Flush(r, time))
           last == r.last_event_time
<1>1. /\ v \in View /\ r \in ThreadInfo /\ frames \in Seq(Frames)
      /\ "unmatched" \notin w.wrong
      /\ Leads(Symbolic(w.open), r.pending, frames)
      /\ Timely(v, r) => /\ "late end" \notin w.wrong
                         /\ w.high <= last
                         /\ r.pending_time <= last
                         /\ Fits(w.high, r.pending_time, r.pending)
  BY DEF Tracks, Follows, Timely
<1>2. w \in View /\ w.high \in Int
  BY <1>1, ShownIsView
<1>3. /\ r.out \in Seq(OutEvent) /\ r.pending \in Seq(PendingEvent)
      /\ r.pending_time \in Int /\ last \in Int /\ time \in Int
  BY <1>1, ThreadInfoFields, TimeIsInt
<1>4. CASE r.pending = <<>>
  <2>1. Flush(r, time) = r
    BY <1>4 DEF Flush
  <2>2. Symbolic(w.open) = frames
    <3>1. Open(Symbolic(w.open)) = Open(frames)
      BY <1>1, <1>4, SF!FoldEmpty DEF Leads
    <3> QED
      BY <3>1 DEF Open
  <2> QED
    BY <1>1, <1>4, <2>1, <2>2 DEF Tracks, Follows, SameStacks, Drained, WrittenBy
<1>5. CASE r.pending # <<>>
  <2> DEFINE flushed == Flushed(r, time)
             s == [r EXCEPT !.out = r.out \o flushed, !.pending_time = time, !.pending = <<>>]
  <2>1. Flush(r, time) = s
    BY <1>5 DEF Flush
  <2>2. /\ flushed \in Seq(OutEvent) /\ ReplayAll(w, flushed) \in View
        /\ "unmatched" \notin ReplayAll(w, flushed).wrong
        /\ Symbolic(ReplayAll(w, flushed).open) = frames
    BY <1>1, <1>2, <1>3, FlushShows
  <2>3. /\ time <= last /\ r.pending_time <= last /\ w.high <= last
        /\ "late end" \notin w.wrong /\ Fits(w.high, r.pending_time, r.pending)
        => /\ "late end" \notin ReplayAll(w, flushed).wrong
           /\ ReplayAll(w, flushed).high <= last
    BY <1>2, <1>3, FlushInTime
  <2> HIDE DEF flushed
  <2>4. /\ r.out \o flushed \in Seq(OutEvent) /\ <<>> \in Seq(PendingEvent)
    BY <1>3, <2>2, ConcatType, ConcatEmpty
  <2>5. /\ s \in ThreadInfo /\ s.out = r.out \o flushed /\ s.pending = <<>>
        /\ s.pending_time = time /\ SameStacks(r, s)
    BY <1>1, <2>4 DEF ThreadInfo, SameStacks
  <2> HIDE DEF s
  <2>6. x = ReplayAll(w, flushed)
    BY <1>3, <2>1, <2>2, <2>5, ReplayConcat DEF Shown
  <2> HIDE DEF w, x
  <2>7. Tracks(v, Flush(r, time), frames)
    BY <1>1, <2>1, <2>2, <2>5, <2>6, LeadsNowhere DEF Tracks, Follows, x
  <2>8. Timely(v, r) /\ time <= last =>
          "late end" \notin x.wrong /\ x.high <= last /\ Flush(r, time).pending_time <= last
    BY <1>1, <2>1, <2>3, <2>5, <2>6
  <2>9. Symbolic(x.open) = frames /\ "unmatched" \notin x.wrong
    BY <2>2, <2>6
  <2>10. ASSUME NEW limit \in Int, Within(v, r, limit), time <= limit
         PROVE  Within(v, Flush(r, time), limit)
    <3>1. /\ w.high <= limit /\ r.pending_time <= limit /\ last <= limit
          /\ CreatedBy(r, limit) /\ ResetBy(r.pending, limit)
      BY <2>10 DEF Within, w
    <3>2. ReplayAll(w, flushed).high <= limit
      BY <1>2, <1>3, <2>10, <3>1, FlushWithin DEF flushed
    <3>3. \A i \in DOMAIN s.pending : FALSE
      BY <2>5
    <3>4. /\ x.high <= limit /\ s.pending_time <= limit /\ s.last_event_time <= limit
          /\ CreatedBy(s, limit) /\ ResetBy(s.pending, limit)
      BY <2>5, <2>6, <2>10, <3>1, <3>2, <3>3 DEF SameStacks, CreatedBy, ResetBy
    <3> QED
      BY <2>1, <3>4 DEF Within, x
  <2> QED
    BY <2>1, <2>5, <2>7, <2>8, <2>9, <2>10 DEF x, last, Drained, WrittenBy
<1> QED
  BY <1>4, <1>5
LEMMA FitsWithMore ==
  ASSUME NEW high \in Int, NEW time \in Int,
         NEW evs \in Seq(PendingEvent), NEW more \in Seq(PendingEvent)
  PROVE  Fits(high, time, evs) /\ Fits(high, time, more) => Fits(high, time, evs \o more)
<1> DEFINE all == evs \o more
           m == Len(evs)
<1>1. \A i \in DOMAIN all : \/ i \in DOMAIN evs /\ all[i] = evs[i]
                            \/ i - m \in DOMAIN more /\ all[i] = more[i - m]
  OBVIOUS
<1> HIDE DEF all, m
<1>2. \A i \in DOMAIN all : \/ \E j \in DOMAIN evs : all[i] = evs[j]
                            \/ \E j \in DOMAIN more : all[i] = more[j]
  BY <1>1
<1>3. /\ (\A i \in DOMAIN evs : evs[i].kind = "Call") /\ (\A i \in DOMAIN more : more[i].kind = "Call")
      => \A i \in DOMAIN all : all[i].kind = "Call"
  BY <1>2
<1>4. /\ \A i \in DOMAIN evs : evs[i].kind = "RetFromUntraced" => evs[i].reset_time <= time
      /\ \A i \in DOMAIN more : more[i].kind = "RetFromUntraced" => more[i].reset_time <= time
      => \A i \in DOMAIN all : all[i].kind = "RetFromUntraced" => all[i].reset_time <= time
  BY <1>2
<1> QED
  BY <1>3, <1>4 DEF Fits, all

LEMMA AllowedTime ==
  ASSUME NEW last, NEW time, NEW evs, Allowed(last, time, evs)
  PROVE  time <= last
BY DEF Allowed

LEMMA AllowedFits ==
  ASSUME NEW high \in Int, NEW last \in Int, NEW time \in Int, NEW evs
  PROVE  high <= last /\ Allowed(last, time, evs) => Fits(high, time, evs)
BY DEF Allowed, Fits

\* add_event, for all the events of one time.
LEMMA AddEventsTracks ==
  ASSUME NEW v, NEW r, NEW frames, NEW after \in Seq(Frames), 
         NEW time \in Time, NEW evs \in Seq(PendingEvent),
         Tracks(v, r, frames), Leads(frames, evs, after)
  PROVE  /\ Tracks(v, AddEvents(r, time, evs), after)
         /\ SameStacks(r, AddEvents(r, time, evs))
         /\ Timely(v, r) /\ Allowed(r.last_event_time, time, evs)
            => Timely(v, AddEvents(r, time, evs))
         /\ \A limit \in Int : Within(v, r, limit) /\ time <= limit /\ ResetBy(evs, limit)
            => Within(v, AddEvents(r, time, evs), limit)
<1> DEFINE a == AddEvents(r, time, evs)
           last == r.last_event_time
<1>1. v \in View /\ r \in ThreadInfo /\ frames \in Seq(Frames) /\ Follows(v, r, frames)
  BY DEF Tracks
<1>2. /\ r.pending \in Seq(PendingEvent) /\ r.pending_time \in Int
      /\ last \in Int /\ time \in Int
  BY <1>1, ThreadInfoFields, TimeIsInt
<1>3. CASE evs = <<>>
  <2>1. Open(frames) = Open(after)
    BY <1>3, SF!FoldEmpty DEF Leads
  <2>2. frames = after
    BY <2>1 DEF Open
  <2> QED
    BY <1>3, <2>2 DEF AddEvents, SameStacks
<1>4. CASE evs # <<>> /\ time = r.pending_time
  <2> DEFINE all == r.pending \o evs
  <2>1. a = [r EXCEPT !.pending_time = time, !.pending = all]
    BY <1>4 DEF AddEvents
  <2>2. all \in Seq(PendingEvent)
    BY <1>2, ConcatType
  <2>3. /\ a \in ThreadInfo /\ a.out = r.out /\ a.pending = all /\ a.pending_time = time
        /\ SameStacks(r, a)
    BY <1>1, <2>1, <2>2 DEF ThreadInfo, SameStacks
  <2>4. Shown(v, a) = Shown(v, r)
    BY <2>3 DEF Shown
  <2>5. Follows(v, a, after)
    BY <1>1, <1>2, <2>3, <2>4, LeadsOn DEF Follows
  <2>6. ASSUME Timely(v, r), Allowed(last, time, evs) PROVE Timely(v, a)
    <3> DEFINE high == Shown(v, r).high
    <3>2. high \in Int /\ high <= last /\ Fits(high, time, r.pending)
      BY <1>1, <1>4, <2>6, ShownIsView DEF Timely
    <3>3. Fits(high, time, evs)
      BY <1>2, <2>6, <3>2, AllowedFits
    <3>4. Fits(high, time, all)
      BY <1>2, <3>2, <3>3, FitsWithMore
    <3> HIDE DEF all, a, high
    <3> QED
      BY <1>4, <2>3, <2>4, <2>6, <3>4, AllowedTime DEF Timely, SameStacks, CreatedBy, high
  <2>7. ASSUME NEW limit \in Int, Within(v, r, limit), time <= limit, ResetBy(evs, limit)
        PROVE  Within(v, a, limit)
    <3>1. /\ Shown(v, r).high <= limit /\ last <= limit
          /\ CreatedBy(r, limit) /\ ResetBy(r.pending, limit)
      BY <2>7 DEF Within
    <3>2. ResetBy(all, limit)
      BY <1>2, <2>7, <3>1, ResetByBoth
    <3> HIDE DEF all, a
    <3> QED
      BY <2>3, <2>4, <2>7, <3>1, <3>2 DEF Within, SameStacks, CreatedBy
  <2> QED
    BY <1>1, <2>3, <2>5, <2>6, <2>7 DEF Tracks
<1>5. CASE evs # <<>> /\ time # r.pending_time
  <2> DEFINE f == Flush(r, time)
             w == Shown(v, f)
  <2>1. a = [f EXCEPT !.pending_time = time, !.pending = f.pending \o evs]
    BY <1>5 DEF AddEvents
  <2>2. /\ f \in ThreadInfo /\ SameStacks(r, f) /\ f.pending = <<>>
        /\ Symbolic(w.open) = frames /\ "unmatched" \notin w.wrong
        /\ Timely(v, r) /\ time <= last => "late end" \notin w.wrong /\ w.high <= last
        /\ \A limit \in Int : Within(v, r, limit) /\ time <= limit => Within(v, f, limit)
    <3>1. /\ Drained(v, r, f, frames) /\ (Timely(v, r) /\ time <= last => WrittenBy(v, f, last))
          /\ \A limit \in Int : Within(v, r, limit) /\ time <= limit => Within(v, f, limit)
      BY FlushTracks
    <3> HIDE DEF f
    <3>2. Tracks(v, f, frames)
      BY <3>1 DEF Drained
    <3>3. f \in ThreadInfo /\ "unmatched" \notin w.wrong
      BY <3>2 DEF Tracks, Follows
    <3> QED
      BY <3>1, <3>3 DEF Drained, WrittenBy
  <2> HIDE DEF f
  <2>3. f.pending \o evs = evs
    BY <2>2, ConcatEmpty
  <2>4. /\ a \in ThreadInfo /\ a.out = f.out /\ a.pending = evs /\ a.pending_time = time
        /\ SameStacks(f, a)
    BY <2>1, <2>2, <2>3 DEF ThreadInfo, SameStacks
  <2>5. SameStacks(r, a)
    BY <2>2, <2>4 DEF SameStacks
  <2> HIDE DEF a
  <2>6. Shown(v, a) = w
    BY <2>4 DEF Shown
  <2>7. Follows(v, a, after)
    BY <2>2, <2>4, <2>6 DEF Follows
  <2>8. ASSUME Timely(v, r), Allowed(last, time, evs) PROVE Timely(v, a)
    <3>1. time <= last
      BY <2>8, AllowedTime
    <3> DEFINE high == w.high
    <3>2. high \in Int /\ high <= last /\ "late end" \notin w.wrong
      BY <1>1, <2>2, <2>8, <3>1, ShownIsView
    <3> HIDE DEF high
    <3>3. Fits(high, time, evs)
      BY <1>2, <2>8, <3>2, AllowedFits
    <3> QED
      BY <2>4, <2>5, <2>6, <2>8, <3>1, <3>2, <3>3 DEF Timely, SameStacks, CreatedBy, high
  <2>9. ASSUME NEW limit \in Int, Within(v, r, limit), time <= limit, ResetBy(evs, limit)
        PROVE  Within(v, a, limit)
    <3>1. Within(v, f, limit)
      BY <2>2, <2>9
    <3>2. w.high <= limit /\ f.last_event_time <= limit /\ CreatedBy(f, limit)
      BY <3>1 DEF Within
    <3> HIDE DEF w
    <3> QED
      BY <2>4, <2>6, <2>9, <3>2 DEF Within, SameStacks, CreatedBy
  <2> QED
    BY <1>1, <2>4, <2>5, <2>7, <2>8, <2>9 DEF Tracks, a
<1> QED
  BY <1>3, <1>4, <1>5
-----------------------------------------------------------------------------
(* The callstack *)

\* The frames of the inactive callstacks.
OuterFrames(inactive) == FlattenSeq([i \in DOMAIN inactive |-> inactive[i].stack])

Good(v, r) == Tracks(v, r, OpenFrames(r))

\* s is what a handler made of r, at the same event of the thread.
Keeps(v, r, s) ==
  /\ Good(v, s)
  /\ s.last_event_time = r.last_event_time
  /\ Timely(v, r) => Timely(v, s)
  /\ StaysWithin(v, r, s)

\* r and s differ at most in their callstacks.
SameWritten(r, s) ==
  /\ s.out = r.out /\ s.pending = r.pending /\ s.pending_time = r.pending_time
  /\ s.last_event_time = r.last_event_time

LEMMA KeepsFields ==
  ASSUME NEW v, NEW r, NEW s, Keeps(v, r, s)
  PROVE  Good(v, s) /\ s.last_event_time = r.last_event_time
BY DEF Keeps

LEMMA KeepsOn ==
  ASSUME NEW v, NEW r, NEW s, NEW x, Keeps(v, r, s), Keeps(v, s, x)
  PROVE  Keeps(v, r, x)
BY DEF Keeps, StaysWithin

LEMMA KeepsSame ==
  ASSUME NEW v, NEW r, Good(v, r)
  PROVE  Keeps(v, r, r)
BY DEF Keeps, StaysWithin

LEMMA GoodFields ==
  ASSUME NEW v, NEW r, Good(v, r)
  PROVE  /\ v \in View /\ r \in ThreadInfo /\ OpenFrames(r) \in Seq(Frames)
         /\ Tracks(v, r, OpenFrames(r))
BY DEF Good, Tracks

LEMMA OuterFramesOneMore ==
  ASSUME NEW inactive \in Seq(Callstack), NEW c \in Callstack
  PROVE  /\ OuterFrames(inactive) \in Seq(Frames)
         /\ OuterFrames(Append(inactive, c)) = OuterFrames(inactive) \o c.stack
<1> DEFINE n == Len(inactive)
           longer == Append(inactive, c)
           stacks == [i \in DOMAIN inactive |-> inactive[i].stack]
<1>1. \A d \in Callstack : d.stack \in Seq(Frames)
  BY DEF Callstack
<1>2. /\ n \in Nat /\ DOMAIN inactive = 1..n /\ DOMAIN longer = 1..(n + 1) /\ longer[n + 1] = c
      /\ \A i \in 1..n : longer[i] = inactive[i] /\ inactive[i] \in Callstack
  OBVIOUS
<1> HIDE DEF n, longer
<1>3. stacks \in Seq(Seq(Frames)) /\ Len(stacks) = n
  <2> DEFINE F == Seq(Frames)
  <2>1. \A i \in 1..n : inactive[i].stack \in F
    BY <1>1, <1>2
  <2> HIDE DEF F
  <2>2. stacks \in Seq(F) /\ Len(stacks) = n
    BY <1>2, <2>1
  <2> QED
    BY <2>2 DEF F
<1>4. [i \in DOMAIN longer |-> longer[i].stack] = Append(stacks, c.stack)
  BY <1>2, <1>3
<1>5. c.stack \in Seq(Frames)
  BY <1>1
<1> HIDE DEF stacks
<1>6. FlattenSeq(Append(stacks, c.stack)) = FlattenSeq(stacks) \o c.stack
      /\ FlattenSeq(stacks) \in Seq(Frames)
  BY <1>3, <1>5, FlattenOneMore
<1> QED
  BY <1>4, <1>6 DEF OuterFrames, stacks, longer

LEMMA OuterFramesType ==
  ASSUME NEW inactive \in Seq(Callstack)
  PROVE  OuterFrames(inactive) \in Seq(Frames)
<1> DEFINE c == [stack |-> <<>>, create_time |-> 0]
<1>1. c \in Callstack
  BY TimeIsInt DEF Callstack
<1> HIDE DEF c
<1> QED
  BY <1>1, OuterFramesOneMore

LEMMA OuterFramesNone == OuterFrames(<<>>) = <<>>
<1>1. [i \in DOMAIN <<>> |-> <<>>[i].stack] = <<>>
  OBVIOUS
<1> QED
  BY <1>1, FlattenNothing DEF OuterFrames

LEMMA OpenFramesSplit ==
  ASSUME NEW r \in ThreadInfo
  PROVE  /\ OpenFrames(r) = OuterFrames(r.inactive) \o r.stack
         /\ OuterFrames(r.inactive) \in Seq(Frames)
         /\ OpenFrames(r) \in Seq(Frames)
<1>1. r.inactive \in Seq(Callstack) /\ r.stack \in Seq(Frames)
  BY ThreadInfoFields
<1>2. OuterFrames(r.inactive) \in Seq(Frames)
  BY <1>1, OuterFramesType
<1>3. OpenFrames(r) = OuterFrames(r.inactive) \o r.stack
  BY DEF OpenFrames, OuterFrames
<1> QED
  BY <1>1, <1>2, <1>3, ConcatType

\* A change of the callstacks alone.
LEMMA Restack ==
  ASSUME NEW v, NEW r, NEW s \in ThreadInfo, NEW frames, Tracks(v, r, frames), SameWritten(r, s)
  PROVE  /\ Tracks(v, s, frames)
         /\ Timely(v, r) /\ CreatedBy(s, s.last_event_time) => Timely(v, s)
         /\ \A limit \in Int : Within(v, r, limit) /\ CreatedBy(s, limit) => Within(v, s, limit)
<1>1. Shown(v, s) = Shown(v, r)
  BY DEF Shown, SameWritten
<1>2. Tracks(v, s, frames) /\ (Timely(v, r) /\ CreatedBy(s, s.last_event_time) => Timely(v, s))
  BY <1>1 DEF Tracks, Follows, Timely, SameWritten
<1>3. \A limit \in Int : Within(v, r, limit) /\ CreatedBy(s, limit) => Within(v, s, limit)
  BY <1>1 DEF Within, SameWritten
<1> QED
  BY <1>2, <1>3

\* Events are added and the stack becomes what they lead to.
Emit(r, time, evs, stack) == [AddEvents(r, time, evs) EXCEPT !.stack = stack]

MayAdd(v, r, time, evs) ==
  /\ Timely(v, r) => Allowed(r.last_event_time, time, evs)
  /\ \A limit \in Int : Within(v, r, limit) => time <= limit /\ ResetBy(evs, limit)

SameOuter(r, s) == s.inactive = r.inactive /\ s.create_time = r.create_time

LEMMA AddEventsStacks ==
  ASSUME NEW r \in ThreadInfo, NEW time, NEW evs
  PROVE  SameStacks(r, AddEvents(r, time, evs))
<1>1. SameStacks(r, Flush(r, time))
  BY DEF Flush, ThreadInfo, SameStacks
<1>2. /\ Flush(r, time) = [Flush(r, time) EXCEPT !.stack = Flush(r, time).stack]
  BY DEF Flush, ThreadInfo
<1> QED
  BY <1>1, <1>2 DEF AddEvents, Flush, ThreadInfo, SameStacks

LEMMA EmitKeeps ==
  ASSUME NEW v, NEW r, NEW time \in Time, NEW evs \in Seq(PendingEvent),
         NEW stack \in Seq(Frames),
         Good(v, r), Leads(OpenFrames(r), evs, OuterFrames(r.inactive) \o stack),
         MayAdd(v, r, time, evs)
  PROVE  /\ Keeps(v, r, Emit(r, time, evs, stack))
         /\ Emit(r, time, evs, stack).stack = stack
         /\ SameOuter(r, Emit(r, time, evs, stack))
<1> DEFINE a == AddEvents(r, time, evs)
           s == Emit(r, time, evs, stack)
           after == OuterFrames(r.inactive) \o stack
<1>1. r \in ThreadInfo /\ Tracks(v, r, OpenFrames(r)) /\ OuterFrames(r.inactive) \in Seq(Frames)
  BY GoodFields, OpenFramesSplit
<1>2. after \in Seq(Frames)
  BY <1>1, ConcatType
<1> HIDE DEF after
<1>3. /\ Tracks(v, a, after) /\ SameStacks(r, a)
      /\ Timely(v, r) /\ Allowed(r.last_event_time, time, evs) => Timely(v, a)
      /\ \A limit \in Int : Within(v, r, limit) /\ time <= limit /\ ResetBy(evs, limit)
         => Within(v, a, limit)
  BY <1>1, <1>2, AddEventsTracks DEF after
<1>4. s = [a EXCEPT !.stack = stack]
  BY DEF Emit
<1> HIDE DEF a, s
<1>5. a \in ThreadInfo
  BY <1>3 DEF Tracks
<1>6. /\ s \in ThreadInfo /\ s.stack = stack /\ SameWritten(a, s)
      /\ s.inactive = a.inactive /\ s.create_time = a.create_time
  BY <1>4, <1>5 DEF ThreadInfo, SameWritten
<1>7. OpenFrames(s) = after
  BY <1>3, <1>6, OpenFramesSplit DEF SameStacks, after
<1>8. Timely(v, a) => CreatedBy(s, s.last_event_time)
  BY <1>6 DEF Timely, CreatedBy, SameWritten
<1>9. /\ Good(v, s) /\ (Timely(v, a) => Timely(v, s))
      /\ \A limit \in Int : Within(v, a, limit) /\ CreatedBy(s, limit) => Within(v, s, limit)
  BY <1>3, <1>6, <1>7, <1>8, Restack DEF Good
<1>10. Timely(v, r) => Timely(v, s)
  BY <1>3, <1>9 DEF MayAdd
<1>11. StaysWithin(v, r, s)
  <2> SUFFICES ASSUME NEW limit \in Int, Within(v, r, limit) PROVE Within(v, s, limit)
    BY DEF StaysWithin
  <2>1. Within(v, a, limit)
    BY <1>3 DEF MayAdd
  <2>2. CreatedBy(s, limit)
    BY <1>6, <2>1 DEF Within, CreatedBy
  <2> QED
    BY <1>9, <2>1, <2>2
<1>12. Keeps(v, r, s)
  BY <1>3, <1>6, <1>9, <1>10, <1>11 DEF Keeps, SameWritten, SameStacks
<1> QED
  BY <1>3, <1>6, <1>12 DEF s, SameStacks, SameOuter

\* Nothing but the written and the pending events changes.
LEMMA AddKeeps ==
  ASSUME NEW v, NEW r, NEW time \in Time, NEW evs \in Seq(PendingEvent),
         Good(v, r), Leads(OpenFrames(r), evs, OpenFrames(r)), MayAdd(v, r, time, evs)
  PROVE  Keeps(v, r, AddEvents(r, time, evs)) /\ SameOuter(r, AddEvents(r, time, evs))
<1> DEFINE a == AddEvents(r, time, evs)
<1>1. /\ r \in ThreadInfo /\ r.stack \in Seq(Frames)
      /\ OpenFrames(r) = OuterFrames(r.inactive) \o r.stack
  BY GoodFields, OpenFramesSplit, ThreadInfoFields
<1>2. Keeps(v, r, Emit(r, time, evs, r.stack)) /\ SameOuter(r, Emit(r, time, evs, r.stack))
  BY <1>1, EmitKeeps
<1>3. Emit(r, time, evs, r.stack) = a
  <2>1. a.stack = r.stack
    BY <1>1, AddEventsStacks DEF SameStacks
  <2>2. [a EXCEPT !.stack = a.stack] = a
    BY <1>1 DEF AddEvents, Flush, ThreadInfo
  <2> QED
    BY <2>1, <2>2 DEF Emit
<1> QED
  BY <1>2, <1>3
\* The time is that of the event the thread has come to.
Now(r, time) == time = r.last_event_time

LEMMA NowOn ==
  ASSUME NEW v, NEW r, NEW s, NEW time, Now(r, time), Keeps(v, r, s)
  PROVE  Now(s, time) /\ Good(v, s)
BY DEF Now, Keeps

LEMMA NowTime ==
  ASSUME NEW v, NEW r, NEW time, Good(v, r), Now(r, time)
  PROVE  time \in Time /\ r \in ThreadInfo
BY GoodFields, ThreadInfoFields DEF Now

LEMMA MayAddCalls ==
  ASSUME NEW v, NEW r \in ThreadInfo, NEW time, NEW frames,
         Now(r, time) \/ time = r.create_time
  PROVE  MayAdd(v, r, time, CallsOf(frames))
<1>1. \A i \in DOMAIN CallsOf(frames) : CallsOf(frames)[i].kind = "Call"
  BY DEF CallsOf, CallEvent
<1>2. \A i \in DOMAIN CallsOf(frames) : CallsOf(frames)[i].kind # "RetFromUntraced"
  BY <1>1
<1>3. r.last_event_time \in Int
  BY ThreadInfoFields, TimeIsInt
<1>4. Timely(v, r) => time <= r.last_event_time
  <2>1. Timely(v, r) => r.create_time <= r.last_event_time
    BY DEF Timely, CreatedBy
  <2>2. CASE Now(r, time)
    BY <1>3, <2>2 DEF Now
  <2>3. CASE time = r.create_time
    BY <2>1, <2>3
  <2> QED
    BY <2>2, <2>3
<1>5. \A limit \in Int : Within(v, r, limit) => time <= limit
  BY DEF Within, CreatedBy, Now
<1>6. \A limit \in Int : ResetBy(CallsOf(frames), limit)
  BY <1>2 DEF ResetBy
<1> QED
  BY <1>1, <1>2, <1>4, <1>5, <1>6 DEF Allowed, MayAdd

\* Events at the time of the thread, none of which goes back to an earlier one.
LEMMA MayAddNow ==
  ASSUME NEW v, NEW r \in ThreadInfo, NEW time, NEW evs, Now(r, time),
         \A i \in DOMAIN evs : evs[i].kind # "RetFromUntraced"
  PROVE  MayAdd(v, r, time, evs)
<1>1. r.last_event_time \in Int
  BY ThreadInfoFields, TimeIsInt
<1>2. \A limit \in Int : Within(v, r, limit) => time <= limit /\ ResetBy(evs, limit)
  BY DEF Within, ResetBy, Now
<1> QED
  BY <1>1, <1>2 DEF Allowed, MayAdd, Now

LEMMA MayAddRetFromUntraced ==
  ASSUME NEW v, NEW r \in ThreadInfo, NEW time, Now(r, time)
  PROVE  MayAdd(v, r, time, <<RetFromUntraced(r.create_time)>>)
<1> DEFINE evs == <<RetFromUntraced(r.create_time)>>
<1>1. r.last_event_time \in Int
  BY ThreadInfoFields, TimeIsInt
<1>2. \A i \in DOMAIN evs : evs[i].reset_time = r.create_time
  BY DEF RetFromUntraced
<1> HIDE DEF evs
<1>3. Timely(v, r) => r.create_time <= r.last_event_time
  BY DEF Timely, CreatedBy
<1>4. \A limit \in Int : Within(v, r, limit) => time <= limit /\ ResetBy(evs, limit)
  BY <1>2 DEF Within, CreatedBy, ResetBy, Now
<1>5. MayAdd(v, r, time, evs)
  BY <1>1, <1>2, <1>3, <1>4 DEF Allowed, MayAdd, Now
<1> QED
  BY <1>5 DEF evs

LEMMA AppendIsConcat ==
  ASSUME NEW T, NEW seq \in Seq(T), NEW e \in T
  PROVE  seq \o <<e>> = Append(seq, e)
OBVIOUS

LEMMA CallIsEmit ==
  ASSUME NEW r \in ThreadInfo, NEW time, NEW symbol
  PROVE  Call(r, time, symbol)
           = Emit(r, time, CallsOf(<<symbol>>), Append(r.stack, symbol))
BY AddEventsStacks, ZenonT(60) DEF Call, Emit, SameStacks

LEMMA RetIsEmit ==
  ASSUME NEW r \in ThreadInfo, NEW time, r.stack # <<>>
  PROVE  Ret(r, time) = Emit(r, time, <<RetEvent(Last(r.stack))>>, Front(r.stack))
BY AddEventsStacks DEF Ret, Emit, SameStacks

LEMMA FrontLast ==
  ASSUME NEW T, NEW seq \in Seq(T), seq # <<>>
  PROVE  /\ Front(seq) \in Seq(T) /\ Last(seq) \in T
         /\ seq = Append(Front(seq), Last(seq))
BY DEF Front, Last

LEMMA CallKeeps ==
  ASSUME NEW v, NEW r, Good(v, r), NEW time, NEW symbol \in Frames,
         Now(r, time) \/ time = r.create_time
  PROVE  Keeps(v, r, Call(r, time, symbol)) /\ SameOuter(r, Call(r, time, symbol))
<1> DEFINE evs == CallsOf(<<symbol>>)
           stack == Append(r.stack, symbol)
           outer == OuterFrames(r.inactive)
<1>1. /\ r \in ThreadInfo /\ OpenFrames(r) \in Seq(Frames)
      /\ OpenFrames(r) = outer \o r.stack
      /\ outer \in Seq(Frames) /\ r.stack \in Seq(Frames)
  BY GoodFields, OpenFramesSplit, ThreadInfoFields
<1>2. time \in Time
  BY <1>1, ThreadInfoFields DEF Now
<1>3. stack \in Seq(Frames) /\ <<symbol>> \in Seq(Frames)
  BY <1>1
<1>4. evs \in Seq(PendingEvent) /\ Leads(OpenFrames(r), evs, OpenFrames(r) \o <<symbol>>)
  BY <1>1, <1>3, LeadsByCalls
<1>5. MayAdd(v, r, time, evs)
  BY <1>1, MayAddCalls
<1> HIDE DEF evs, outer
<1>6. OpenFrames(r) \o <<symbol>> = outer \o stack
  <2>1. OpenFrames(r) \o <<symbol>> = Append(OpenFrames(r), symbol)
    BY <1>1, AppendIsConcat
  <2>2. outer \o Append(r.stack, symbol) = Append(outer \o r.stack, symbol)
    BY <1>1, ConcatAppend
  <2> QED
    BY <1>1, <2>1, <2>2
<1> HIDE DEF stack
<1>7. /\ Keeps(v, r, Emit(r, time, evs, stack))
      /\ SameOuter(r, Emit(r, time, evs, stack))
  BY <1>2, <1>3, <1>4, <1>5, <1>6, EmitKeeps DEF outer
<1> QED
  BY <1>1, <1>7, CallIsEmit DEF evs, stack

LEMMA RetKeeps ==
  ASSUME NEW v, NEW r, Good(v, r), NEW time, Now(r, time)
  PROVE  Keeps(v, r, Ret(r, time)) /\ SameOuter(r, Ret(r, time))
<1> DEFINE outer == OuterFrames(r.inactive)
<1>1. /\ r \in ThreadInfo /\ OpenFrames(r) \in Seq(Frames)
      /\ OpenFrames(r) = outer \o r.stack
      /\ outer \in Seq(Frames) /\ r.stack \in Seq(Frames)
  BY GoodFields, OpenFramesSplit, ThreadInfoFields
<1>2. time \in Time /\ r.create_time \in Time
  BY <1>1, NowTime, ThreadInfoFields
<1> HIDE DEF outer
<1>3. CASE r.stack # <<>>
  <2> DEFINE stack == Front(r.stack)
             symbol == Last(r.stack)
             evs == <<RetEvent(symbol)>>
  <2>1. stack \in Seq(Frames) /\ symbol \in Frames /\ r.stack = Append(stack, symbol)
    BY <1>1, <1>3, FrontLast
  <2>2. MayAdd(v, r, time, evs)
    <3>1. \A i \in DOMAIN evs : evs[i].kind # "RetFromUntraced"
      BY DEF RetEvent
    <3> QED
      BY <1>1, <3>1, MayAddNow
  <2>3. Ret(r, time) = Emit(r, time, evs, stack)
    BY <1>1, <1>3, RetIsEmit
  <2> HIDE DEF stack, symbol
  <2>4. outer \o stack \in Seq(Frames)
    BY <1>1, <2>1, ConcatType
  <2>5. RetEvent(symbol) \in PendingEvent /\ Leads(Append(outer \o stack, symbol), evs, outer \o stack)
    BY <2>1, <2>4, LeadsByRet
  <2>6. Append(outer \o stack, symbol) = OpenFrames(r)
    <3>1. outer \o Append(stack, symbol) = Append(outer \o stack, symbol)
      BY <1>1, <2>1, ConcatAppend
    <3> QED
      BY <1>1, <2>1, <3>1
  <2>7. evs \in Seq(PendingEvent)
    BY <2>5
  <2> HIDE DEF evs
  <2>8. Keeps(v, r, Emit(r, time, evs, stack)) /\ SameOuter(r, Emit(r, time, evs, stack))
    BY <1>2, <2>1, <2>2, <2>5, <2>6, <2>7, EmitKeeps DEF outer
  <2> QED
    BY <2>3, <2>8
<1>4. CASE r.stack = <<>>
  <2> DEFINE evs == <<RetFromUntraced(r.create_time)>>
  <2>1. /\ RetFromUntraced(r.create_time) \in PendingEvent
        /\ Leads(OpenFrames(r), evs, OpenFrames(r))
    BY <1>1, <1>2, LeadsByRetFromUntraced
  <2>2. evs \in Seq(PendingEvent)
    BY <2>1
  <2>3. MayAdd(v, r, time, evs)
    BY <1>1, MayAddRetFromUntraced
  <2>4. Ret(r, time) = AddEvents(r, time, evs)
    BY <1>4 DEF Ret
  <2> HIDE DEF evs
  <2> QED
    BY <1>2, <2>1, <2>2, <2>3, <2>4, AddKeeps
<1> QED
  BY <1>3, <1>4

LEMMA CheckCurrentSymbolKeeps ==
  ASSUME NEW v, NEW r, Good(v, r), NEW time, Now(r, time), NEW symbol \in Frames
  PROVE  Keeps(v, r, CheckCurrentSymbol(r, time, symbol))
<1>1. CASE r.stack = <<>>
  <2>1. Keeps(v, r, Call(r, r.create_time, symbol))
    BY CallKeeps
  <2> QED
    BY <1>1, <2>1 DEF CheckCurrentSymbol
<1>2. CASE r.stack # <<>> /\ Last(r.stack) # symbol
  <2> DEFINE s == Ret(r, time)
  <2>1. Keeps(v, r, s)
    BY RetKeeps
  <2>2. Good(v, s) /\ Now(s, time)
    BY <2>1, NowOn
  <2>3. CheckCurrentSymbol(r, time, symbol) = Call(s, time, symbol)
    BY <1>2 DEF CheckCurrentSymbol
  <2> HIDE DEF s
  <2>4. Keeps(v, s, Call(s, time, symbol))
    BY <2>2, CallKeeps
  <2> QED
    BY <2>1, <2>3, <2>4, KeepsOn
<1>3. CASE r.stack # <<>> /\ Last(r.stack) = symbol
  <2>1. CheckCurrentSymbol(r, time, symbol) = r
    BY <1>3 DEF CheckCurrentSymbol
  <2> QED
    BY <2>1, KeepsSame
<1> QED
  BY <1>1, <1>2, <1>3
\* Only the callstacks change, and the frames they have open do not.
LEMMA RestackKeeps ==
  ASSUME NEW v, NEW r, NEW s \in ThreadInfo, Good(v, r), SameWritten(r, s),
         OpenFrames(s) = OpenFrames(r), Timely(v, r) => CreatedBy(s, s.last_event_time),
         \A limit \in Int : Within(v, r, limit) => CreatedBy(s, limit)
  PROVE  Keeps(v, r, s)
<1>1. /\ Tracks(v, s, OpenFrames(r)) /\ (Timely(v, r) => Timely(v, s))
      /\ StaysWithin(v, r, s)
  BY GoodFields, Restack DEF StaysWithin
<1>2. s.last_event_time = r.last_event_time
  BY DEF SameWritten
<1> QED
  BY <1>1, <1>2 DEF Keeps, Good

LEMMA ClearCallstackKeeps ==
  ASSUME NEW v, NEW r, Good(v, r), NEW time, Now(r, time)
  PROVE  /\ Keeps(v, r, ClearCallstack(r, time)) /\ SameOuter(r, ClearCallstack(r, time))
         /\ ClearCallstack(r, time).stack = <<>>
<1> DEFINE evs == ReturnsOf(r.stack)
           outer == OuterFrames(r.inactive)
<1>1. /\ r \in ThreadInfo /\ OpenFrames(r) \in Seq(Frames)
      /\ OpenFrames(r) = outer \o r.stack
      /\ outer \in Seq(Frames) /\ r.stack \in Seq(Frames)
  BY GoodFields, OpenFramesSplit, ThreadInfoFields
<1>2. time \in Time
  BY NowTime
<1>3. ClearCallstack(r, time) = Emit(r, time, evs, <<>>)
  BY DEF ClearCallstack, Emit
<1>4. MayAdd(v, r, time, evs)
  <2>1. \A i \in DOMAIN evs : evs[i].kind # "RetFromUntraced"
    BY DEF ReturnsOf, RetEvent
  <2> QED
    BY <1>1, <2>1, MayAddNow
<1> HIDE DEF evs, outer
<1>5. evs \in Seq(PendingEvent) /\ Leads(OpenFrames(r), evs, outer)
  BY <1>1, LeadsByReturns DEF evs
<1>6. outer \o <<>> = outer /\ <<>> \in Seq(Frames)
  BY <1>1, ConcatEmpty
<1>7. Leads(OpenFrames(r), evs, OuterFrames(r.inactive) \o <<>>)
  BY <1>5, <1>6 DEF outer
<1>8. /\ Keeps(v, r, Emit(r, time, evs, <<>>)) /\ SameOuter(r, Emit(r, time, evs, <<>>))
      /\ Emit(r, time, evs, <<>>).stack = <<>>
  BY <1>2, <1>4, <1>5, <1>6, <1>7, EmitKeeps, ZenonT(60)
<1> QED
  BY <1>3, <1>8

LEMMA OpenFramesOfNone ==
  ASSUME NEW r, r.inactive = <<>>, r.stack = <<>>
  PROVE  OpenFrames(r) = <<>>
<1>1. OpenFrames(r) = OuterFrames(r.inactive) \o r.stack
  BY DEF OpenFrames, OuterFrames
<1>2. <<>> \o <<>> = <<>>
  OBVIOUS
<1> QED
  BY <1>1, <1>2, OuterFramesNone

LEMMA ClearAllCallstacksKeeps ==
  ASSUME NEW v, NEW r, Good(v, r), NEW time, Now(r, time)
  PROVE  /\ Keeps(v, r, ClearAllCallstacks(r, time))
         /\ ClearAllCallstacks(r, time).stack = <<>>
         /\ ClearAllCallstacks(r, time).inactive = <<>>
<1> DEFINE evs == ReturnsOf(OpenFrames(r))
           a == AddEvents(r, time, evs)
           created == IF r.inactive = <<>> THEN r.create_time ELSE r.inactive[1].create_time
           s == [a EXCEPT !.stack = <<>>, !.inactive = <<>>, !.create_time = created]
<1>1. /\ r \in ThreadInfo /\ OpenFrames(r) \in Seq(Frames) /\ Tracks(v, r, OpenFrames(r))
  BY GoodFields
<1>2. time \in Time
  BY NowTime
<1>3. MayAdd(v, r, time, evs)
  <2>1. \A i \in DOMAIN evs : evs[i].kind # "RetFromUntraced"
    BY DEF ReturnsOf, RetEvent
  <2> QED
    BY <1>1, <2>1, MayAddNow
<1>4. /\ <<>> \in Seq(Frames) /\ <<>> \o OpenFrames(r) = OpenFrames(r)
  BY <1>1, ConcatEmpty
<1>5. evs \in Seq(PendingEvent) /\ Leads(OpenFrames(r), evs, <<>>)
  <2>1. Leads(<<>> \o OpenFrames(r), evs, <<>>) /\ evs \in Seq(PendingEvent)
    BY <1>1, <1>4, LeadsByReturns
  <2> QED
    BY <1>4, <2>1
<1> HIDE DEF evs
<1>6. /\ Tracks(v, a, <<>>) /\ SameStacks(r, a) /\ (Timely(v, r) => Timely(v, a))
      /\ \A limit \in Int : Within(v, r, limit) => Within(v, a, limit)
  BY <1>1, <1>2, <1>3, <1>4, <1>5, AddEventsTracks DEF MayAdd
<1>7. ClearAllCallstacks(r, time) = s
  <2>1. a.create_time = r.create_time
    BY <1>6 DEF SameStacks
  <2> QED
    BY <2>1 DEF ClearAllCallstacks, evs
<1> HIDE DEF a
<1>8. a \in ThreadInfo
  BY <1>6 DEF Tracks
<1>9. /\ created \in Time /\ (Timely(v, r) => created <= r.last_event_time)
      /\ \A limit \in Int : Within(v, r, limit) => created <= limit
  <2>1. CASE r.inactive = <<>>
    <3>1. created = r.create_time
      BY <2>1
    <3> HIDE DEF created
    <3> QED
      BY <1>1, <3>1, ThreadInfoFields DEF Timely, Within, CreatedBy
  <2>2. CASE r.inactive # <<>>
    <3>1. created = r.inactive[1].create_time
      BY <2>2
    <3>2. r.inactive \in Seq(Callstack)
      BY <1>1, ThreadInfoFields
    <3>3. 1 \in DOMAIN r.inactive /\ r.inactive[1] \in Callstack
      BY <2>2, <3>2
    <3> HIDE DEF created
    <3> QED
      BY <3>1, <3>3 DEF Timely, Within, CreatedBy, Callstack
  <2> QED
    BY <2>1, <2>2
<1> HIDE DEF created
<1>10. /\ s \in ThreadInfo /\ s.stack = <<>> /\ s.inactive = <<>> /\ s.create_time = created
       /\ SameWritten(a, s)
  <2>1. <<>> \in Seq(Frames) /\ <<>> \in Seq(Callstack) /\ created \in Time
    BY <1>9, ConcatEmpty
  <2> QED
    BY <1>8, <2>1 DEF ThreadInfo, SameWritten
<1> HIDE DEF s
<1>11. OpenFrames(s) = <<>>
  BY <1>10, OpenFramesOfNone
<1>12. s.last_event_time = r.last_event_time
  BY <1>6, <1>10 DEF SameWritten, SameStacks
<1>13. Timely(v, r) => CreatedBy(s, s.last_event_time)
  <2>1. \A i \in DOMAIN s.inactive : FALSE
    BY <1>10
  <2> QED
    BY <1>9, <1>10, <1>12, <2>1 DEF CreatedBy
<1>14. /\ Good(v, s) /\ (Timely(v, r) => Timely(v, s))
       /\ \A limit \in Int : Within(v, a, limit) /\ CreatedBy(s, limit) => Within(v, s, limit)
  BY <1>6, <1>10, <1>11, <1>13, Restack DEF Good
<1>15. StaysWithin(v, r, s)
  <2> SUFFICES ASSUME NEW limit \in Int, Within(v, r, limit) PROVE Within(v, s, limit)
    BY DEF StaysWithin
  <2>1. \A i \in DOMAIN s.inactive : FALSE
    BY <1>10
  <2>2. CreatedBy(s, limit)
    BY <1>9, <1>10, <2>1 DEF CreatedBy
  <2> QED
    BY <1>6, <1>14, <2>2
<1> QED
  BY <1>7, <1>10, <1>12, <1>14, <1>15 DEF Keeps
\* The current callstack joins the inactive ones and an empty one takes its place.
Suspended(r, time) ==
  [r EXCEPT !.inactive = Append(@, [stack |-> r.stack, create_time |-> r.create_time]),
            !.stack = <<>>,
            !.create_time = time]

LEMMA SuspendedKeeps ==
  ASSUME NEW v, NEW r, Good(v, r), NEW time, Now(r, time)
  PROVE  LET x == Suspended(r, time)
         IN  /\ Keeps(v, r, x) /\ SameWritten(r, x) /\ Now(x, time)
             /\ x.stack = <<>>
             /\ x.inactive = Append(r.inactive, [stack |-> r.stack, create_time |-> r.create_time])
<1> DEFINE c == [stack |-> r.stack, create_time |-> r.create_time]
           more == Append(r.inactive, c)
           x == [r EXCEPT !.inactive = more, !.stack = <<>>, !.create_time = time]
<1>1. /\ r \in ThreadInfo /\ r.stack \in Seq(Frames) /\ r.inactive \in Seq(Callstack)
      /\ r.create_time \in Time
      /\ OpenFrames(r) = OuterFrames(r.inactive) \o r.stack
  BY GoodFields, OpenFramesSplit, ThreadInfoFields
<1>2. time \in Time /\ r.last_event_time \in Int
  BY <1>1, NowTime, ThreadInfoFields, TimeIsInt
<1>3. c \in Callstack /\ c.stack = r.stack /\ c.create_time = r.create_time
  BY <1>1 DEF Callstack
<1>4. Suspended(r, time) = x
  BY DEF Suspended
<1> HIDE DEF c
<1>5. more \in Seq(Callstack) /\ OuterFrames(more) = OuterFrames(r.inactive) \o r.stack
  <2>1. OuterFrames(Append(r.inactive, c)) = OuterFrames(r.inactive) \o c.stack
    BY <1>1, <1>3, OuterFramesOneMore
  <2>2. Append(r.inactive, c) \in Seq(Callstack)
    BY <1>1, <1>3
  <2> QED
    BY <1>3, <2>1, <2>2
<1>6. \A i \in DOMAIN more : \/ more[i] = c
                             \/ i \in DOMAIN r.inactive /\ more[i] = r.inactive[i]
  BY <1>1, <1>3
<1> HIDE DEF more
<1>7. /\ x \in ThreadInfo /\ x.inactive = more /\ x.stack = <<>> /\ x.create_time = time
      /\ SameWritten(r, x)
  BY <1>1, <1>2, <1>5, ConcatEmpty DEF ThreadInfo, SameWritten
<1> HIDE DEF x
<1>8. OpenFrames(x) = OpenFrames(r)
  <2>1. OpenFrames(x) = OuterFrames(more) \o <<>> /\ OuterFrames(more) \in Seq(Frames)
    BY <1>7, OpenFramesSplit
  <2> QED
    BY <1>1, <1>5, <2>1, ConcatEmpty
<1>9. x.last_event_time = r.last_event_time /\ Now(x, time)
  BY <1>7 DEF SameWritten, Now
<1>10. Timely(v, r) => CreatedBy(x, x.last_event_time)
  <2>1. time <= r.last_event_time
    BY <1>2 DEF Now
  <2>2. Timely(v, r) => /\ r.create_time <= r.last_event_time
                        /\ \A i \in DOMAIN r.inactive :
                             r.inactive[i].create_time <= r.last_event_time
    BY DEF Timely, CreatedBy
  <2>3. Timely(v, r) => \A i \in DOMAIN more : more[i].create_time <= r.last_event_time
    BY <1>3, <1>6, <2>2
  <2> QED
    BY <1>7, <1>9, <2>1, <2>3 DEF CreatedBy
<1>11. ASSUME NEW limit \in Int, Within(v, r, limit) PROVE CreatedBy(x, limit)
  <2>1. time <= limit
    BY <1>11 DEF Within, Now
  <2>2. /\ r.create_time <= limit
        /\ \A i \in DOMAIN r.inactive : r.inactive[i].create_time <= limit
    BY <1>11 DEF Within, CreatedBy
  <2>3. \A i \in DOMAIN more : more[i].create_time <= limit
    BY <1>3, <1>6, <2>2
  <2> QED
    BY <1>7, <2>1, <2>3 DEF CreatedBy
<1>12. Keeps(v, r, x)
  BY <1>7, <1>8, <1>10, <1>11, RestackKeeps
<1> QED
  BY <1>4, <1>7, <1>9, <1>12 DEF more, c

LEMMA EnterContextKeeps ==
  ASSUME NEW v, NEW r, Good(v, r), NEW time, Now(r, time), NEW dst \in Frames
  PROVE  Keeps(v, r, EnterContext(r, time, dst))
<1> DEFINE x == Suspended(r, time)
<1>1. EnterContext(r, time, dst) = Call(x, time, dst)
  BY DEF EnterContext, Suspended
<1>2. Keeps(v, r, x) /\ Now(x, time)
  BY SuspendedKeeps
<1> HIDE DEF x
<1>3. Keeps(v, x, Call(x, time, dst))
  BY <1>2, KeepsFields, CallKeeps
<1> QED
  BY <1>1, <1>2, <1>3, KeepsOn

\* The innermost inactive callstack takes the place of an empty one.
Resumed(r) ==
  [r EXCEPT !.stack = Last(r.inactive).stack,
            !.create_time = Last(r.inactive).create_time,
            !.inactive = Front(@)]

LEMMA ResumedKeeps ==
  ASSUME NEW v, NEW r, Good(v, r), r.stack = <<>>, r.inactive # <<>>
  PROVE  /\ Keeps(v, r, Resumed(r)) /\ SameWritten(r, Resumed(r))
         /\ Resumed(r).stack = Last(r.inactive).stack
         /\ Resumed(r).inactive = Front(r.inactive)
         /\ OpenFrames(Resumed(r)) = OpenFrames(r)
<1> DEFINE c == Last(r.inactive)
           less == Front(r.inactive)
           x == [r EXCEPT !.stack = c.stack, !.create_time = c.create_time, !.inactive = less]
<1>1. r \in ThreadInfo /\ r.inactive \in Seq(Callstack)
  BY GoodFields, ThreadInfoFields
<1>2. /\ less \in Seq(Callstack) /\ c \in Callstack /\ r.inactive = Append(less, c)
  BY <1>1, FrontLast
<1>3. Resumed(r) = x
  BY DEF Resumed
<1> HIDE DEF c, less
<1>4. c.stack \in Seq(Frames) /\ c.create_time \in Time
  BY <1>2 DEF Callstack
<1>5. /\ x \in ThreadInfo /\ SameWritten(r, x) /\ x.inactive = less
      /\ x.stack = c.stack /\ x.create_time = c.create_time
  BY <1>1, <1>2, <1>4 DEF ThreadInfo, SameWritten
<1> HIDE DEF x
<1>6. OpenFrames(x) = OpenFrames(r)
  <2>1. OpenFrames(x) = OuterFrames(less) \o c.stack
    BY <1>5, OpenFramesSplit
  <2>2. OpenFrames(r) = OuterFrames(r.inactive) \o <<>> /\ OuterFrames(r.inactive) \in Seq(Frames)
    BY <1>1, OpenFramesSplit
  <2>3. OuterFrames(Append(less, c)) = OuterFrames(less) \o c.stack
    BY <1>2, OuterFramesOneMore
  <2> QED
    BY <1>2, <2>1, <2>2, <2>3, ConcatEmpty
<1>7. Timely(v, r) => CreatedBy(x, x.last_event_time)
  <2>1. x.last_event_time = r.last_event_time
    BY <1>5 DEF SameWritten
  <2>2. Timely(v, r) =>
          \A i \in DOMAIN r.inactive : r.inactive[i].create_time <= r.last_event_time
    BY DEF Timely, CreatedBy
  <2>3. /\ \A i \in DOMAIN less : i \in DOMAIN r.inactive /\ r.inactive[i] = less[i]
        /\ \E i \in DOMAIN r.inactive : r.inactive[i] = c
    BY <1>2
  <2>4. Timely(v, r) => /\ c.create_time <= r.last_event_time
                        /\ \A i \in DOMAIN less : less[i].create_time <= r.last_event_time
    BY <2>2, <2>3
  <2> QED
    BY <1>5, <2>1, <2>4 DEF CreatedBy
<1>8. ASSUME NEW limit \in Int, Within(v, r, limit) PROVE CreatedBy(x, limit)
  <2>1. \A i \in DOMAIN r.inactive : r.inactive[i].create_time <= limit
    BY <1>8 DEF Within, CreatedBy
  <2>2. /\ \A i \in DOMAIN less : i \in DOMAIN r.inactive /\ r.inactive[i] = less[i]
        /\ \E i \in DOMAIN r.inactive : r.inactive[i] = c
    BY <1>2
  <2>3. c.create_time <= limit /\ \A i \in DOMAIN less : less[i].create_time <= limit
    BY <2>1, <2>2
  <2> QED
    BY <1>5, <2>3 DEF CreatedBy
<1>9. Keeps(v, r, x)
  BY <1>5, <1>6, <1>7, <1>8, RestackKeeps
<1> QED
  BY <1>3, <1>5, <1>6, <1>9 DEF c, less

LEMMA LeaveContextByInactive ==
  ASSUME NEW v, NEW r, Good(v, r), NEW time, Now(r, time), NEW dst
  PROVE  /\ r.inactive = <<>> => LeaveContext(r, time, dst)
              = [ClearCallstack(r, time) EXCEPT !.create_time = time]
         /\ r.inactive # <<>> => LeaveContext(r, time, dst)
              = CheckCurrentSymbol(Resumed(ClearCallstack(r, time)), time, dst)
<1>1. ClearCallstack(r, time).inactive = r.inactive
  BY ClearCallstackKeeps DEF SameOuter
<1> QED
  BY <1>1 DEF LeaveContext, Resumed

LEMMA LeaveContextKeeps ==
  ASSUME NEW v, NEW r, Good(v, r), NEW time, Now(r, time), NEW dst \in Frames
  PROVE  Keeps(v, r, LeaveContext(r, time, dst))
<1> DEFINE cleared == ClearCallstack(r, time)
<1>1. Keeps(v, r, cleared) /\ SameOuter(r, cleared) /\ cleared.stack = <<>>
  BY ClearCallstackKeeps
<1>2. Good(v, cleared) /\ Now(cleared, time)
  BY <1>1, NowOn
<1>3. CASE r.inactive = <<>>
  <2> DEFINE x == [cleared EXCEPT !.create_time = time]
  <2>1. LeaveContext(r, time, dst) = x
    BY <1>3, LeaveContextByInactive
  <2> HIDE DEF cleared
  <2>2. cleared \in ThreadInfo /\ time \in Time /\ cleared.last_event_time \in Int
    BY <1>2, NowTime, ThreadInfoFields, TimeIsInt
  <2>3. /\ x \in ThreadInfo /\ SameWritten(cleared, x) /\ x.inactive = cleared.inactive
        /\ x.stack = cleared.stack /\ x.create_time = time
    BY <2>2 DEF ThreadInfo, SameWritten
  <2> HIDE DEF x
  <2>4. OpenFrames(x) = OpenFrames(cleared)
    BY <2>3 DEF OpenFrames
  <2>5. x.last_event_time = cleared.last_event_time /\ time = cleared.last_event_time
    BY <1>2, <2>3 DEF SameWritten, Now
  <2>6. CreatedBy(x, x.last_event_time)
    <3>1. \A i \in DOMAIN x.inactive : FALSE
      BY <1>1, <1>3, <2>3 DEF SameOuter
    <3>2. x.create_time <= x.last_event_time
      BY <2>2, <2>3, <2>5
    <3> QED
      BY <3>1, <3>2 DEF CreatedBy
  <2>7. ASSUME NEW limit \in Int, Within(v, cleared, limit) PROVE CreatedBy(x, limit)
    <3>1. \A i \in DOMAIN x.inactive : FALSE
      BY <1>1, <1>3, <2>3 DEF SameOuter
    <3>2. x.create_time <= limit
      BY <2>3, <2>5, <2>7 DEF Within
    <3> QED
      BY <3>1, <3>2 DEF CreatedBy
  <2>8. Keeps(v, cleared, x)
    BY <1>2, <2>3, <2>4, <2>6, <2>7, RestackKeeps
  <2> QED
    BY <1>1, <2>1, <2>8, KeepsOn
<1>4. CASE r.inactive # <<>>
  <2> DEFINE x == Resumed(cleared)
  <2>1. LeaveContext(r, time, dst) = CheckCurrentSymbol(x, time, dst)
    BY <1>4, LeaveContextByInactive
  <2>2. cleared.inactive # <<>>
    BY <1>1, <1>4 DEF SameOuter
  <2> HIDE DEF cleared
  <2>3. Keeps(v, cleared, x)
    BY <1>1, <1>2, <2>2, ResumedKeeps
  <2> HIDE DEF x
  <2>4. Good(v, x) /\ Now(x, time)
    BY <1>2, <2>3, NowOn
  <2>5. Keeps(v, x, CheckCurrentSymbol(x, time, dst))
    BY <2>4, CheckCurrentSymbolKeeps
  <2> QED
    BY <1>1, <2>1, <2>3, <2>5, KeepsOn
<1> QED
  BY <1>3, <1>4

-----------------------------------------------------------------------------
(* The handlers *)

BranchType ==
  [kind : Kinds, trace_state : {"None", "Start", "End"}, src : Frames, dst : Frames]

LEMMA BranchOfKindByKind ==
  ASSUME NEW r, NEW time, NEW br
  PROVE  /\ br.kind = "None" => BranchOfKind(r, time, br) = r
         /\ br.kind = "Call" => BranchOfKind(r, time, br)
              = Call(CheckCurrentSymbol(r, time, br.src), time, br.dst)
         /\ br.kind = "Return" => BranchOfKind(r, time, br)
              = CheckCurrentSymbol(Ret(r, time), time, br.dst)
         /\ br.kind \in {"Jump", "Interrupt", "Async", "TxAbort"} =>
              BranchOfKind(r, time, br) = CheckCurrentSymbol(r, time, br.dst)
         /\ br.kind \in {"Syscall", "HardwareInterrupt"} =>
              BranchOfKind(r, time, br) = EnterContext(r, time, br.dst)
         /\ br.kind \in {"Iret", "Sysret"} =>
              BranchOfKind(r, time, br) = LeaveContext(r, time, br.dst)
<1> DEFINE none == r
           call == Call(CheckCurrentSymbol(r, time, br.src), time, br.dst)
           return == CheckCurrentSymbol(Ret(r, time), time, br.dst)
           jump == CheckCurrentSymbol(r, time, br.dst)
           enter == EnterContext(r, time, br.dst)
           leave == LeaveContext(r, time, br.dst)
<1>1. BranchOfKind(r, time, br)
        = CASE br.kind = "None" -> none
            [] br.kind = "Call" -> call
            [] br.kind = "Return" -> return
            [] br.kind \in {"Jump", "Interrupt", "Async", "TxAbort"} -> jump
            [] br.kind \in {"Syscall", "HardwareInterrupt"} -> enter
            [] br.kind \in {"Iret", "Sysret"} -> leave
  BY DEF BranchOfKind
<1> HIDE DEF none, call, return, jump, enter, leave
<1>2. /\ br.kind = "None" => BranchOfKind(r, time, br) = none
      /\ br.kind = "Call" => BranchOfKind(r, time, br) = call
      /\ br.kind = "Return" => BranchOfKind(r, time, br) = return
  BY <1>1
<1>3. /\ br.kind \in {"Jump", "Interrupt", "Async", "TxAbort"} => BranchOfKind(r, time, br) = jump
      /\ br.kind \in {"Syscall", "HardwareInterrupt"} => BranchOfKind(r, time, br) = enter
      /\ br.kind \in {"Iret", "Sysret"} => BranchOfKind(r, time, br) = leave
  BY <1>1
<1> QED
  BY <1>2, <1>3 DEF none, call, return, jump, enter, leave

LEMMA BranchByState ==
  ASSUME NEW r, NEW time, NEW br
  PROVE  /\ br.trace_state = "End" => Branch(r, time, br) = Call(r, time, Untraced)
         /\ br.trace_state = "Start" => Branch(r, time, br)
              = BranchOfKind(CheckCurrentSymbol(PopUntraced(r, time), time, br.dst), time, br)
         /\ br.trace_state = "None" => Branch(r, time, br) = BranchOfKind(r, time, br)
BY Zenon DEF Branch
LEMMA BranchOfKindKeeps ==
  ASSUME NEW v, NEW r, Good(v, r), NEW time, Now(r, time), NEW br \in BranchType
  PROVE  Keeps(v, r, BranchOfKind(r, time, br))
<1>1. br.kind \in Kinds /\ br.src \in Frames /\ br.dst \in Frames
  BY DEF BranchType
<1>2. CASE br.kind = "None"
  BY <1>2, BranchOfKindByKind, KeepsSame
<1>3. CASE br.kind = "Call"
  <2> DEFINE s == CheckCurrentSymbol(r, time, br.src)
  <2>1. Keeps(v, r, s)
    BY <1>1, CheckCurrentSymbolKeeps
  <2>2. BranchOfKind(r, time, br) = Call(s, time, br.dst)
    BY <1>3, BranchOfKindByKind
  <2> HIDE DEF s
  <2>3. Good(v, s) /\ Now(s, time)
    BY <2>1, NowOn
  <2>4. Keeps(v, s, Call(s, time, br.dst))
    BY <1>1, <2>3, CallKeeps
  <2> QED
    BY <2>1, <2>2, <2>4, KeepsOn
<1>4. CASE br.kind = "Return"
  <2> DEFINE s == Ret(r, time)
  <2>1. Keeps(v, r, s)
    BY RetKeeps
  <2>2. BranchOfKind(r, time, br) = CheckCurrentSymbol(s, time, br.dst)
    BY <1>4, BranchOfKindByKind
  <2> HIDE DEF s
  <2>3. Good(v, s) /\ Now(s, time)
    BY <2>1, NowOn
  <2>4. Keeps(v, s, CheckCurrentSymbol(s, time, br.dst))
    BY <1>1, <2>3, CheckCurrentSymbolKeeps
  <2> QED
    BY <2>1, <2>2, <2>4, KeepsOn
<1>5. CASE br.kind \in {"Jump", "Interrupt", "Async", "TxAbort"}
  <2>1. BranchOfKind(r, time, br) = CheckCurrentSymbol(r, time, br.dst)
    BY <1>5, BranchOfKindByKind
  <2> QED
    BY <1>1, <2>1, CheckCurrentSymbolKeeps
<1>6. CASE br.kind \in {"Syscall", "HardwareInterrupt"}
  <2>1. BranchOfKind(r, time, br) = EnterContext(r, time, br.dst)
    BY <1>6, BranchOfKindByKind
  <2> QED
    BY <1>1, <2>1, EnterContextKeeps
<1>7. CASE br.kind \in {"Iret", "Sysret"}
  <2>1. BranchOfKind(r, time, br) = LeaveContext(r, time, br.dst)
    BY <1>7, BranchOfKindByKind
  <2> QED
    BY <1>1, <2>1, LeaveContextKeeps
<1> QED
  BY <1>1, <1>2, <1>3, <1>4, <1>5, <1>6, <1>7 DEF Kinds

LEMMA PopUntracedKeeps ==
  ASSUME NEW v, NEW r, Good(v, r), NEW time, Now(r, time)
  PROVE  Keeps(v, r, PopUntraced(r, time))
<1>1. Keeps(v, r, Ret(r, time)) /\ Keeps(v, r, r)
  BY RetKeeps, KeepsSame
<1>2. PopUntraced(r, time) = Ret(r, time) \/ PopUntraced(r, time) = r
  BY DEF PopUntraced
<1> QED
  BY <1>1, <1>2

\* process_branch.
LEMMA BranchKeeps ==
  ASSUME NEW v, NEW r, Good(v, r), NEW time, Now(r, time), NEW br \in BranchType
  PROVE  Keeps(v, r, Branch(r, time, br))
<1>1. br.trace_state \in {"None", "Start", "End"} /\ br.dst \in Frames
  BY DEF BranchType
<1>2. CASE br.trace_state = "End"
  <2>1. Untraced \in Frames
    BY DEF Frames
  <2>2. Keeps(v, r, Call(r, time, Untraced))
    BY <2>1, CallKeeps
  <2> QED
    BY <1>2, <2>2, BranchByState
<1>3. CASE br.trace_state = "Start"
  <2> DEFINE s == PopUntraced(r, time)
             x == CheckCurrentSymbol(s, time, br.dst)
  <2>1. Keeps(v, r, s)
    BY PopUntracedKeeps
  <2>2. Branch(r, time, br) = BranchOfKind(x, time, br)
    BY <1>3, BranchByState
  <2> HIDE DEF s
  <2>3. Good(v, s) /\ Now(s, time)
    BY <2>1, NowOn
  <2>4. Keeps(v, s, x)
    BY <1>1, <2>3, CheckCurrentSymbolKeeps
  <2> HIDE DEF x
  <2>5. Good(v, x) /\ Now(x, time)
    BY <2>3, <2>4, NowOn
  <2>6. Keeps(v, x, BranchOfKind(x, time, br))
    BY <2>5, BranchOfKindKeeps
  <2>7. Keeps(v, r, x)
    BY <2>1, <2>4, KeepsOn
  <2> QED
    BY <2>2, <2>6, <2>7, KeepsOn
<1>4. CASE br.trace_state = "None"
  BY <1>4, BranchByState, BranchOfKindKeeps
<1> QED
  BY <1>1, <1>2, <1>3, <1>4

\* The stack and the sample agree on the frames that are counted.
LEMMA MatchCountAgrees ==
  ASSUME NEW stack \in Seq(Frames), NEW sample \in Seq(Frames)
  PROVE  /\ MatchCount(stack, sample) \in 0..Len(sample)
         /\ MatchCount(stack, sample) \in 0..Len(stack)
         /\ \A i \in 1..MatchCount(stack, sample) : stack[i] = sample[i]
<1> DEFINE m == Len(sample)
           S == {n \in 0..m : n <= Len(stack) /\ \A i \in 1..n : stack[i] = sample[i]}
           T == {m - n : n \in S}
<1>1. m \in Nat /\ Len(stack) \in Nat
  OBVIOUS
<1> HIDE DEF m
<1>2. 0 \in S /\ \A n \in S : n \in 0..m
  BY <1>1
<1> HIDE DEF S
<1>3. T \in SUBSET Nat /\ T # {}
  BY <1>1, <1>2
<1> HIDE DEF T
<1>4. PICK least \in T : \A k \in T : ~(k < least)
  BY <1>3, RF!LeastElement
<1>5. PICK most \in S : least = m - most
  BY DEF T
<1>6. \A n \in S : most >= n
  <2> SUFFICES ASSUME NEW n \in S PROVE most >= n
    OBVIOUS
  <2>1. m - n \in T
    BY DEF T
  <2>2. ~(m - n < m - most)
    BY <1>4, <1>5, <2>1
  <2>3. m \in Int /\ n \in Int /\ most \in Int
    BY <1>1, <1>2
  <2> QED
    BY <2>2, <2>3
<1>7. Max(S) \in S
  BY <1>6 DEF Max
<1>8. MatchCount(stack, sample) \in S
  BY <1>7 DEF MatchCount, S, m
<1> QED
  BY <1>1, <1>8 DEF S, m

LEMMA PartsOf ==
  ASSUME NEW T, NEW left \in Seq(T), NEW right \in Seq(T), NEW seq \in Seq(T),
         Len(seq) = Len(left) + Len(right),
         \A i \in 1..Len(left) : seq[i] = left[i],
         \A i \in 1..Len(right) : seq[Len(left) + i] = right[i]
  PROVE  seq = left \o right
<1>1. Len(left \o right) = Len(seq) /\ left \o right \in Seq(T)
  OBVIOUS
<1>2. ASSUME NEW i \in 1..Len(seq) PROVE (left \o right)[i] = seq[i]
  <2>1. CASE i <= Len(left)
    BY <2>1
  <2>2. CASE i > Len(left)
    <3>1. i - Len(left) \in 1..Len(right) /\ Len(left) + (i - Len(left)) = i
      BY <2>2
    <3>2. (left \o right)[i] = right[i - Len(left)]
      BY <2>2
    <3> QED
      BY <3>1, <3>2
  <2> QED
    BY <2>1, <2>2
<1> QED
  BY <1>1, <1>2

LEMMA SplitAt ==
  ASSUME NEW T, NEW seq \in Seq(T), NEW n \in 0..Len(seq)
  PROVE  /\ SubSeq(seq, 1, n) \in Seq(T) /\ SubSeq(seq, n + 1, Len(seq)) \in Seq(T)
         /\ SubSeq(seq, 1, n) = [i \in 1..n |-> seq[i]]
         /\ seq = SubSeq(seq, 1, n) \o SubSeq(seq, n + 1, Len(seq))
<1> DEFINE left == SubSeq(seq, 1, n)
           right == SubSeq(seq, n + 1, Len(seq))
<1>1. left \in Seq(T) /\ Len(left) = n /\ \A i \in 1..n : left[i] = seq[i]
  OBVIOUS
<1>2. /\ right \in Seq(T) /\ Len(right) = Len(seq) - n
      /\ \A i \in 1..(Len(seq) - n) : right[i] = seq[n + i]
  OBVIOUS
<1> HIDE DEF left, right
<1>3. left = [i \in 1..n |-> seq[i]]
  BY <1>1
<1>4. seq = left \o right
  <2>1. /\ Len(seq) = Len(left) + Len(right)
        /\ \A i \in 1..Len(left) : seq[i] = left[i]
        /\ \A i \in 1..Len(right) : seq[Len(left) + i] = right[i]
    BY <1>1, <1>2
  <2> QED
    BY <1>1, <1>2, <2>1, PartsOf
<1> QED
  BY <1>1, <1>2, <1>3, <1>4 DEF left, right

LEMMA ConcatAssociates ==
  ASSUME NEW T, NEW x \in Seq(T), NEW y \in Seq(T), NEW z \in Seq(T)
  PROVE  (x \o y) \o z = x \o (y \o z)
OBVIOUS

\* process_stacktrace: returns to the common frames, then calls to those of the sample.
LEMMA StacktraceKeeps ==
  ASSUME NEW v, NEW r, Good(v, r), NEW time, Now(r, time), NEW sample \in Seq(Frames)
  PROVE  Keeps(v, r, Stacktrace(r, time, sample))
<1> DEFINE n == MatchCount(r.stack, sample)
           same == SubSeq(sample, 1, n)
           gone == SubSeq(r.stack, n + 1, Len(r.stack))
           new == SubSeq(sample, n + 1, Len(sample))
           returns == ReturnsOf(gone)
           calls == CallsOf(new)
           evs == returns \o calls
           outer == OuterFrames(r.inactive)
<1>1. /\ r \in ThreadInfo /\ OpenFrames(r) \in Seq(Frames)
      /\ OpenFrames(r) = outer \o r.stack
      /\ outer \in Seq(Frames) /\ r.stack \in Seq(Frames)
  BY GoodFields, OpenFramesSplit, ThreadInfoFields
<1>2. time \in Time
  BY NowTime
<1>3. Stacktrace(r, time, sample) = Emit(r, time, evs, sample)
  BY DEF Stacktrace, Emit
<1>4. /\ n \in 0..Len(sample) /\ n \in 0..Len(r.stack)
      /\ \A i \in 1..n : r.stack[i] = sample[i]
  BY <1>1, MatchCountAgrees
<1> HIDE DEF n, outer
<1>5. /\ same \in Seq(Frames) /\ new \in Seq(Frames) /\ sample = same \o new
      /\ same = [i \in 1..n |-> sample[i]]
  BY <1>4, SplitAt
<1>6. gone \in Seq(Frames) /\ r.stack = same \o gone
  <2>1. /\ gone \in Seq(Frames) /\ r.stack = SubSeq(r.stack, 1, n) \o gone
        /\ SubSeq(r.stack, 1, n) = [i \in 1..n |-> r.stack[i]]
    BY <1>1, <1>4, SplitAt
  <2>2. [i \in 1..n |-> r.stack[i]] = [i \in 1..n |-> sample[i]]
    BY <1>4
  <2> HIDE DEF gone, same
  <2> QED
    BY <1>5, <2>1, <2>2
<1> HIDE DEF same, gone, new
<1>7. outer \o same \in Seq(Frames)
  BY <1>1, <1>5, ConcatType
<1>8. /\ (outer \o same) \o gone = OpenFrames(r)
       /\ (outer \o same) \o new = outer \o sample
  <2>1. outer \in Seq(Frames) /\ same \in Seq(Frames) /\ gone \in Seq(Frames) /\ new \in Seq(Frames)
    BY <1>1, <1>5, <1>6, Zenon
  <2>2. (outer \o same) \o gone = outer \o (same \o gone)
    BY ONLY <2>1, ConcatAssociates, SMTT(30)
  <2>3. (outer \o same) \o new = outer \o (same \o new)
    BY ONLY <2>1, ConcatAssociates, SMTT(30)
  <2> QED
    BY <1>1, <1>5, <1>6, <2>2, <2>3, Zenon
<1>9. /\ returns \in Seq(PendingEvent)
      /\ Leads((outer \o same) \o gone, returns, outer \o same)
  BY <1>6, <1>7, LeadsByReturns
<1>10. /\ calls \in Seq(PendingEvent)
      /\ Leads(outer \o same, calls, (outer \o same) \o new)
  BY <1>5, <1>7, LeadsByCalls
<1>11. evs \in Seq(PendingEvent)
  BY <1>9, <1>10, ConcatType
<1>12. MayAdd(v, r, time, evs)
  <2>1. /\ \A i \in DOMAIN returns : returns[i].kind # "RetFromUntraced"
        /\ \A i \in DOMAIN calls : calls[i].kind # "RetFromUntraced"
    BY DEF ReturnsOf, RetEvent, CallsOf, CallEvent
  <2> HIDE DEF returns, calls
  <2>2. \A i \in DOMAIN evs : \/ \E j \in DOMAIN returns : evs[i] = returns[j]
                              \/ \E j \in DOMAIN calls : evs[i] = calls[j]
    <3>1. \A i \in DOMAIN evs :
            \/ i \in DOMAIN returns /\ evs[i] = returns[i]
            \/ i - Len(returns) \in DOMAIN calls /\ evs[i] = calls[i - Len(returns)]
      BY <1>9, <1>10
    <3> QED
      BY <3>1
  <2>3. \A i \in DOMAIN evs : evs[i].kind # "RetFromUntraced"
    BY <2>1, <2>2
  <2> QED
    BY <1>1, <2>3, MayAddNow
<1> HIDE DEF returns, calls
<1>13. Leads((outer \o same) \o gone, evs, (outer \o same) \o new)
  BY <1>9, <1>10, LeadsOn
<1> HIDE DEF evs
<1>14. Keeps(v, r, Emit(r, time, evs, sample))
  BY <1>2, <1>11, <1>12, <1>13, <1>8, EmitKeeps DEF outer
<1> QED
  BY <1>3, <1>14

LEMMA FlushKeeps ==
  ASSUME NEW v, NEW r, Good(v, r), NEW time, Now(r, time)
  PROVE  /\ Keeps(v, r, Flush(r, time)) /\ SameStacks(r, Flush(r, time))
         /\ Drained(v, r, Flush(r, time), OpenFrames(r))
<1> DEFINE s == Flush(r, time)
<1>1. /\ r \in ThreadInfo /\ Tracks(v, r, OpenFrames(r)) /\ time \in Time
      /\ r.last_event_time \in Int
  BY GoodFields, NowTime, ThreadInfoFields, TimeIsInt
<1>2. Now(r, time) => time <= r.last_event_time
  BY <1>1 DEF Now
<1>3. /\ Drained(v, r, s, OpenFrames(r))
      /\ Timely(v, r) => WrittenBy(v, s, r.last_event_time)
      /\ \A limit \in Int : Within(v, r, limit) /\ time <= limit => Within(v, s, limit)
  BY <1>1, <1>2, FlushTracks
<1> HIDE DEF s
<1>4. /\ Tracks(v, s, OpenFrames(r)) /\ SameStacks(r, s) /\ s.pending = <<>>
  BY <1>3 DEF Drained
<1>5. OpenFrames(s) = OpenFrames(r)
  BY <1>4 DEF OpenFrames, SameStacks
<1>6. Timely(v, r) => Timely(v, s)
  <2>1. Timely(v, r) => CreatedBy(s, s.last_event_time)
    BY <1>4 DEF Timely, CreatedBy, SameStacks
  <2>2. \A i \in DOMAIN s.pending : FALSE
    BY <1>4
  <2>3. Fits(Shown(v, s).high, s.pending_time, s.pending)
    BY <2>2 DEF Fits
  <2>4. s.last_event_time = r.last_event_time
    BY <1>4 DEF SameStacks
  <2> QED
    BY <1>3, <2>1, <2>3, <2>4 DEF WrittenBy, Timely
<1>7. StaysWithin(v, r, s)
  <2>1. \A limit \in Int : Within(v, r, limit) => time <= limit
    BY DEF Within, Now
  <2> QED
    BY <1>3, <2>1 DEF StaysWithin
<1> QED
  BY <1>3, <1>4, <1>5, <1>6, <1>7 DEF Keeps, Good, SameStacks, s

\* finish() leaves nothing open and nothing pending.
LEMMA FinishThreadKeeps ==
  ASSUME NEW v, NEW r, Good(v, r)
  PROVE  /\ Keeps(v, r, FinishThread(r))
         /\ FinishThread(r).pending = <<>>
         /\ Shown(v, FinishThread(r)).open = <<>>
<1> DEFINE time == r.last_event_time
           f == Flush(r, time)
           c == ClearAllCallstacks(f, time)
           s == Flush(c, time)
<1>1. FinishThread(r) = s
  BY DEF FinishThread
<1>2. Now(r, time)
  BY DEF Now
<1> HIDE DEF time
<1>3. Keeps(v, r, f)
  BY <1>2, FlushKeeps
<1> HIDE DEF f
<1>4. Good(v, f) /\ Now(f, time)
  BY <1>2, <1>3, NowOn
<1>5. Keeps(v, f, c) /\ c.stack = <<>> /\ c.inactive = <<>>
  BY <1>4, ClearAllCallstacksKeeps
<1> HIDE DEF c
<1>6. Good(v, c) /\ Now(c, time)
  BY <1>4, <1>5, NowOn
<1>7. Keeps(v, c, s) /\ Drained(v, c, s, OpenFrames(c))
  BY <1>6, FlushKeeps
<1> HIDE DEF s
<1>8. Keeps(v, r, s)
  BY <1>3, <1>5, <1>7, KeepsOn
<1>9. OpenFrames(c) = <<>>
  BY <1>5, OpenFramesOfNone
<1>10. s.pending = <<>> /\ Symbolic(Shown(v, s).open) = <<>>
  BY <1>7, <1>9 DEF Drained
<1>11. Shown(v, s) \in View
  BY <1>8, KeepsFields, GoodFields, ShownIsView
<1>12. Shown(v, s).open = <<>>
  <2>1. Shown(v, s).open \in Seq(Span)
    BY <1>11, ViewFields
  <2>2. Len(Symbolic(Shown(v, s).open)) = Len(Shown(v, s).open)
    BY <2>1, SymbolicType
  <2> QED
    BY <1>10, <2>1, <2>2
<1> QED
  BY <1>1, <1>8, <1>10, <1>12
-----------------------------------------------------------------------------
(* The inductive invariant *)

Types ==
  /\ threads \in [Threads -> ThreadInfo] /\ viewer \in [Threads -> View]
  /\ base_time \in Time /\ clock \in Time /\ events \in 0..MaxEvents
  /\ base_time_set \in BOOLEAN /\ finished \in BOOLEAN
  /\ in_order \in BOOLEAN /\ early \in BOOLEAN

\* What is written and pending leads to the frames that are open, and all that is
\* written has reached the viewer.
ThreadsTracked ==
  \A t \in Threads : Good(viewer[t], threads[t]) /\ threads[t].out = <<>>

\* As long as the input is in order, the mapped time does not wrap, no thread is ahead of
\* the latest event, and no thread has anything that would be written late.
ThreadsTimely ==
  in_order =>
    /\ base_time_set => base_time <= clock
    /\ \A t \in Threads :
         /\ Timely(viewer[t], threads[t])
         /\ base_time_set => threads[t].last_event_time <= clock - base_time

\* As long as no event is earlier than the first, no thread is ahead of the latest one.
ThreadsWithin ==
  ~early =>
    /\ base_time <= clock
    /\ \A t \in Threads : Within(viewer[t], threads[t], clock - base_time)

\* Until the first event, nothing has happened.
NothingYet ==
  ~base_time_set =>
    /\ base_time = 0 /\ ~early
    /\ \A t \in Threads : /\ threads[t].last_event_time = 0
                          /\ Within(viewer[t], threads[t], 0)

IInv ==
  /\ Types /\ ThreadsTracked /\ ThreadsTimely /\ ThreadsWithin /\ NothingYet
  /\ BalancedAtFinish

LEMMA NewThread ==
  /\ NewThreadInfo \in ThreadInfo /\ NewView \in View
  /\ Good(NewView, NewThreadInfo) /\ Timely(NewView, NewThreadInfo)
  /\ Within(NewView, NewThreadInfo, 0)
<1>1. NewThreadInfo \in ThreadInfo
  <2>1. /\ <<>> \in Seq(Frames) /\ <<>> \in Seq(Callstack) /\ <<>> \in Seq(PendingEvent)
        /\ <<>> \in Seq(OutEvent)
    BY ConcatEmpty
  <2> QED
    BY <2>1, TimeIsInt DEF NewThreadInfo, ThreadInfo
<1>2. NewView \in View
  <2>1. <<>> \in Seq(Span)
    BY ConcatEmpty
  <2> QED
    BY <2>1 DEF NewView, View
<1>3. /\ NewThreadInfo.out = <<>> /\ NewThreadInfo.pending = <<>> /\ NewThreadInfo.stack = <<>>
      /\ NewThreadInfo.inactive = <<>> /\ NewThreadInfo.pending_time = 0
      /\ NewThreadInfo.create_time = 0 /\ NewThreadInfo.last_event_time = 0
  BY DEF NewThreadInfo
<1>4. NewView.open = <<>> /\ NewView.high = 0 /\ NewView.wrong = {}
  BY DEF NewView
<1>5. Shown(NewView, NewThreadInfo) = NewView
  BY <1>3, ReplayNothing DEF Shown
<1>6. Symbolic(NewView.open) = <<>>
  BY <1>4 DEF Symbolic
<1>7. OpenFrames(NewThreadInfo) = <<>> /\ <<>> \in Seq(Frames)
  BY <1>3, OpenFramesOfNone, ConcatEmpty
<1>8. Good(NewView, NewThreadInfo)
  BY <1>1, <1>2, <1>3, <1>4, <1>5, <1>6, <1>7, LeadsNowhere DEF Good, Tracks, Follows
<1>9. Timely(NewView, NewThreadInfo)
  <2>1. \A i \in DOMAIN <<>> : FALSE
    OBVIOUS
  <2>2. CreatedBy(NewThreadInfo, NewThreadInfo.last_event_time)
    BY <1>3, <2>1 DEF CreatedBy
  <2>3. Fits(NewView.high, NewThreadInfo.pending_time, NewThreadInfo.pending)
    BY <1>3, <1>4, <2>1 DEF Fits
  <2>4. "late end" \notin NewView.wrong
    BY <1>4
  <2>5. /\ NewView.high <= NewThreadInfo.last_event_time
        /\ NewThreadInfo.pending_time <= NewThreadInfo.last_event_time
    BY <1>3, <1>4
  <2> QED
    BY <1>5, <2>2, <2>3, <2>4, <2>5 DEF Timely
<1>10. Within(NewView, NewThreadInfo, 0)
  <2>1. \A i \in DOMAIN <<>> : FALSE
    OBVIOUS
  <2>2. CreatedBy(NewThreadInfo, 0) /\ ResetBy(NewThreadInfo.pending, 0)
    BY <1>3, <2>1 DEF CreatedBy, ResetBy
  <2>3. /\ NewView.high <= 0 /\ NewThreadInfo.pending_time <= 0
        /\ NewThreadInfo.last_event_time <= 0
    BY <1>3, <1>4
  <2> QED
    BY <1>5, <2>2, <2>3 DEF Within
<1> QED
  BY <1>1, <1>2, <1>8, <1>9, <1>10

\* What is no later than a limit is no later than one above it.
LEMMA WithinMore ==
  ASSUME NEW v, NEW r, Good(v, r), NEW limit \in Int, NEW more \in Int, limit <= more
  PROVE  Within(v, r, limit) => Within(v, r, more)
<1>1. r \in ThreadInfo /\ v \in View
  BY GoodFields
<1>2. /\ Shown(v, r).high \in Int /\ r.pending_time \in Int /\ r.last_event_time \in Int
      /\ r.create_time \in Int
      /\ \A i \in DOMAIN r.inactive : r.inactive[i].create_time \in Int
      /\ \A i \in DOMAIN r.pending : r.pending[i].reset_time \in Int
  <2>1. \A c \in Callstack : c.create_time \in Int
    BY TimeIsInt DEF Callstack
  <2>2. \A ev \in PendingEvent : ev.reset_time \in Int
    BY TimeIsInt DEF PendingEvent
  <2>3. /\ \A i \in DOMAIN r.inactive : r.inactive[i] \in Callstack
        /\ \A i \in DOMAIN r.pending : r.pending[i] \in PendingEvent
    BY <1>1, ThreadInfoFields
  <2> QED
    BY <1>1, <2>1, <2>2, <2>3, ShownIsView, ThreadInfoFields, TimeIsInt
<1>3. \A a \in Int : a <= limit => a <= more
  OBVIOUS
<1>4. CreatedBy(r, limit) => CreatedBy(r, more)
  BY <1>2, <1>3 DEF CreatedBy
<1>5. ResetBy(r.pending, limit) => ResetBy(r.pending, more)
  BY <1>2, <1>3 DEF ResetBy
<1> QED
  BY <1>2, <1>3, <1>4, <1>5 DEF Within
\* The thread comes to an event at time.
LEMMA SeenGood ==
  ASSUME NEW v, NEW r, Good(v, r), NEW time \in Time
  PROVE  /\ Good(v, [r EXCEPT !.last_event_time = time])
         /\ Now([r EXCEPT !.last_event_time = time], time)
         /\ Timely(v, r) /\ r.last_event_time <= time
            => Timely(v, [r EXCEPT !.last_event_time = time])
         /\ \A limit \in Int : Within(v, r, limit) /\ time <= limit
            => Within(v, [r EXCEPT !.last_event_time = time], limit)
<1> DEFINE s == [r EXCEPT !.last_event_time = time]
           w == Shown(v, r)
           last == r.last_event_time
<1>1. r \in ThreadInfo /\ v \in View /\ Tracks(v, r, OpenFrames(r))
  BY GoodFields
<1>2. /\ s \in ThreadInfo /\ s.last_event_time = time /\ s.out = r.out /\ s.pending = r.pending
      /\ s.pending_time = r.pending_time /\ s.create_time = r.create_time
      /\ s.inactive = r.inactive /\ s.stack = r.stack
  BY <1>1 DEF ThreadInfo
<1> HIDE DEF s
<1>3. Shown(v, s) = w /\ OpenFrames(s) = OpenFrames(r)
  BY <1>2 DEF Shown, OpenFrames
<1>4. Good(v, s)
  BY <1>1, <1>2, <1>3 DEF Good, Tracks, Follows
<1>5. /\ w.high \in Int /\ r.pending_time \in Int /\ r.create_time \in Int
      /\ time \in Int /\ last \in Int
      /\ \A i \in DOMAIN r.inactive : r.inactive[i].create_time \in Int
  <2>1. \A c \in Callstack : c.create_time \in Int
    BY TimeIsInt DEF Callstack
  <2>2. \A i \in DOMAIN r.inactive : r.inactive[i] \in Callstack
    BY <1>1, ThreadInfoFields
  <2> QED
    BY <1>1, <2>1, <2>2, ShownIsView, ThreadInfoFields, TimeIsInt
<1>6. \A a \in Int : a <= last /\ last <= time => a <= time
  BY <1>5
<1>7. Timely(v, r) /\ last <= time => CreatedBy(s, time)
  <2>1. Timely(v, r) => /\ r.create_time <= last
                        /\ \A i \in DOMAIN r.inactive : r.inactive[i].create_time <= last
    BY DEF Timely, CreatedBy
  <2> HIDE DEF last
  <2> QED
    BY <1>2, <1>5, <1>6, <2>1 DEF CreatedBy
<1>8. Timely(v, r) /\ last <= time => Timely(v, s)
  <2>1. Timely(v, r) => /\ "late end" \notin w.wrong /\ w.high <= last
                        /\ r.pending_time <= last
                        /\ Fits(w.high, r.pending_time, r.pending)
    BY DEF Timely
  <2> HIDE DEF last, w
  <2>2. Timely(v, r) /\ last <= time => w.high <= time /\ r.pending_time <= time
    BY <1>5, <1>6, <2>1
  <2> QED
    BY <1>2, <1>3, <1>7, <2>1, <2>2 DEF Timely
<1>9. \A limit \in Int : Within(v, r, limit) /\ time <= limit => Within(v, s, limit)
  BY <1>2, <1>3 DEF Within, CreatedBy, w
<1> QED
  BY <1>2, <1>4, <1>8, <1>9 DEF s, last, Now

\* What is written reaches the viewer.
LEMMA StoredGood ==
  ASSUME NEW v, NEW s, Good(v, s)
  PROVE  /\ Good(Shown(v, s), [s EXCEPT !.out = <<>>])
         /\ Timely(v, s) => Timely(Shown(v, s), [s EXCEPT !.out = <<>>])
         /\ \A limit \in Int :
              Within(v, s, limit) => Within(Shown(v, s), [s EXCEPT !.out = <<>>], limit)
         /\ [s EXCEPT !.out = <<>>].out = <<>>
         /\ [s EXCEPT !.out = <<>>].last_event_time = s.last_event_time
         /\ [s EXCEPT !.out = <<>>].pending = s.pending
         /\ [s EXCEPT !.out = <<>>] \in ThreadInfo /\ Shown(v, s) \in View
<1> DEFINE w == Shown(v, s)
           x == [s EXCEPT !.out = <<>>]
<1>1. s \in ThreadInfo /\ v \in View /\ Tracks(v, s, OpenFrames(s))
  BY GoodFields
<1>2. w \in View
  BY <1>1, ShownIsView
<1>3. /\ x \in ThreadInfo /\ x.last_event_time = s.last_event_time /\ x.out = <<>>
      /\ x.pending = s.pending /\ x.pending_time = s.pending_time
      /\ x.create_time = s.create_time /\ x.inactive = s.inactive /\ x.stack = s.stack
  <2>1. <<>> \in Seq(OutEvent)
    BY ConcatEmpty
  <2> QED
    BY <1>1, <2>1 DEF ThreadInfo
<1> HIDE DEF x
<1>4. Shown(w, x) = w /\ OpenFrames(x) = OpenFrames(s)
  BY <1>3, ReplayNothing DEF Shown, OpenFrames
<1> HIDE DEF w
<1>5. Good(w, x)
  BY <1>1, <1>2, <1>3, <1>4 DEF Good, Tracks, Follows, w
<1>6. Timely(v, s) => Timely(w, x)
  BY <1>3, <1>4 DEF Timely, CreatedBy, w
<1>7. \A limit \in Int : Within(v, s, limit) => Within(w, x, limit)
  BY <1>3, <1>4 DEF Within, CreatedBy, w
<1> QED
  BY <1>2, <1>3, <1>5, <1>6, <1>7 DEF w, x
\* x % m, for an x that has not wrapped.
LEMMA ModOf ==
  ASSUME NEW x \in Int, NEW m \in Nat \ {0}
  PROVE  /\ x % m \in 0..(m - 1)
         /\ x \in 0..(m - 1) => x % m = x
<1> DEFINE q == x \div m
           r == x % m
<1>1. q \in Int /\ r \in 0..(m - 1) /\ x = m * q + r
  OBVIOUS
<1> HIDE DEF q, r
<1>2. x \in 0..(m - 1) => r = x
  <2>1. ASSUME x \in 0..(m - 1), q >= 1 PROVE FALSE
    <3>1. m * q >= m * 1
      BY <1>1, <2>1
    <3> QED
      BY <1>1, <2>1, <3>1
  <2>2. ASSUME x \in 0..(m - 1), q <= -1 PROVE FALSE
    <3>1. m * q <= m * (-1)
      BY <1>1, <2>2
    <3> QED
      BY <1>1, <2>2, <3>1
  <2>3. x \in 0..(m - 1) => q = 0
    BY <1>1, <2>1, <2>2
  <2> QED
    BY <1>1, <2>3
<1> QED
  BY <1>1, <1>2 DEF r

LEMMA MapTimeType ==
  ASSUME Types, NEW time_ns \in Time
  PROVE  MapTime(time_ns) \in Time /\ BaseAt(time_ns) \in Time
<1>1. BaseAt(time_ns) \in Time
  BY DEF Types, BaseAt
<1>2. TimeModulus \in Nat \ {0} /\ time_ns - BaseAt(time_ns) \in Int
  <2>1. \A a, b \in Int : a - b \in Int
    OBVIOUS
  <2>2. time_ns \in Int /\ BaseAt(time_ns) \in Int
    BY <1>1, TimeIsInt
  <2>3. TimeModulus \in Nat \ {0}
    BY TimeAssumption
  <2> QED
    BY <2>1, <2>2, <2>3
<1>3. (time_ns - BaseAt(time_ns)) % TimeModulus \in 0..(TimeModulus - 1)
  BY <1>2, ModOf
<1> QED
  BY <1>1, <1>3 DEF MapTime, Time

\* A time that does not wrap is mapped to the time since the base.
LEMMA MapTimeInOrder ==
  ASSUME Types, NEW time_ns \in Time
  PROVE  /\ base_time_set /\ base_time <= time_ns => MapTime(time_ns) = time_ns - base_time
         /\ ~base_time_set => MapTime(time_ns) = 0
<1>1. TimeModulus \in Nat \ {0} /\ base_time \in Time
  BY TimeAssumption DEF Types
<1> DEFINE x == time_ns - BaseAt(time_ns)
<1>2. x \in Int
  BY <1>1, TimeIsInt DEF BaseAt
<1>3. /\ base_time_set => x = time_ns - base_time
      /\ ~base_time_set => x = 0
  BY <1>1, TimeIsInt DEF BaseAt
<1>4. MapTime(time_ns) = x % TimeModulus
  BY DEF MapTime
<1> HIDE DEF x
<1>5. x \in 0..(TimeModulus - 1) => x % TimeModulus = x
  BY <1>1, <1>2, ModOf
<1>6. base_time_set /\ base_time <= time_ns => x \in 0..(TimeModulus - 1)
  BY <1>1, <1>3 DEF Time
<1>7. ~base_time_set => x \in 0..(TimeModulus - 1)
  BY <1>1, <1>3
<1> QED
  BY <1>3, <1>4, <1>5, <1>6, <1>7

LEMMA InitIInv == Init => IInv
<1> SUFFICES ASSUME Init PROVE IInv
  OBVIOUS
<1>1. Types
  <2>1. /\ NewThreadInfo \in ThreadInfo /\ NewView \in View
    BY NewThread
  <2>2. FirstTime \in Time /\ 0 \in Time /\ 0 \in 0..MaxEvents
    BY TimeAssumption, TimeIsInt
  <2> QED
    BY <2>1, <2>2 DEF Init, Types
<1>2. ThreadsTracked /\ ThreadsTimely /\ ThreadsWithin
  <2>1. \A t \in Threads : threads[t] = NewThreadInfo /\ viewer[t] = NewView
    BY DEF Init
  <2>2. NewThreadInfo.out = <<>>
    BY DEF NewThreadInfo
  <2>3. ~base_time_set
    BY DEF Init
  <2>4. ThreadsTracked
    BY <2>1, <2>2, NewThread DEF ThreadsTracked
  <2>5. \A t \in Threads : Timely(viewer[t], threads[t])
    BY <2>1, NewThread
  <2>6. clock - base_time = clock /\ clock \in Int /\ 0 <= clock /\ base_time = 0
    BY TimeAssumption DEF Init, Time
  <2>7. \A t \in Threads : Within(viewer[t], threads[t], clock)
    <3>1. 0 \in Int
      OBVIOUS
    <3> QED
      BY <2>1, <2>6, <3>1, NewThread, WithinMore
  <2> QED
    BY <2>3, <2>4, <2>5, <2>6, <2>7 DEF ThreadsTimely, ThreadsWithin
<1>3. NothingYet
  <2>1. \A t \in Threads : threads[t] = NewThreadInfo /\ viewer[t] = NewView
    BY DEF Init
  <2>2. NewThreadInfo.last_event_time = 0
    BY DEF NewThreadInfo
  <2> QED
    BY <2>1, <2>2, NewThread DEF Init, NothingYet
<1>4. BalancedAtFinish
  BY DEF Init, BalancedAtFinish
<1> QED
  BY <1>1, <1>2, <1>3, <1>4 DEF IInv

LEMMA TimesType ==
  ASSUME Types, NEW time_ns \in Times
  PROVE  time_ns \in Time
BY TimeAssumption DEF Times

\* What a thread has become when it comes to an event.
LEMMA SeenInOrder ==
  ASSUME IInv, NEW t \in Threads, NEW time_ns \in Times
  PROVE  /\ Good(viewer[t], Seen(t, time_ns)) /\ Now(Seen(t, time_ns), MapTime(time_ns))
         /\ in_order /\ time_ns >= clock => Timely(viewer[t], Seen(t, time_ns))
<1> DEFINE time == MapTime(time_ns)
           v == viewer[t]
           r == threads[t]
<1>1. Types /\ Good(v, r) /\ (in_order => Timely(v, r)) /\ time_ns \in Time
  BY TimesType DEF IInv, ThreadsTracked, ThreadsTimely
<1>2. time \in Time
  BY <1>1, MapTimeType
<1>3. in_order /\ time_ns >= clock => r.last_event_time <= time
  <2>1. r.last_event_time \in Int /\ clock \in Int /\ time_ns \in Int /\ base_time \in Int
    BY <1>1, GoodFields, ThreadInfoFields, TimeIsInt DEF Types
  <2>2. /\ base_time_set /\ base_time <= time_ns => time = time_ns - base_time
        /\ ~base_time_set => time = 0
    BY <1>1, MapTimeInOrder
  <2>3. /\ in_order /\ base_time_set =>
             base_time <= clock /\ r.last_event_time <= clock - base_time
        /\ ~base_time_set => r.last_event_time = 0
    BY DEF IInv, ThreadsTimely, NothingYet
  <2> HIDE DEF time, r
  <2> QED
    BY <2>1, <2>2, <2>3
<1>4. Seen(t, time_ns) = [r EXCEPT !.last_event_time = time]
  BY DEF Seen
<1> HIDE DEF time, v, r
<1>5. /\ Good(v, [r EXCEPT !.last_event_time = time])
      /\ Now([r EXCEPT !.last_event_time = time], time)
      /\ Timely(v, r) /\ r.last_event_time <= time
         => Timely(v, [r EXCEPT !.last_event_time = time])
  BY <1>1, <1>2, SeenGood
<1> QED
  BY <1>1, <1>3, <1>4, <1>5 DEF v, time
\* A later time is not mapped to an earlier one, as long as the input is in order.
LEMMA ClockInOrder ==
  ASSUME IInv, NEW time_ns \in Times, NextEvent(time_ns), in_order'
  PROVE  /\ in_order /\ time_ns >= clock /\ clock' = time_ns
         /\ BaseAt(time_ns) <= time_ns /\ MapTime(time_ns) = time_ns - BaseAt(time_ns)
         /\ base_time_set => BaseAt(time_ns) = base_time
<1>1. /\ Types /\ time_ns \in Int /\ clock \in Int /\ base_time \in Int /\ time_ns \in Time
      /\ base_time_set \in BOOLEAN
  BY TimesType, TimeIsInt DEF IInv, Types
<1>2. in_order /\ time_ns >= clock
  BY DEF NextEvent
<1>3. clock' = time_ns
  <2>1. clock' = Max({clock, time_ns})
    BY DEF NextEvent
  <2> QED
    BY <1>1, <1>2, <2>1, MaxOfTwo
<1>4. base_time_set => base_time <= time_ns
  <2>1. base_time_set => base_time <= clock
    BY <1>2 DEF IInv, ThreadsTimely
  <2> QED
    BY <1>1, <1>2, <2>1
<1>5. /\ base_time_set => BaseAt(time_ns) = base_time
      /\ ~base_time_set => BaseAt(time_ns) = time_ns
  BY DEF BaseAt
<1>6. /\ base_time_set => MapTime(time_ns) = time_ns - base_time
      /\ ~base_time_set => MapTime(time_ns) = 0
  BY <1>1, <1>4, MapTimeInOrder
<1> QED
  BY <1>1, <1>2, <1>3, <1>4, <1>5, <1>6

\* What has happened up to an event is not later than the event.
LEMMA OthersInOrder ==
  ASSUME IInv, NEW time_ns \in Times, NextEvent(time_ns), in_order', NEW t \in Threads
  PROVE  threads[t].last_event_time <= time_ns - BaseAt(time_ns)
<1> DEFINE last == threads[t].last_event_time
           base == BaseAt(time_ns)
<1>1. in_order
  BY ClockInOrder
<1>2. /\ base_time_set => base = base_time
      /\ base <= time_ns
  BY ClockInOrder
<1>3. /\ base_time_set => last <= clock - base_time
      /\ ~base_time_set => last = 0
  BY <1>1, Zenon DEF IInv, ThreadsTimely, NothingYet
<1>4. Types /\ time_ns \in Time /\ threads[t] \in ThreadInfo
  BY TimesType DEF IInv, Types
<1>5. last \in Int /\ base \in Int /\ time_ns \in Int /\ clock \in Int /\ base_time \in Int
  BY <1>4, ThreadInfoFields, MapTimeType, TimeIsInt DEF Types
<1>6. time_ns >= clock
  BY ClockInOrder
<1> HIDE DEF last, base
<1>7. last <= time_ns - base
  BY <1>2, <1>3, <1>5, <1>6
<1> QED
  BY <1>7 DEF last, base

\* The time since the first event does not go back, as long as no event is earlier.
LEMMA ClockWithin ==
  ASSUME IInv, NEW time_ns \in Times, NextEvent(time_ns), ~early'
  PROVE  /\ ~early /\ BaseAt(time_ns) <= clock' /\ clock' - BaseAt(time_ns) \in Int
         /\ MapTime(time_ns) <= clock' - BaseAt(time_ns)
         /\ \A t \in Threads : Within(viewer[t], threads[t], clock' - BaseAt(time_ns))
<1> DEFINE base == BaseAt(time_ns)
           time == MapTime(time_ns)
<1>1. /\ Types /\ time_ns \in Int /\ clock \in Int /\ base_time \in Int /\ time_ns \in Time
      /\ base_time_set \in BOOLEAN /\ early \in BOOLEAN /\ base \in Int
  BY TimesType, MapTimeType, TimeIsInt DEF IInv, Types
<1>2. ~early /\ ~(time_ns < base)
  BY <1>1 DEF NextEvent
<1>3. clock' = Max({clock, time_ns})
  BY DEF NextEvent
<1>4. clock' \in Int /\ clock <= clock' /\ time_ns <= clock'
  BY <1>1, <1>3, MaxOfTwo
<1>5. /\ base_time_set => base = base_time
      /\ ~base_time_set => base = time_ns
  BY DEF BaseAt
<1>6. /\ base_time_set /\ base_time <= time_ns => time = time_ns - base_time
      /\ ~base_time_set => time = 0
  BY <1>1, MapTimeInOrder
<1>7. \A t \in Threads : Good(viewer[t], threads[t])
  BY DEF IInv, ThreadsTracked
<1> HIDE DEF base, time
<1>8. /\ base <= clock' /\ clock' - base \in Int /\ time <= clock' - base
      /\ 0 <= clock' - base
      /\ base_time_set => clock - base_time <= clock' - base
  <2> DEFINE now == clock'
  <2>1. now \in Int /\ clock <= now /\ time_ns <= now /\ base <= time_ns
    BY <1>1, <1>2, <1>4
  <2> HIDE DEF now
  <2>2. base <= now /\ now - base \in Int /\ 0 <= now - base /\ time_ns - base <= now - base
    BY <1>1, <2>1
  <2>3. base_time_set => time = time_ns - base /\ clock - base_time <= now - base
    BY <1>1, <1>5, <1>6, <2>1
  <2>4. ~base_time_set => time = 0
    BY <1>6
  <2> QED
    BY <1>1, <2>2, <2>3, <2>4 DEF now
<1>9. CASE base_time_set
  <2>1. \A t \in Threads : Within(viewer[t], threads[t], clock - base_time)
    BY <1>2 DEF IInv, ThreadsWithin
  <2>2. clock - base_time \in Int
    BY <1>1
  <2>3. \A t \in Threads : Within(viewer[t], threads[t], clock' - base)
    BY <1>7, <1>8, <1>9, <2>1, <2>2, WithinMore
  <2> QED
    BY <1>2, <1>8, <2>3 DEF base, time
<1>10. CASE ~base_time_set
  <2>1. \A t \in Threads : Within(viewer[t], threads[t], 0)
    BY <1>10 DEF IInv, NothingYet
  <2>2. 0 \in Int
    OBVIOUS
  <2>3. \A t \in Threads : Within(viewer[t], threads[t], clock' - base)
    BY <1>7, <1>8, <2>1, <2>2, WithinMore
  <2> QED
    BY <1>2, <1>8, <2>3 DEF base, time
<1> QED
  BY <1>1, <1>9, <1>10

\* The invariant after an event whose handler keeps the thread good.
LEMMA HandleAtKeeps ==
  ASSUME IInv, NEW t \in Threads, NEW time_ns \in Times, NEW s,
         HandleAt(t, time_ns, s), Keeps(viewer[t], Seen(t, time_ns), s)
  PROVE  IInv'
<1> DEFINE x == [s EXCEPT !.out = <<>>]
           v == viewer[t]
<1>1. /\ NextEvent(time_ns) /\ Store(t, s) /\ base_time' = BaseAt(time_ns)
      /\ base_time_set' = TRUE /\ finished' = finished /\ finished = FALSE
  BY DEF HandleAt, NextEvent, IInv, Types
<1>2. /\ Types /\ time_ns \in Time /\ base_time_set \in BOOLEAN
      /\ \A u \in Threads : Good(viewer[u], threads[u]) /\ threads[u].out = <<>>
  BY TimesType DEF IInv, Types, ThreadsTracked
<1>3. Good(v, s) /\ s.last_event_time = MapTime(time_ns)
  <2>1. Good(v, s) /\ s.last_event_time = Seen(t, time_ns).last_event_time
    BY KeepsFields
  <2>2. Seen(t, time_ns).last_event_time = MapTime(time_ns)
    BY <1>2, SeenInOrder DEF Now
  <2> QED
    BY <2>1, <2>2
<1>4. /\ Good(Shown(v, s), x) /\ x.out = <<>> /\ x.last_event_time = MapTime(time_ns)
      /\ x \in ThreadInfo /\ Shown(v, s) \in View
  BY <1>3, StoredGood
<1>5. in_order' => Timely(Shown(v, s), x)
  <2>1. in_order' => Timely(v, Seen(t, time_ns))
    BY <1>1, ClockInOrder, SeenInOrder
  <2>2. Timely(v, Seen(t, time_ns)) => Timely(v, s)
    BY DEF Keeps
  <2> QED
    BY <1>3, <2>1, <2>2, StoredGood
<1>6. /\ threads' = [threads EXCEPT ![t] = x]
      /\ viewer' = [viewer EXCEPT ![t] = Shown(v, s)]
  BY <1>1 DEF Store, Shown
<1> HIDE DEF x, v
<1>7. /\ threads'[t] = x /\ viewer'[t] = Shown(v, s)
      /\ \A u \in Threads \ {t} : threads'[u] = threads[u] /\ viewer'[u] = viewer[u]
  BY <1>2, <1>6 DEF Types
<1>8. Types'
  <2>1. threads' \in [Threads -> ThreadInfo] /\ viewer' \in [Threads -> View]
    BY <1>2, <1>4, <1>6 DEF Types
  <2>2. base_time' \in Time
    BY <1>1, <1>2, MapTimeType
  <2>3. clock' \in Time
    <3>1. clock' = Max({clock, time_ns}) /\ clock \in Time /\ clock \in Int /\ time_ns \in Int
      BY <1>1, <1>2, TimeIsInt DEF NextEvent, Types
    <3>2. clock' = clock \/ clock' = time_ns
      BY <3>1, MaxOfTwo
    <3> QED
      BY <1>2, <3>1, <3>2
  <2>4. events' \in 0..MaxEvents
    BY <1>1, <1>2, TimeAssumption DEF NextEvent, Types
  <2>5. /\ in_order' \in BOOLEAN /\ early' \in BOOLEAN /\ base_time_set' \in BOOLEAN
        /\ finished' \in BOOLEAN
    BY <1>1, <1>2 DEF NextEvent, Types
  <2> QED
    BY <2>1, <2>2, <2>3, <2>4, <2>5 DEF Types
<1>9. ThreadsTracked'
  BY <1>2, <1>4, <1>7 DEF ThreadsTracked
<1>10. ThreadsTimely'
  <2> SUFFICES ASSUME in_order'
               PROVE  /\ base_time' <= clock'
                      /\ \A u \in Threads : /\ Timely(viewer'[u], threads'[u])
                                            /\ threads'[u].last_event_time <= clock' - base_time'
    BY <1>1 DEF ThreadsTimely
  <2>1. /\ in_order /\ clock' = time_ns
        /\ BaseAt(time_ns) <= time_ns /\ MapTime(time_ns) = time_ns - BaseAt(time_ns)
    BY <1>1, ClockInOrder
  <2>2. \A u \in Threads : Timely(viewer[u], threads[u])
    BY <2>1 DEF IInv, ThreadsTimely
  <2>3. \A u \in Threads : threads[u].last_event_time <= time_ns - BaseAt(time_ns)
    BY <1>1, OthersInOrder
  <2>4. MapTime(time_ns) <= time_ns - BaseAt(time_ns)
    <3>1. MapTime(time_ns) \in Int
      BY <1>2, MapTimeType, TimeIsInt
    <3> QED
      BY <2>1, <3>1
  <2> QED
    BY <1>1, <1>4, <1>5, <1>7, <2>1, <2>2, <2>3, <2>4
<1>11. ThreadsWithin'
  <2> SUFFICES ASSUME ~early'
               PROVE  /\ base_time' <= clock'
                      /\ \A u \in Threads : Within(viewer'[u], threads'[u], clock' - base_time')
    BY DEF ThreadsWithin
  <2> DEFINE limit == clock' - BaseAt(time_ns)
  <2>1. /\ BaseAt(time_ns) <= clock' /\ limit \in Int /\ MapTime(time_ns) <= limit
        /\ \A u \in Threads : Within(viewer[u], threads[u], limit)
    BY <1>1, ClockWithin
  <2> HIDE DEF limit
  <2>2. Within(v, Seen(t, time_ns), limit)
    <3>1. MapTime(time_ns) \in Time /\ Good(v, threads[t]) /\ Within(v, threads[t], limit)
      BY <1>2, <2>1, MapTimeType DEF v
    <3>2. Seen(t, time_ns) = [threads[t] EXCEPT !.last_event_time = MapTime(time_ns)]
      BY DEF Seen
    <3> QED
      BY <2>1, <3>1, <3>2, SeenGood
  <2>3. Within(v, s, limit)
    BY <2>1, <2>2 DEF Keeps, StaysWithin, v
  <2>4. Within(Shown(v, s), x, limit)
    BY <1>3, <2>1, <2>3, StoredGood DEF x
  <2>5. \A u \in Threads : Within(viewer'[u], threads'[u], limit)
    BY <1>7, <2>1, <2>4
  <2> QED
    BY <1>1, <2>1, <2>5 DEF limit
<1>12. NothingYet'
  BY <1>1 DEF NothingYet
<1>13. BalancedAtFinish'
  BY <1>1 DEF BalancedAtFinish
<1> QED
  BY <1>8, <1>9, <1>10, <1>11, <1>12, <1>13 DEF IInv

LEMMA FinishStep ==
  ASSUME IInv, Finish
  PROVE  IInv'
<1> DEFINE s(t) == FinishThread(threads[t])
           x(t) == [s(t) EXCEPT !.out = <<>>]
<1>1. /\ threads' = [t \in Threads |-> x(t)]
      /\ viewer' = [t \in Threads |-> Shown(viewer[t], s(t))]
      /\ base_time' = base_time /\ base_time_set' = base_time_set /\ clock' = clock
      /\ in_order' = in_order /\ early' = early /\ events' = events /\ finished' = TRUE
  BY DEF Finish, Shown
<1>2. ASSUME NEW t \in Threads
      PROVE  /\ Good(Shown(viewer[t], s(t)), x(t)) /\ x(t).out = <<>>
             /\ x(t).last_event_time = threads[t].last_event_time
             /\ x(t) \in ThreadInfo /\ Shown(viewer[t], s(t)) \in View
             /\ x(t).pending = <<>> /\ Shown(viewer[t], s(t)).open = <<>>
             /\ Timely(viewer[t], threads[t]) => Timely(Shown(viewer[t], s(t)), x(t))
             /\ \A limit \in Int : Within(viewer[t], threads[t], limit)
                                  => Within(Shown(viewer[t], s(t)), x(t), limit)
  <2>1. Good(viewer[t], threads[t])
    BY DEF IInv, ThreadsTracked
  <2>2. /\ Keeps(viewer[t], threads[t], s(t)) /\ s(t).pending = <<>>
        /\ Shown(viewer[t], s(t)).open = <<>>
    BY <2>1, FinishThreadKeeps
  <2> HIDE DEF s
  <2>3. Good(viewer[t], s(t)) /\ s(t).last_event_time = threads[t].last_event_time
    BY <2>2, KeepsFields
  <2>4. /\ Timely(viewer[t], threads[t]) => Timely(viewer[t], s(t))
        /\ \A limit \in Int : Within(viewer[t], threads[t], limit)
                             => Within(viewer[t], s(t), limit)
    BY <2>2 DEF Keeps, StaysWithin
  <2> QED
    BY <2>2, <2>3, <2>4, StoredGood
<1> HIDE DEF s, x
<1>3. \A t \in Threads : threads'[t] = x(t) /\ viewer'[t] = Shown(viewer[t], s(t))
  BY <1>1
<1>4. Types'
  <2>1. threads' \in [Threads -> ThreadInfo] /\ viewer' \in [Threads -> View]
    BY <1>1, <1>2
  <2> QED
    BY <1>1, <2>1 DEF IInv, Types
<1>5. ThreadsTracked'
  BY <1>2, <1>3 DEF ThreadsTracked
<1>6. ThreadsTimely'
  BY <1>1, <1>2, <1>3 DEF IInv, ThreadsTimely
<1>7. ThreadsWithin'
  <2>1. clock - base_time \in Int
    BY TimeIsInt DEF IInv, Types
  <2> QED
    BY <1>1, <1>2, <1>3, <2>1 DEF IInv, ThreadsWithin
<1>8. NothingYet'
  <2>1. 0 \in Int
    OBVIOUS
  <2> QED
    BY <1>1, <1>2, <1>3, <2>1 DEF IInv, NothingYet
<1>9. BalancedAtFinish'
  BY <1>2, <1>3 DEF BalancedAtFinish
<1> QED
  BY <1>4, <1>5, <1>6, <1>7, <1>8, <1>9 DEF IInv

LEMMA NextIInv == IInv /\ [Next]_vars => IInv'
<1> SUFFICES ASSUME IInv, [Next]_vars PROVE IInv'
  OBVIOUS
<1>1. ASSUME NEW t \in Threads, NEW time_ns \in Times
      PROVE  Good(viewer[t], Seen(t, time_ns)) /\ Now(Seen(t, time_ns), MapTime(time_ns))
  BY SeenInOrder
<1>2. ASSUME NEW t \in Threads, NEW time_ns \in Times, NEW br \in Branches,
             ProcessBranch(t, time_ns, br)
      PROVE  IInv'
  <2>1. br \in BranchType
    BY InputAssumption DEF BranchType
  <2>2. Keeps(viewer[t], Seen(t, time_ns), AfterBranch(t, time_ns, br))
    BY <1>1, <2>1, BranchKeeps DEF AfterBranch
  <2> QED
    BY <1>2, <2>2, HandleAtKeeps DEF ProcessBranch
<1>3. ASSUME NEW t \in Threads, NEW time_ns \in Times, NEW sample \in Samples,
             ProcessStacktrace(t, time_ns, sample)
      PROVE  IInv'
  <2>1. sample \in Seq(Frames)
    BY InputAssumption
  <2>2. Keeps(viewer[t], Seen(t, time_ns), AfterStacktrace(t, time_ns, sample))
    BY <1>1, <2>1, StacktraceKeeps DEF AfterStacktrace
  <2> QED
    BY <1>3, <2>2, HandleAtKeeps DEF ProcessStacktrace
<1>4. ASSUME NEW t \in Threads, NEW time_ns \in Times, DecodeErrorAt(t, time_ns)
      PROVE  IInv'
  <2>1. Keeps(viewer[t], Seen(t, time_ns), AfterDecodeError(t, time_ns))
    BY <1>1, ClearAllCallstacksKeeps DEF AfterDecodeError
  <2> QED
    BY <1>4, <2>1, HandleAtKeeps DEF DecodeErrorAt
<1>5. CASE Finish
  BY <1>5, FinishStep
<1>6. CASE UNCHANGED vars
  BY <1>6 DEF vars, IInv, Types, ThreadsTracked, ThreadsTimely, ThreadsWithin, NothingYet,
              BalancedAtFinish
<1> QED
  BY <1>2, <1>3, <1>4, <1>5, <1>6 DEF Next

LEMMA SpecIInv == Spec => []IInv
BY InitIInv, NextIInv, PTL DEF Spec
-----------------------------------------------------------------------------
\* Every field of a thread's ThreadInfo has its type, whatever the events, and a time
\* never leaves uint64_t.
THEOREM TypesHold == Spec => []TypeOK
<1>1. IInv => TypeOK
  <2> SUFFICES ASSUME IInv PROVE TypeOK
    OBVIOUS
  <2>1. Types /\ \A t \in Threads : threads[t].out = <<>>
    BY DEF IInv, ThreadsTracked
  <2>2. ASSUME NEW t \in Threads
        PROVE  /\ threads[t].stack \in Seq(Frames) /\ threads[t].create_time \in Time
               /\ threads[t].inactive \in Seq([stack : Seq(Frames), create_time : Time])
               /\ threads[t].pending \in
                    Seq([kind : {"Call", "Ret", "RetFromUntraced"}, symbol : Frames,
                         reset_time : Time])
               /\ threads[t].pending_time \in Time /\ threads[t].last_event_time \in Time
               /\ viewer[t].open \in Seq([symbol : Frames, nth : Nat])
    <3>1. threads[t] \in ThreadInfo /\ viewer[t] \in View
      BY <2>1 DEF Types
    <3> QED
      BY <3>1, ThreadInfoFields, ViewFields DEF Callstack, PendingEvent, Span
  <2>3. base_time \in Int /\ clock \in Int
    BY <2>1, TimeIsInt DEF Types
  <2>4. DOMAIN threads = Threads /\ {base_time_set, in_order, early, finished} \subseteq BOOLEAN
        /\ events \in 0..MaxEvents
    BY <2>1 DEF Types
  <2> QED
    BY <2>1, <2>2, <2>3, <2>4 DEF TypeOK
<1> QED
  BY <1>1, SpecIInv, PTL

\* The spans open in the trace, once the pending events are written, are the frames of the
\* thread's callstacks, after any input: call, ret, clear_callstack, clear_all_callstacks
\* and process_stacktrace write what they do to the stack.
THEOREM OpenSpansAreFrames == Spec => []FramesAreOpenSpans
<1>1. IInv => FramesAreOpenSpans
  <2> SUFFICES ASSUME IInv, NEW t \in Threads
               PROVE  Symbolic(ViewAfterFlush(t).open) = OpenFrames(threads[t])
    BY DEF FramesAreOpenSpans
  <2> DEFINE r == threads[t]
             v == viewer[t]
             last == r.last_event_time
  <2>1. Good(v, r) /\ r.out = <<>> /\ r \in ThreadInfo /\ v \in View /\ last \in Time
    BY GoodFields, ThreadInfoFields DEF IInv, ThreadsTracked
  <2>2. Shown(v, r) = v
    BY <2>1, ReplayNothing DEF Shown
  <2>3. /\ "unmatched" \notin v.wrong /\ OpenFrames(r) \in Seq(Frames)
        /\ Leads(Symbolic(v.open), r.pending, OpenFrames(r))
    BY <2>1, <2>2, GoodFields DEF Tracks, Follows
  <2>4. ViewAfterFlush(t) = ReplayAll(v, Flushed(r, last))
    BY DEF ViewAfterFlush
  <2> HIDE DEF r, v, last
  <2>5. last \in Int /\ r.pending \in Seq(PendingEvent) /\ r.pending_time \in Int
    BY <2>1, ThreadInfoFields, TimeIsInt
  <2>6. Symbolic(ReplayAll(v, Flushed(r, last)).open) = OpenFrames(r)
    BY <2>1, <2>3, <2>5, FlushShows
  <2> QED
    BY <2>4, <2>6 DEF r, v, last
<1> QED
  BY <1>1, SpecIInv, PTL

LEMMA EndsNestOfIInv == IInv => EndsNest
<1> SUFFICES ASSUME IInv, NEW t \in Threads PROVE "unmatched" \notin viewer[t].wrong
  BY DEF EndsNest
<1>1. Good(viewer[t], threads[t]) /\ threads[t].out = <<>>
  BY DEF IInv, ThreadsTracked
<1>2. Shown(viewer[t], threads[t]) = viewer[t]
  BY <1>1, ReplayNothing DEF Shown
<1> QED
  BY <1>1, <1>2 DEF Good, Tracks, Follows

\* No end the reconstructor writes is without its begin.
THEOREM EndsAlwaysNest == Spec => []EndsNest
BY EndsNestOfIInv, SpecIInv, PTL

\* After finish() every span has its end and no event is pending.
THEOREM FinishBalances == Spec => []BalancedAtFinish
<1>1. IInv => BalancedAtFinish
  BY DEF IInv
<1> QED
  BY <1>1, SpecIInv, PTL

\* As long as the input is in time order, no end is written at a time before one that is
\* written already.
THEOREM EndsAlwaysInOrder == Spec => []EndsInOrder
<1>1. IInv => EndsInOrder
  <2> SUFFICES ASSUME IInv, in_order, NEW t \in Threads
               PROVE  "late end" \notin viewer[t].wrong
    BY DEF EndsInOrder
  <2>1. Timely(viewer[t], threads[t]) /\ threads[t].out = <<>>
    BY DEF IInv, ThreadsTracked, ThreadsTimely
  <2>2. Shown(viewer[t], threads[t]) = viewer[t]
    BY <2>1, ReplayNothing DEF Shown
  <2> QED
    BY <2>1, <2>2 DEF Timely
<1> QED
  BY <1>1, SpecIInv, PTL

\* As long as no event is earlier than the first, the reconstructor writes nothing and has
\* nothing pending at a time later than the latest event, even if the input steps back.
THEOREM TimesAlwaysInTrace == Spec => []TimesStayInTrace
<1>1. IInv => TimesStayInTrace
  <2> SUFFICES ASSUME IInv, ~early, NEW t \in Threads
               PROVE  /\ viewer[t].high <= clock - base_time
                      /\ threads[t].pending_time <= clock - base_time
    BY DEF TimesStayInTrace
  <2>1. Within(viewer[t], threads[t], clock - base_time) /\ threads[t].out = <<>>
    BY DEF IInv, ThreadsTracked, ThreadsWithin
  <2>2. Shown(viewer[t], threads[t]) = viewer[t]
    BY <2>1, ReplayNothing DEF Shown
  <2> QED
    BY <2>1, <2>2 DEF Within
<1> QED
  BY <1>1, SpecIInv, PTL
-----------------------------------------------------------------------------
(* Which spans are open, and how many have begun: what it is once the       *)
(* pending events are written does not depend on when that is.              *)

Begun == [open : Seq(Span), begins : Nat]

BegunOf(v) == [open |-> v.open, begins |-> v.begins]

Begin(b, symbol) ==
  [open |-> Append(b.open, [symbol |-> symbol, nth |-> b.begins]), begins |-> b.begins + 1]

End(b, symbol) ==
  IF b.open # <<>> /\ Last(b.open).symbol = symbol THEN [b EXCEPT !.open = Front(@)] ELSE b

\* What a pending event makes of them.
Turn(b, ev) ==
  IF ev.kind = "Call" THEN Begin(b, ev.symbol)
  ELSE IF ev.kind = "Ret" THEN End(b, ev.symbol)
  ELSE [b EXCEPT !.begins = @ + 1]

PF == INSTANCE FoldTheorems WITH Op <- Turn

\* The spans that r's thread has open once its pending events are written.
Standing(v, r) == PF!Fold(BegunOf(Shown(v, r)), r.pending)

LEMMA BegunFields ==
  ASSUME NEW b \in Begun
  PROVE  b.open \in Seq(Span) /\ b.begins \in Nat /\ b = [open |-> b.open, begins |-> b.begins]
BY DEF Begun

LEMMA BeginType ==
  ASSUME NEW b \in Begun, NEW symbol \in Frames
  PROVE  /\ Begin(b, symbol) \in Begun
         /\ Begin(b, symbol).open = Append(b.open, [symbol |-> symbol, nth |-> b.begins])
<1>1. [symbol |-> symbol, nth |-> b.begins] \in Span
  BY BegunFields DEF Span
<1>2. Append(b.open, [symbol |-> symbol, nth |-> b.begins]) \in Seq(Span) /\ b.begins + 1 \in Nat
  BY <1>1, BegunFields
<1> QED
  BY <1>2 DEF Begin, Begun

LEMMA EndType ==
  ASSUME NEW b \in Begun, NEW symbol
  PROVE  /\ End(b, symbol) \in Begun
         /\ \/ End(b, symbol) = b
            \/ b.open # <<>> /\ End(b, symbol).open = Front(b.open)
<1>1. b.open # <<>> => Front(b.open) \in Seq(Span)
  BY BegunFields, FrontLast
<1>2. CASE b.open # <<>> /\ Last(b.open).symbol = symbol
  BY <1>1, <1>2 DEF End, Begun
<1>3. CASE ~(b.open # <<>> /\ Last(b.open).symbol = symbol)
  BY <1>3 DEF End
<1> QED
  BY <1>2, <1>3

LEMMA BegunOfView ==
  ASSUME NEW v \in View
  PROVE  BegunOf(v) \in Begun
BY ViewFields DEF BegunOf, Begun

LEMMA ReplayBegun ==
  ASSUME NEW v \in View, NEW e \in OutEvent
  PROVE  /\ e.type = "begin" => BegunOf(Replay(v, e)) = Begin(BegunOf(v), e.symbol)
         /\ e.type = "end" => BegunOf(Replay(v, e)) = End(BegunOf(v), e.symbol)
<1>1. CASE e.type = "begin"
  <2>1. /\ Replay(v, e).open = Append(v.open, [symbol |-> e.symbol, nth |-> v.begins])
        /\ Replay(v, e).begins = v.begins + 1
    BY <1>1 DEF Replay, View
  <2> QED
    BY <1>1, <2>1 DEF BegunOf, Begin
<1>2. CASE e.type = "end" /\ v.open # <<>> /\ Last(v.open).symbol = e.symbol
  <2>1. Replay(v, e).open = Front(v.open) /\ Replay(v, e).begins = v.begins
    BY <1>2 DEF Replay, View
  <2> QED
    BY <1>2, <2>1 DEF BegunOf, End
<1>3. CASE e.type = "end" /\ (v.open = <<>> \/ Last(v.open).symbol # e.symbol)
  <2>1. Replay(v, e).open = v.open /\ Replay(v, e).begins = v.begins
    BY <1>3 DEF Replay, View
  <2> QED
    BY <1>3, <2>1 DEF BegunOf, End
<1> QED
  BY <1>1, <1>2, <1>3

LEMMA WrittenTurns ==
  ASSUME NEW v \in View, NEW ev \in PendingEvent, NEW time \in Int
  PROVE  /\ ReplayAll(v, Written(ev, time)) \in View
         /\ BegunOf(ReplayAll(v, Written(ev, time))) = Turn(BegunOf(v), ev)
<1>1. ReplayAll(v, Written(ev, time)) \in View
  BY WrittenByKind, ReplayAllType
<1>2. CASE ev.kind = "Call"
  <2>1. ReplayAll(v, Written(ev, time)) = Replay(v, BeginAt(ev.symbol, time))
    BY <1>2, WrittenByKind, ReplayOne
  <2>2. BeginAt(ev.symbol, time).symbol = ev.symbol
    BY DEF BeginAt
  <2>3. BegunOf(Replay(v, BeginAt(ev.symbol, time))) = Begin(BegunOf(v), ev.symbol)
    BY <2>2, WrittenByKind, ReplayBegun
  <2> QED
    BY <1>1, <1>2, <2>1, <2>3 DEF Turn
<1>3. CASE ev.kind = "Ret"
  <2>1. ReplayAll(v, Written(ev, time)) = Replay(v, EndAt(ev.symbol, time))
    BY <1>3, WrittenByKind, ReplayOne
  <2>2. EndAt(ev.symbol, time).symbol = ev.symbol
    BY DEF EndAt
  <2>3. BegunOf(Replay(v, EndAt(ev.symbol, time))) = End(BegunOf(v), ev.symbol)
    BY <2>2, WrittenByKind, ReplayBegun
  <2> QED
    BY <1>1, <1>3, <2>1, <2>3 DEF Turn
<1>4. CASE ev.kind = "RetFromUntraced"
  <2> DEFINE e == BeginAt(Unknown, ev.reset_time)
             f == EndAt(Unknown, time)
             w == Replay(v, e)
             b == BegunOf(v)
  <2>1. /\ e \in OutEvent /\ e.type = "begin" /\ f \in OutEvent /\ f.type = "end"
        /\ Written(ev, time) = <<e, f>>
    BY <1>4, WrittenByKind
  <2>2. e.symbol = Unknown /\ f.symbol = Unknown /\ Unknown \in Frames
    BY DEF BeginAt, EndAt, Frames
  <2> HIDE DEF e, f
  <2>3. ReplayAll(v, Written(ev, time)) = Replay(w, f)
    BY <2>1, ReplayTwo
  <2>4. w \in View /\ BegunOf(w) = Begin(b, Unknown)
    BY <2>1, <2>2, ReplayBegin, ReplayBegun
  <2> HIDE DEF w
  <2>5. BegunOf(Replay(w, f)) = End(Begin(b, Unknown), Unknown)
    BY <2>1, <2>2, <2>4, ReplayBegun
  <2>6. b \in Begun
    BY BegunOfView
  <2> HIDE DEF b
  <2>7. End(Begin(b, Unknown), Unknown) = [b EXCEPT !.begins = @ + 1]
    <3> DEFINE span == [symbol |-> Unknown, nth |-> b.begins]
               open == Append(b.open, span)
    <3>1. span \in Span /\ span.symbol = Unknown /\ b.open \in Seq(Span)
      BY <2>2, <2>6, BegunFields DEF Span
    <3>2. Begin(b, Unknown) = [open |-> open, begins |-> b.begins + 1]
      BY DEF Begin
    <3> HIDE DEF span
    <3>3. open # <<>> /\ Last(open) = span /\ Front(open) = b.open
      BY <3>1 DEF Last, Front
    <3> HIDE DEF open
    <3>4. End(Begin(b, Unknown), Unknown) = [open |-> b.open, begins |-> b.begins + 1]
      BY <3>1, <3>2, <3>3 DEF End
    <3>5. [b EXCEPT !.begins = @ + 1] = [open |-> b.open, begins |-> b.begins + 1]
      BY <2>6 DEF Begun
    <3> QED
      BY <3>4, <3>5
  <2>8. Turn(b, ev) = [b EXCEPT !.begins = @ + 1]
    BY <1>4 DEF Turn
  <2> QED
    BY <1>1, <2>3, <2>5, <2>7, <2>8 DEF b
<1> QED
  BY <1>2, <1>3, <1>4 DEF PendingEvent

LEMMA TurnType ==
  ASSUME NEW b \in Begun, NEW ev \in PendingEvent
  PROVE  Turn(b, ev) \in Begun
<1>1. [b EXCEPT !.begins = @ + 1] \in Begun
  BY DEF Begun
<1>2. ev.symbol \in Frames
  BY DEF PendingEvent
<1> QED
  BY <1>1, <1>2, BeginType, EndType DEF Turn

\* However late they are written, pending events leave the same spans open.
LEMMA WritesTurn ==
  ASSUME NEW v \in View, NEW time \in [Nat -> Int], NEW pending \in Seq(PendingEvent)
  PROVE  BegunOf(ReplayAll(v, Writes(pending, time))) = PF!Fold(BegunOf(v), pending)
<1> DEFINE S == {evs \in Seq(PendingEvent) :
                   BegunOf(ReplayAll(v, Writes(evs, time))) = PF!Fold(BegunOf(v), evs)}
<1>1. <<>> \in S
  BY ConcatEmpty, WritesNothing, ReplayNothing, PF!FoldEmpty
<1>2. ASSUME NEW evs \in Seq(PendingEvent), NEW ev \in PendingEvent, evs \in S
      PROVE  Append(evs, ev) \in S
  <2> DEFINE part == Written(ev, time[Len(evs) + 1])
             w == ReplayAll(v, Writes(evs, time))
  <2>1. /\ Writes(Append(evs, ev), time) = Writes(evs, time) \o part
        /\ part \in Seq(OutEvent) /\ Writes(evs, time) \in Seq(OutEvent)
    BY WritesOneMore
  <2>2. ReplayAll(v, Writes(Append(evs, ev), time)) = ReplayAll(w, part)
    BY <2>1, ReplayConcat
  <2>3. w \in View
    BY <2>1, ReplayAllType
  <2>4. BegunOf(w) = PF!Fold(BegunOf(v), evs)
    BY <1>2
  <2>5. time[Len(evs) + 1] \in Int
    OBVIOUS
  <2> HIDE DEF w
  <2>6. BegunOf(ReplayAll(w, part)) = Turn(BegunOf(w), ev)
    BY <2>3, <2>5, WrittenTurns
  <2>7. PF!Fold(BegunOf(v), Append(evs, ev)) = Turn(PF!Fold(BegunOf(v), evs), ev)
    BY PF!FoldAppend
  <2>8. Append(evs, ev) \in Seq(PendingEvent)
    OBVIOUS
  <2> QED
    BY <2>2, <2>4, <2>6, <2>7, <2>8
<1> HIDE DEF S
<1>3. pending \in S
  BY <1>1, <1>2, RF!AppendInduction
<1> QED
  BY <1>3 DEF S

LEMMA FlushTurns ==
  ASSUME NEW v \in View, NEW r \in ThreadInfo, NEW to_time \in Int
  PROVE  /\ ReplayAll(v, Flushed(r, to_time)) \in View
         /\ Flushed(r, to_time) \in Seq(OutEvent)
         /\ BegunOf(ReplayAll(v, Flushed(r, to_time))) = PF!Fold(BegunOf(v), r.pending)
<1>1. r.pending \in Seq(PendingEvent) /\ r.pending_time \in Int
  BY ThreadInfoFields, TimeIsInt
<1>2. /\ FlushTime(r, to_time) \in [Nat -> Int]
      /\ Flushed(r, to_time) = Writes(r.pending, FlushTime(r, to_time))
  BY <1>1, FlushTimes
<1> QED
  BY <1>1, <1>2, WritesTurn, WritesType

LEMMA FoldTurnsType ==
  ASSUME NEW b \in Begun, NEW evs \in Seq(PendingEvent)
  PROVE  PF!Fold(b, evs) \in Begun
<1> DEFINE S == {e \in Seq(PendingEvent) : PF!Fold(b, e) \in Begun}
<1>1. <<>> \in S
  BY ConcatEmpty, PF!FoldEmpty
<1>2. ASSUME NEW e \in Seq(PendingEvent), NEW ev \in PendingEvent, e \in S
      PROVE  Append(e, ev) \in S
  <2>1. PF!Fold(b, Append(e, ev)) = Turn(PF!Fold(b, e), ev)
    BY PF!FoldAppend
  <2> QED
    BY <1>2, <2>1, TurnType
<1> HIDE DEF S
<1>3. evs \in S
  BY <1>1, <1>2, RF!AppendInduction
<1> QED
  BY <1>3 DEF S

LEMMA StandingType ==
  ASSUME NEW v \in View, NEW r \in ThreadInfo
  PROVE  Standing(v, r) \in Begun
BY ThreadInfoFields, ShownIsView, BegunOfView, FoldTurnsType DEF Standing

\* add_event: the events take their turns after those that are pending.
LEMMA AddEventsTurns ==
  ASSUME NEW v \in View, NEW r \in ThreadInfo, NEW time \in Time,
         NEW evs \in Seq(PendingEvent)
  PROVE  Standing(v, AddEvents(r, time, evs)) = PF!Fold(Standing(v, r), evs)
<1> DEFINE b == BegunOf(Shown(v, r))
           s == AddEvents(r, time, evs)
<1>1. /\ r.pending \in Seq(PendingEvent) /\ r.out \in Seq(OutEvent) /\ time \in Int
      /\ Shown(v, r) \in View
  BY ThreadInfoFields, TimeIsInt, ShownIsView
<1>2. CASE evs = <<>>
  BY <1>2, PF!FoldEmpty DEF AddEvents
<1>3. CASE evs # <<>> /\ (time = r.pending_time \/ r.pending = <<>>)
  <2>1. s.out = r.out /\ s.pending = r.pending \o evs
    BY <1>3 DEF AddEvents, Flush, ThreadInfo
  <2>2. Shown(v, s) = Shown(v, r)
    BY <2>1 DEF Shown
  <2>3. Standing(v, s) = PF!Fold(b, r.pending \o evs)
    BY <2>1, <2>2 DEF Standing
  <2>4. PF!Fold(b, r.pending \o evs) = PF!Fold(PF!Fold(b, r.pending), evs)
    BY <1>1, PF!FoldConcat
  <2> QED
    BY <2>3, <2>4 DEF Standing
<1>4. CASE evs # <<>> /\ time # r.pending_time /\ r.pending # <<>>
  <2> DEFINE out == Flushed(r, time)
  <2>1. /\ out \in Seq(OutEvent)
        /\ BegunOf(ReplayAll(Shown(v, r), out)) = PF!Fold(b, r.pending)
    BY <1>1, FlushTurns
  <2> HIDE DEF out
  <2>2. s.out = r.out \o out /\ s.pending = <<>> \o evs
    BY <1>4 DEF AddEvents, Flush, ThreadInfo, out
  <2>3. s.pending = evs
    BY <2>2
  <2>4. Shown(v, s) = ReplayAll(Shown(v, r), out)
    BY <1>1, <2>1, <2>2, ReplayConcat DEF Shown
  <2> QED
    BY <2>1, <2>3, <2>4 DEF Standing
<1> QED
  BY <1>2, <1>3, <1>4

\* The frames that a thread has open are as many as the spans.
LEMMA StandingLength ==
  ASSUME NEW v, NEW r, Good(v, r)
  PROVE  /\ Standing(v, r) \in Begun
         /\ Len(Standing(v, r).open) = Len(OpenFrames(r))
<1> DEFINE w == Shown(v, r)
           after == ReplayAll(w, Flushed(r, 0))
<1>1. v \in View /\ r \in ThreadInfo /\ OpenFrames(r) \in Seq(Frames) /\ Follows(v, r, OpenFrames(r))
  BY GoodFields DEF Tracks
<1>2. r.pending \in Seq(PendingEvent) /\ r.pending_time \in Int /\ w \in View /\ 0 \in Int
  BY <1>1, ThreadInfoFields, TimeIsInt, ShownIsView
<1>3. "unmatched" \notin w.wrong /\ Leads(Symbolic(w.open), r.pending, OpenFrames(r))
  BY <1>1 DEF Follows
<1> HIDE DEF w
<1>4. after \in View /\ Symbolic(after.open) = OpenFrames(r)
  BY <1>1, <1>2, <1>3, FlushShows
<1>5. BegunOf(after) = PF!Fold(BegunOf(w), r.pending)
  BY <1>1, <1>2, FlushTurns
<1> HIDE DEF after
<1>6. after.open = Standing(v, r).open
  BY <1>5 DEF Standing, BegunOf, w
<1>7. Len(Symbolic(after.open)) = Len(after.open)
  BY <1>4, ViewFields, SymbolicType
<1> QED
  BY <1>1, <1>4, <1>6, <1>7, StandingType

-----------------------------------------------------------------------------
(* What a handler leaves of the spans that are open *)

\* x and y begin with the same n spans.
Agree(x, y, n) == n \in 0..Len(x) /\ n \in 0..Len(y) /\ \A i \in 1..n : x[i] = y[i]

LEMMA AgreeOn ==
  ASSUME NEW x \in Seq(Span), NEW y \in Seq(Span), NEW n \in Nat, Agree(x, y, n)
  PROVE  /\ \A m \in 0..n : Agree(x, y, m)
         /\ \A z \in Seq(Span) : Agree(y, z, n) => Agree(x, z, n)
BY DEF Agree

LEMMA AgreePrefix ==
  ASSUME NEW x \in Seq(Span), NEW y \in Seq(Span), NEW z \in Seq(Span), NEW n \in Nat,
         Agree(x, y, n), IsPrefix(z, x), Len(z) <= n
  PROVE  IsPrefix(z, y)
<1>1. \A i \in 1..Len(z) : z[i] = x[i]
  BY DEF IsPrefix
<1>2. Len(z) <= Len(y) /\ \A i \in 1..Len(z) : z[i] = y[i]
  BY <1>1 DEF Agree
<1>3. z = SubSeq(y, 1, Len(z))
  BY <1>2
<1> QED
  BY <1>2, <1>3 DEF IsPrefix

LEMMA TurnAgrees ==
  ASSUME NEW b \in Begun, NEW ev \in PendingEvent
  PROVE  /\ ev.kind # "Ret" => Agree(b.open, Turn(b, ev).open, Len(b.open))
         /\ \A n \in Nat : n < Len(b.open) => Agree(b.open, Turn(b, ev).open, n)
<1>1. b.open \in Seq(Span) /\ ev.symbol \in Frames
  BY BegunFields DEF PendingEvent
<1>2. CASE ev.kind = "Call"
  <2>1. Turn(b, ev).open = Append(b.open, [symbol |-> ev.symbol, nth |-> b.begins])
    BY <1>1, <1>2, BeginType DEF Turn
  <2> QED
    BY <1>1, <2>1 DEF Agree
<1>3. CASE ev.kind = "Ret"
  <2>1. Turn(b, ev) = End(b, ev.symbol)
    BY <1>3 DEF Turn
  <2>2. Turn(b, ev).open = b.open \/ (b.open # <<>> /\ Turn(b, ev).open = Front(b.open))
    BY <2>1, EndType
  <2> QED
    BY <1>1, <1>3, <2>2 DEF Agree, Front
<1>4. CASE ev.kind = "RetFromUntraced"
  <2>1. Turn(b, ev).open = b.open
    BY <1>4 DEF Turn, Begun
  <2> QED
    BY <1>1, <2>1 DEF Agree
<1> QED
  BY <1>2, <1>3, <1>4 DEF PendingEvent

\* Each event closes one span at most.
LEMMA FoldAgrees ==
  ASSUME NEW b \in Begun, NEW evs \in Seq(PendingEvent), NEW n \in Nat,
         n + Len(evs) <= Len(b.open)
  PROVE  Agree(b.open, PF!Fold(b, evs).open, n)
<1> DEFINE S == {e \in Seq(PendingEvent) :
                   \A m \in Nat : m + Len(e) <= Len(b.open) =>
                     Agree(b.open, PF!Fold(b, e).open, m)}
<1>1. <<>> \in S
  <2>1. PF!Fold(b, <<>>) = b /\ b.open \in Seq(Span)
    BY PF!FoldEmpty, BegunFields
  <2> QED
    BY <2>1, ConcatEmpty DEF Agree
<1>2. ASSUME NEW e \in Seq(PendingEvent), NEW ev \in PendingEvent, e \in S
      PROVE  Append(e, ev) \in S
  <2>1. SUFFICES ASSUME NEW m \in Nat, m + Len(Append(e, ev)) <= Len(b.open)
                 PROVE  Agree(b.open, PF!Fold(b, Append(e, ev)).open, m)
    OBVIOUS
  <2> DEFINE c == PF!Fold(b, e)
  <2>2. PF!Fold(b, Append(e, ev)) = Turn(c, ev) /\ c \in Begun
    BY PF!FoldAppend, FoldTurnsType
  <2>3. (m + 1) + Len(e) <= Len(b.open) /\ m + 1 \in Nat
    BY <2>1, BegunFields
  <2>4. Agree(b.open, c.open, m + 1)
    BY <1>2, <2>3
  <2> HIDE DEF c
  <2>5. b.open \in Seq(Span) /\ c.open \in Seq(Span) /\ Turn(c, ev).open \in Seq(Span)
    BY <2>2, BegunFields, TurnType
  <2>6. Agree(b.open, c.open, m) /\ m < Len(c.open)
    BY <2>4, <2>5 DEF Agree
  <2>7. Agree(c.open, Turn(c, ev).open, m)
    BY <2>2, <2>6, TurnAgrees
  <2> QED
    BY <2>2, <2>5, <2>6, <2>7, AgreeOn
<1> HIDE DEF S
<1>3. evs \in S
  BY <1>1, <1>2, RF!AppendInduction
<1> QED
  BY <1>3 DEF S

\* s has open at least the first n spans that r has.
Retains(v, r, s, n) == Agree(Standing(v, r).open, Standing(v, s).open, n)

\* The frames of the inactive callstacks, in number.
Depth(r) == Len(OuterFrames(r.inactive))

LEMMA StandingSame ==
  ASSUME NEW v, NEW r, NEW s, SameWritten(r, s)
  PROVE  Standing(v, s) = Standing(v, r)
BY DEF SameWritten, Standing, Shown

LEMMA OpenDepth ==
  ASSUME NEW v, NEW r, Good(v, r)
  PROVE  /\ v \in View /\ r \in ThreadInfo /\ r.stack \in Seq(Frames)
         /\ r.inactive \in Seq(Callstack)
         /\ Depth(r) \in Nat /\ Len(OpenFrames(r)) = Depth(r) + Len(r.stack)
         /\ Standing(v, r).open \in Seq(Span)
         /\ Len(Standing(v, r).open) = Depth(r) + Len(r.stack)
<1>1. /\ v \in View /\ r \in ThreadInfo /\ r.stack \in Seq(Frames) /\ r.inactive \in Seq(Callstack)
      /\ OpenFrames(r) = OuterFrames(r.inactive) \o r.stack
      /\ OuterFrames(r.inactive) \in Seq(Frames)
  BY GoodFields, OpenFramesSplit, ThreadInfoFields
<1>2. Len(OpenFrames(r)) = Depth(r) + Len(r.stack) /\ Depth(r) \in Nat
  BY <1>1 DEF Depth
<1> QED
  BY <1>1, <1>2, StandingLength, BegunFields

LEMMA RetainsOn ==
  ASSUME NEW v, NEW r, NEW s, Good(v, r), Good(v, s), NEW n \in Nat, Retains(v, r, s, n)
  PROVE  /\ \A m \in 0..n : Retains(v, r, s, m)
         /\ \A x : Good(v, x) /\ Retains(v, s, x, n) => Retains(v, r, x, n)
BY OpenDepth, AgreeOn DEF Retains

LEMMA RetainsAll ==
  ASSUME NEW v, NEW r, Good(v, r), NEW n \in 0..Len(OpenFrames(r))
  PROVE  /\ Retains(v, r, r, n)
         /\ \A s : SameWritten(r, s) => Retains(v, r, s, n)
<1>1. Agree(Standing(v, r).open, Standing(v, r).open, n)
  BY OpenDepth DEF Agree
<1> QED
  BY <1>1, StandingSame DEF Retains

LEMMA AddEventsType ==
  ASSUME NEW v, NEW r, Good(v, r), NEW time \in Time, NEW evs \in Seq(PendingEvent)
  PROVE  AddEvents(r, time, evs) \in ThreadInfo
<1>1. v \in View /\ r \in ThreadInfo
  BY GoodFields
<1>2. Flush(r, time) \in ThreadInfo
  <2> DEFINE out == Flushed(r, time)
  <2>1. out \in Seq(OutEvent) /\ time \in Int
    BY <1>1, FlushTurns, TimeIsInt
  <2> HIDE DEF out
  <2>2. r.out \o out \in Seq(OutEvent) /\ <<>> \in Seq(PendingEvent)
    BY <1>1, <2>1, ThreadInfoFields, ConcatType, ConcatEmpty
  <2>3. Flush(r, time) = IF r.pending = <<>> THEN r
                         ELSE [r EXCEPT !.out = r.out \o out, !.pending_time = time,
                                        !.pending = <<>>]
    BY DEF Flush, out
  <2> QED
    BY <1>1, <2>2, <2>3 DEF ThreadInfo
<1>3. \A x \in ThreadInfo : x.pending \o evs \in Seq(PendingEvent)
  BY ThreadInfoFields, ConcatType
<1>4. \A x \in ThreadInfo :
        [x EXCEPT !.pending_time = time, !.pending = x.pending \o evs] \in ThreadInfo
  BY <1>3 DEF ThreadInfo
<1> QED
  BY <1>1, <1>2, <1>4 DEF AddEvents

LEMMA EmitStanding ==
  ASSUME NEW v, NEW r, Good(v, r), NEW time \in Time, NEW evs \in Seq(PendingEvent), NEW stack
  PROVE  /\ Standing(v, Emit(r, time, evs, stack)) = PF!Fold(Standing(v, r), evs)
         /\ Emit(r, time, evs, stack).stack = stack
<1> DEFINE a == AddEvents(r, time, evs)
<1>1. v \in View /\ r \in ThreadInfo
  BY GoodFields
<1>2. Standing(v, a) = PF!Fold(Standing(v, r), evs) /\ a \in ThreadInfo
  BY <1>1, AddEventsTurns, AddEventsType
<1> HIDE DEF a
<1>3. SameWritten(a, [a EXCEPT !.stack = stack]) /\ [a EXCEPT !.stack = stack].stack = stack
  BY <1>2 DEF SameWritten, ThreadInfo
<1> QED
  BY <1>2, <1>3, StandingSame DEF Emit, a

LEMMA OneTurn ==
  ASSUME NEW b \in Begun, NEW ev \in PendingEvent
  PROVE  PF!Fold(b, <<ev>>) = Turn(b, ev) /\ <<ev>> \in Seq(PendingEvent)
<1>1. <<>> \in Seq(PendingEvent) /\ Append(<<>>, ev) = <<ev>>
  BY ConcatEmpty
<1>2. PF!Fold(b, Append(<<>>, ev)) = Turn(PF!Fold(b, <<>>), ev)
  BY <1>1, PF!FoldAppend
<1> QED
  BY <1>1, <1>2, PF!FoldEmpty

LEMMA CallMoves ==
  ASSUME NEW v, NEW r, Good(v, r), NEW time, NEW symbol \in Frames,
         Now(r, time) \/ time = r.create_time
  PROVE  /\ Keeps(v, r, Call(r, time, symbol))
         /\ Call(r, time, symbol).stack = Append(r.stack, symbol)
         /\ Call(r, time, symbol).inactive = r.inactive
         /\ Retains(v, r, Call(r, time, symbol), Len(OpenFrames(r)))
<1> DEFINE evs == CallsOf(<<symbol>>)
           stack == Append(r.stack, symbol)
<1>1. r \in ThreadInfo /\ r.stack \in Seq(Frames) /\ Standing(v, r) \in Begun
  BY OpenDepth, StandingLength
<1>2. time \in Time
  BY <1>1, ThreadInfoFields DEF Now
<1>3. evs = <<CallEvent(symbol)>> /\ CallEvent(symbol) \in PendingEvent
      /\ CallEvent(symbol).kind # "Ret"
  <2>1. CallEvent(symbol) \in PendingEvent
    BY ConcatEmpty, LeadsByCall
  <2> QED
    BY <2>1 DEF CallsOf, CallEvent
<1>4. Call(r, time, symbol) = Emit(r, time, evs, stack)
  BY <1>1, CallIsEmit
<1>5. Keeps(v, r, Call(r, time, symbol)) /\ SameOuter(r, Call(r, time, symbol))
  BY CallKeeps
<1> HIDE DEF evs, stack
<1>6. /\ PF!Fold(Standing(v, r), evs) = Turn(Standing(v, r), CallEvent(symbol))
      /\ evs \in Seq(PendingEvent)
  BY <1>1, <1>3, OneTurn
<1>7. /\ Standing(v, Call(r, time, symbol)) = Turn(Standing(v, r), CallEvent(symbol))
      /\ Call(r, time, symbol).stack = stack
  BY <1>2, <1>4, <1>6, EmitStanding
<1>8. Retains(v, r, Call(r, time, symbol), Len(Standing(v, r).open))
  BY <1>1, <1>3, <1>7, TurnAgrees DEF Retains
<1> QED
  BY <1>5, <1>7, <1>8, StandingLength DEF SameOuter, stack

LEMMA RetMoves ==
  ASSUME NEW v, NEW r, Good(v, r), NEW time, Now(r, time)
  PROVE  /\ Keeps(v, r, Ret(r, time))
         /\ Ret(r, time).stack = IF r.stack = <<>> THEN <<>> ELSE Front(r.stack)
         /\ Ret(r, time).inactive = r.inactive
         /\ r.stack = <<>> => Retains(v, r, Ret(r, time), Len(OpenFrames(r)))
         /\ r.stack # <<>> => Retains(v, r, Ret(r, time), Len(OpenFrames(r)) - 1)
         /\ Retains(v, r, Ret(r, time), Depth(r))
<1>1. /\ v \in View /\ r \in ThreadInfo /\ r.stack \in Seq(Frames) /\ Standing(v, r) \in Begun
      /\ Depth(r) \in Nat /\ Len(OpenFrames(r)) = Depth(r) + Len(r.stack)
      /\ Len(Standing(v, r).open) = Depth(r) + Len(r.stack)
  BY OpenDepth, StandingLength
<1>2. time \in Time
  BY NowTime
<1>3. Keeps(v, r, Ret(r, time)) /\ SameOuter(r, Ret(r, time)) /\ Good(v, Ret(r, time))
  BY RetKeeps, KeepsFields
<1>4. CASE r.stack # <<>>
  <2> DEFINE ev == RetEvent(Last(r.stack))
             stack == Front(r.stack)
  <2>1. Last(r.stack) \in Frames /\ stack \in Seq(Frames)
    BY <1>1, <1>4, FrontLast
  <2>2. ev \in PendingEvent
    BY <2>1, ConcatEmpty, LeadsByRet
  <2>3. Ret(r, time) = Emit(r, time, <<ev>>, stack)
    BY <1>1, <1>4, RetIsEmit
  <2> HIDE DEF ev, stack
  <2> DEFINE evs == <<ev>>
  <2>4. PF!Fold(Standing(v, r), evs) = Turn(Standing(v, r), ev) /\ evs \in Seq(PendingEvent)
    BY <1>1, <2>2, OneTurn
  <2>10. Ret(r, time) = Emit(r, time, evs, stack)
    BY <2>3
  <2> HIDE DEF evs
  <2>5. Standing(v, Ret(r, time)) = Turn(Standing(v, r), ev) /\ Ret(r, time).stack = stack
    BY <1>2, <2>10, <2>4, EmitStanding
  <2>6. Len(r.stack) > 0
    BY <1>1, <1>4
  <2>7. Retains(v, r, Ret(r, time), Len(OpenFrames(r)) - 1)
    <3>1. /\ Len(OpenFrames(r)) - 1 \in Nat
          /\ Len(OpenFrames(r)) - 1 < Len(Standing(v, r).open)
      BY <1>1, <2>6
    <3> QED
      BY <1>1, <2>2, <2>5, <3>1, TurnAgrees DEF Retains
  <2>8. Depth(r) \in 0..(Len(OpenFrames(r)) - 1) /\ Len(OpenFrames(r)) - 1 \in Nat
    BY <1>1, <2>6
  <2>9. Retains(v, r, Ret(r, time), Depth(r))
    BY <1>3, <2>7, <2>8, RetainsOn
  <2> QED
    BY <1>3, <1>4, <2>5, <2>7, <2>9 DEF SameOuter, stack
<1>5. CASE r.stack = <<>>
  <2> DEFINE ev == RetFromUntraced(r.create_time)
  <2>1. r.create_time \in Time
    BY <1>1, ThreadInfoFields
  <2>2. ev \in PendingEvent /\ ev.kind # "Ret"
    <3>1. ev \in PendingEvent
      BY <2>1, ConcatEmpty, LeadsByRetFromUntraced
    <3> QED
      BY <3>1 DEF RetFromUntraced
  <2>3. Ret(r, time) = AddEvents(r, time, <<ev>>)
    BY <1>5 DEF Ret
  <2> HIDE DEF ev
  <2>8. PF!Fold(Standing(v, r), <<ev>>) = Turn(Standing(v, r), ev) /\ <<ev>> \in Seq(PendingEvent)
    BY <1>1, <2>2, OneTurn
  <2>4. Standing(v, Ret(r, time)) = Turn(Standing(v, r), ev)
    BY <1>1, <1>2, <2>3, <2>8, AddEventsTurns
  <2>5. Ret(r, time).stack = <<>>
    BY <1>1, <1>5, <2>3, AddEventsStacks DEF SameStacks
  <2>6. Retains(v, r, Ret(r, time), Len(OpenFrames(r)))
    BY <1>1, <2>2, <2>4, TurnAgrees DEF Retains
  <2>7. Depth(r) = Len(OpenFrames(r))
    BY <1>1, <1>5
  <2> QED
    BY <1>3, <1>5, <2>5, <2>6, <2>7 DEF SameOuter
<1> QED
  BY <1>4, <1>5

\* The symbol takes the place of the innermost frame, if there is one.
Touch(stack, symbol) == IF stack = <<>> THEN <<symbol>> ELSE Append(Front(stack), symbol)

LEMMA CheckCurrentSymbolMoves ==
  ASSUME NEW v, NEW r, Good(v, r), NEW time, Now(r, time), NEW symbol \in Frames
  PROVE  LET s == CheckCurrentSymbol(r, time, symbol)
         IN  /\ Keeps(v, r, s)
             /\ s.stack = Touch(r.stack, symbol)
             /\ s.inactive = r.inactive
             /\ r.stack = <<>> \/ Last(r.stack) = symbol => Retains(v, r, s, Len(OpenFrames(r)))
             /\ Retains(v, r, s, Depth(r))
<1> DEFINE s == CheckCurrentSymbol(r, time, symbol)
<1>1. /\ r.stack \in Seq(Frames) /\ Depth(r) \in 0..Len(OpenFrames(r))
      /\ Len(OpenFrames(r)) \in Nat
  BY OpenDepth
<1>2. Keeps(v, r, s) /\ Good(v, s)
  BY CheckCurrentSymbolKeeps, KeepsFields
<1>3. CASE r.stack = <<>>
  <2>1. s = Call(r, r.create_time, symbol)
    BY <1>3 DEF CheckCurrentSymbol
  <2> HIDE DEF s
  <2>2. /\ s.stack = Append(r.stack, symbol) /\ s.inactive = r.inactive
        /\ Retains(v, r, s, Len(OpenFrames(r)))
    BY <2>1, CallMoves
  <2>3. Retains(v, r, s, Depth(r))
    BY <1>1, <1>2, <2>2, RetainsOn
  <2>4. Append(r.stack, symbol) = <<symbol>>
    BY <1>3
  <2> QED
    BY <1>2, <1>3, <2>2, <2>3, <2>4 DEF Touch, s
<1>4. CASE r.stack # <<>> /\ Last(r.stack) # symbol
  <2> DEFINE x == Ret(r, time)
  <2>1. s = Call(x, time, symbol)
    BY <1>4 DEF CheckCurrentSymbol
  <2>2. /\ Keeps(v, r, x) /\ x.stack = Front(r.stack) /\ x.inactive = r.inactive
        /\ Retains(v, r, x, Depth(r))
    BY <1>4, RetMoves
  <2>3. Good(v, x) /\ Now(x, time) /\ Depth(x) = Depth(r)
    BY <2>2, NowOn DEF Depth
  <2> HIDE DEF s, x
  <2>4. /\ s.stack = Append(x.stack, symbol) /\ s.inactive = x.inactive
        /\ Retains(v, x, s, Len(OpenFrames(x)))
    BY <2>1, <2>3, CallMoves
  <2>5. Depth(r) \in 0..Len(OpenFrames(x)) /\ Len(OpenFrames(x)) \in Nat
    BY <2>3, OpenDepth
  <2>6. Retains(v, x, s, Depth(r))
    BY <1>2, <2>3, <2>4, <2>5, RetainsOn
  <2>7. Retains(v, r, s, Depth(r))
    BY <1>1, <1>2, <2>2, <2>3, <2>6, RetainsOn
  <2> QED
    BY <1>2, <1>4, <2>2, <2>4, <2>7 DEF Touch, s
<1>5. CASE r.stack # <<>> /\ Last(r.stack) = symbol
  <2>1. s = r
    BY <1>5 DEF CheckCurrentSymbol
  <2> HIDE DEF s
  <2>2. Retains(v, r, s, Depth(r)) /\ Retains(v, r, s, Len(OpenFrames(r)))
    BY <1>1, <2>1, RetainsAll
  <2>3. r.stack = Append(Front(r.stack), symbol)
    BY <1>1, <1>5, FrontLast
  <2> QED
    BY <1>2, <1>5, <2>1, <2>2, <2>3 DEF Touch, s
<1> QED
  BY <1>3, <1>4, <1>5

LEMMA ReturnsLength ==
  ASSUME NEW frames \in Seq(Frames)
  PROVE  ReturnsOf(frames) \in Seq(PendingEvent) /\ Len(ReturnsOf(frames)) = Len(frames)
<1>1. ReturnsOf(frames) \in Seq(PendingEvent)
  BY ConcatEmpty, LeadsByReturns
<1>2. ReturnsOf(frames) = [i \in 1..Len(frames) |-> RetEvent(Reverse(frames)[i])]
  BY DEF ReturnsOf
<1> QED
  BY <1>1, <1>2

LEMMA ClearCallstackMoves ==
  ASSUME NEW v, NEW r, Good(v, r), NEW time, Now(r, time)
  PROVE  LET s == ClearCallstack(r, time)
         IN  /\ Keeps(v, r, s)
             /\ s.stack = <<>> /\ s.inactive = r.inactive
             /\ Retains(v, r, s, Depth(r))
<1> DEFINE evs == ReturnsOf(r.stack)
           s == ClearCallstack(r, time)
<1>1. /\ r.stack \in Seq(Frames) /\ Depth(r) \in Nat /\ Standing(v, r) \in Begun
      /\ Len(Standing(v, r).open) = Depth(r) + Len(r.stack)
  BY OpenDepth, StandingLength
<1>2. Keeps(v, r, s) /\ SameOuter(r, s) /\ s.stack = <<>>
  BY ClearCallstackKeeps
<1>3. s = Emit(r, time, evs, <<>>)
  BY DEF ClearCallstack, Emit
<1>4. evs \in Seq(PendingEvent) /\ Len(evs) = Len(r.stack)
  BY <1>1, ReturnsLength
<1>5. time \in Time
  BY NowTime
<1> HIDE DEF evs, s
<1>6. Standing(v, s) = PF!Fold(Standing(v, r), evs)
  BY <1>3, <1>4, <1>5, EmitStanding
<1>7. Retains(v, r, s, Depth(r))
  BY <1>1, <1>4, <1>6, FoldAgrees DEF Retains
<1> QED
  BY <1>2, <1>7 DEF SameOuter, s

LEMMA EnterContextMoves ==
  ASSUME NEW v, NEW r, Good(v, r), NEW time, Now(r, time), NEW dst \in Frames
  PROVE  LET s == EnterContext(r, time, dst)
         IN  /\ Keeps(v, r, s)
             /\ s.stack = <<dst>>
             /\ s.inactive = Append(r.inactive, [stack |-> r.stack, create_time |-> r.create_time])
             /\ Retains(v, r, s, Len(OpenFrames(r)))
<1> DEFINE x == Suspended(r, time)
           s == EnterContext(r, time, dst)
           n == Len(OpenFrames(r))
<1>1. s = Call(x, time, dst)
  BY DEF EnterContext, Suspended
<1>2. /\ Keeps(v, r, x) /\ SameWritten(r, x) /\ Now(x, time) /\ x.stack = <<>>
      /\ x.inactive = Append(r.inactive, [stack |-> r.stack, create_time |-> r.create_time])
  BY SuspendedKeeps
<1>3. Good(v, x) /\ Keeps(v, r, s)
  BY <1>2, KeepsFields, EnterContextKeeps
<1>4. n \in Nat /\ Retains(v, r, x, n)
  BY <1>2, OpenDepth, RetainsAll
<1> HIDE DEF x, s
<1>5. s.stack = Append(x.stack, dst) /\ s.inactive = x.inactive
      /\ Retains(v, x, s, Len(OpenFrames(x)))
  BY <1>1, <1>2, <1>3, CallMoves
<1>6. Standing(v, x) = Standing(v, r)
  BY <1>2, StandingSame
<1>7. Len(OpenFrames(x)) = n
  BY <1>3, <1>6, StandingLength
<1>8. Retains(v, r, s, n)
  BY <1>5, <1>6, <1>7 DEF Retains
<1>9. Append(<<>>, dst) = <<dst>>
  OBVIOUS
<1> QED
  BY <1>2, <1>3, <1>5, <1>8, <1>9 DEF s, n

LEMMA LeaveContextMoves ==
  ASSUME NEW v, NEW r, Good(v, r), NEW time, Now(r, time), NEW dst \in Frames
  PROVE  LET s == LeaveContext(r, time, dst)
             below == Last(r.inactive).stack
         IN  /\ Keeps(v, r, s)
             /\ r.inactive = <<>> => s.stack = <<>> /\ s.inactive = <<>>
             /\ r.inactive # <<>> =>
                  /\ s.stack = Touch(below, dst) /\ s.inactive = Front(r.inactive)
                  /\ below = <<>> \/ Last(below) = dst => Retains(v, r, s, Depth(r))
<1> DEFINE cleared == ClearCallstack(r, time)
           s == LeaveContext(r, time, dst)
           below == Last(r.inactive).stack
<1>1. /\ Keeps(v, r, cleared) /\ cleared.stack = <<>> /\ cleared.inactive = r.inactive
      /\ Retains(v, r, cleared, Depth(r))
  BY ClearCallstackMoves
<1>2. Good(v, cleared) /\ Now(cleared, time) /\ cleared \in ThreadInfo /\ Depth(r) \in Nat
  BY <1>1, NowOn, OpenDepth
<1>3. Keeps(v, r, s)
  BY LeaveContextKeeps
<1>4. CASE r.inactive = <<>>
  <2>1. s = [cleared EXCEPT !.create_time = time]
    BY <1>4, LeaveContextByInactive
  <2> HIDE DEF cleared, s
  <2>2. s.stack = cleared.stack /\ s.inactive = cleared.inactive
    BY <1>2, <2>1 DEF ThreadInfo
  <2> QED
    BY <1>1, <1>3, <1>4, <2>2 DEF s
<1>5. CASE r.inactive # <<>>
  <2> DEFINE x == Resumed(cleared)
  <2>1. s = CheckCurrentSymbol(x, time, dst)
    BY <1>5, LeaveContextByInactive
  <2> HIDE DEF cleared, s
  <2>2. /\ Keeps(v, cleared, x) /\ SameWritten(cleared, x) /\ x.stack = Last(r.inactive).stack
        /\ x.inactive = Front(r.inactive)
        /\ OpenFrames(x) = OpenFrames(cleared)
    BY <1>1, <1>2, <1>5, ResumedKeeps
  <2> HIDE DEF x
  <2>3. Good(v, x) /\ Now(x, time)
    BY <1>2, <2>2, NowOn
  <2>4. /\ s.stack = Touch(x.stack, dst) /\ s.inactive = x.inactive
        /\ x.stack = <<>> \/ Last(x.stack) = dst => Retains(v, x, s, Len(OpenFrames(x)))
    BY <2>1, <2>3, CheckCurrentSymbolMoves
  <2>5. Standing(v, x) = Standing(v, cleared)
    BY <2>2, StandingSame
  <2>6. Len(OpenFrames(x)) = Depth(r)
    <3>1. Len(OpenFrames(cleared)) = Depth(cleared) + Len(cleared.stack) /\ Depth(cleared) \in Nat
      BY <1>2, OpenDepth
    <3>2. Depth(cleared) = Depth(r)
      BY <1>1 DEF Depth
    <3> QED
      BY <1>1, <2>2, <3>1, <3>2
  <2>7. x.stack = <<>> \/ Last(x.stack) = dst => Retains(v, r, s, Depth(r))
    <3> SUFFICES ASSUME Retains(v, x, s, Depth(r)) PROVE Retains(v, r, s, Depth(r))
      BY <2>4, <2>6
    <3>1. Retains(v, cleared, s, Depth(r))
      BY <2>5 DEF Retains
    <3>2. Good(v, s)
      BY <1>3, KeepsFields
    <3> QED
      BY <1>1, <1>2, <3>1, <3>2, RetainsOn
  <2> QED
    BY <1>3, <1>5, <2>2, <2>4, <2>7 DEF s
<1> QED
  BY <1>4, <1>5

LEMMA PopUntracedMoves ==
  ASSUME NEW v, NEW r, Good(v, r), NEW time, Now(r, time)
  PROVE  LET s == PopUntraced(r, time)
         IN  /\ Keeps(v, r, s) /\ s.inactive = r.inactive
             /\ r.stack # <<>> /\ Last(r.stack) = Untraced =>
                  s.stack = Front(r.stack) /\ Retains(v, r, s, Len(OpenFrames(r)) - 1)
             /\ r.stack = <<>> => s.stack = <<>> /\ Retains(v, r, s, Len(OpenFrames(r)))
<1> DEFINE s == PopUntraced(r, time)
<1>1. Keeps(v, r, s) /\ Len(OpenFrames(r)) \in Nat
  BY PopUntracedKeeps, OpenDepth
<1>2. CASE r.stack # <<>> /\ Last(r.stack) = Untraced
  <2>1. s = Ret(r, time)
    BY <1>2 DEF PopUntraced
  <2> QED
    BY <1>1, <1>2, <2>1, RetMoves
<1>3. CASE ~(r.stack # <<>> /\ Last(r.stack) = Untraced)
  <2>1. s = r
    BY <1>3 DEF PopUntraced
  <2> HIDE DEF s
  <2>2. Retains(v, r, s, Len(OpenFrames(r)))
    BY <1>1, <2>1, RetainsAll
  <2> QED
    BY <1>1, <1>3, <2>1, <2>2 DEF s
<1> QED
  BY <1>2, <1>3

-----------------------------------------------------------------------------
(* The contexts of a program, and the callstacks that they match *)

ContextType ==
  [ by        : {"Thread", "End"} \cup Entries,
    frames    : Seq(Frames),
    shown     : Nat,
    forgotten : BOOLEAN,
    spans     : Seq(Span) ]

\* Nothing of the context has been seen.
Unseen(c) == c.shown = Len(c.frames) + 1

\* The innermost context that is no gap, and what is shown of the gap inside it.
Bottom(p) == IF Last(p).by = "End" THEN Len(p) - 1 ELSE Len(p)
Gap(p) == IF Last(p).by = "End" THEN ShownFrames(Last(p)) ELSE <<>>

ContextOK(c) == c.frames # <<>> /\ c.shown \in 1..(Len(c.frames) + 1)

\* The thread itself is the outermost context, and a gap can only be the innermost.
ContextsOK(p) ==
  /\ p \in Seq(ContextType) /\ p # <<>>
  /\ \A i \in DOMAIN p :
       /\ p[i].by = "Thread" <=> i = 1
       /\ p[i].by = "End" => i = Len(p)
       /\ ContextOK(p[i])
  /\ Last(p).by = "End" =>
       Last(p).frames = <<Untraced>> /\ (Unseen(Last(p)) => Unseen(p[Bottom(p)]))

\* The k outermost contexts are forgotten; each other one has its callstack, on which
\* are the frames that the trace has shown of it.
Matches(p, r, k) ==
  /\ k < Bottom(p)
  /\ \A i \in DOMAIN p : (p[i].forgotten <=> i <= k) /\ (i <= k => Unseen(p[i]))
  /\ Len(r.inactive) = Bottom(p) - 1 - k
  /\ \A j \in DOMAIN r.inactive : r.inactive[j].stack = ShownFrames(p[k + j])
  /\ r.stack = ShownFrames(p[Bottom(p)]) \o Gap(p)

\* The frames that are shown of the i outermost contexts.
Flat(p, i) == FlattenSeq([j \in 1..i |-> ShownFrames(p[j])])

\* The spans that were open when a context was entered are open, and are no more than
\* what is shown of the contexts around it.
SpansOK(p, spans) ==
  \A i \in DOMAIN p : IsPrefix(p[i].spans, spans) /\ Len(p[i].spans) <= Len(Flat(p, i - 1))

LEMMA ContextFields ==
  ASSUME NEW c \in ContextType
  PROVE  /\ c.by \in {"Thread", "End"} \cup Entries /\ c.frames \in Seq(Frames)
         /\ c.shown \in Nat /\ c.forgotten \in BOOLEAN /\ c.spans \in Seq(Span)
         /\ \A frames \in Seq(Frames), shown \in Nat :
              [c EXCEPT !.frames = frames, !.shown = shown] \in ContextType
BY DEF ContextType

LEMMA ShownFramesType ==
  ASSUME NEW c \in ContextType, ContextOK(c)
  PROVE  /\ ShownFrames(c) \in Seq(Frames)
         /\ Len(ShownFrames(c)) = Len(c.frames) + 1 - c.shown
         /\ \A i \in 1..(Len(c.frames) + 1 - c.shown) : ShownFrames(c)[i] = c.frames[c.shown + i - 1]
         /\ Unseen(c) <=> ShownFrames(c) = <<>>
         /\ ~Unseen(c) => Last(ShownFrames(c)) = Last(c.frames)
<1>1. c.frames \in Seq(Frames) /\ c.shown \in 1..(Len(c.frames) + 1)
  BY ContextFields DEF ContextOK
<1>2. /\ ShownFrames(c) \in Seq(Frames)
      /\ Len(ShownFrames(c)) = Len(c.frames) + 1 - c.shown
      /\ \A i \in 1..(Len(c.frames) + 1 - c.shown) : ShownFrames(c)[i] = c.frames[c.shown + i - 1]
  BY <1>1 DEF ShownFrames
<1>3. Unseen(c) <=> ShownFrames(c) = <<>>
  BY <1>1, <1>2 DEF Unseen
<1>4. ~Unseen(c) => Last(ShownFrames(c)) = Last(c.frames)
  BY <1>1, <1>2 DEF Unseen, Last
<1> QED
  BY <1>2, <1>3, <1>4

\* p is a sequence of contexts, as the frames of its parts are concerned.
LEMMA FlatStep ==
  ASSUME NEW p \in Seq(ContextType), \A i \in DOMAIN p : ContextOK(p[i]),
         NEW i \in Nat, i < Len(p)
  PROVE  /\ Flat(p, i + 1) = Flat(p, i) \o ShownFrames(p[i + 1])
         /\ Flat(p, i) \in Seq(Frames) /\ Flat(p, i + 1) \in Seq(Frames)
<1> DEFINE parts == [j \in 1..i |-> ShownFrames(p[j])]
           part == ShownFrames(p[i + 1])
<1>1. \A j \in 1..(i + 1) : ShownFrames(p[j]) \in Seq(Frames)
  BY ShownFramesType
<1>2. parts \in Seq(Seq(Frames)) /\ part \in Seq(Frames) /\ Len(parts) = i
  BY <1>1
<1>3. Append(parts, part) = [j \in 1..(i + 1) |-> ShownFrames(p[j])]
  BY <1>2
<1> HIDE DEF parts, part
<1>4. /\ FlattenSeq(Append(parts, part)) = FlattenSeq(parts) \o part
      /\ FlattenSeq(parts) \in Seq(Frames)
  BY <1>2, FlattenOneMore
<1> QED
  BY <1>2, <1>3, <1>4, ConcatType DEF Flat, parts, part

LEMMA FlatNone ==
  ASSUME NEW p
  PROVE  Flat(p, 0) = <<>>
<1>1. [j \in 1..0 |-> ShownFrames(p[j])] = <<>>
  OBVIOUS
<1> QED
  BY <1>1, FlattenNothing DEF Flat

LEMMA FlatSame ==
  ASSUME NEW p, NEW q, NEW i \in Nat, \A j \in 1..i : ShownFrames(p[j]) = ShownFrames(q[j])
  PROVE  Flat(p, i) = Flat(q, i)
<1>1. [j \in 1..i |-> ShownFrames(p[j])] = [j \in 1..i |-> ShownFrames(q[j])]
  OBVIOUS
<1> QED
  BY <1>1 DEF Flat

LEMMA FlatType ==
  ASSUME NEW p \in Seq(ContextType), \A i \in DOMAIN p : ContextOK(p[i]),
         NEW i \in 0..Len(p)
  PROVE  Flat(p, i) \in Seq(Frames)
<1>1. CASE i = 0
  BY <1>1, FlatNone, ConcatEmpty
<1>2. CASE i # 0
  <2>1. i - 1 \in Nat /\ i - 1 < Len(p) /\ (i - 1) + 1 = i
    BY <1>2
  <2> QED
    BY <2>1, FlatStep
<1> QED
  BY <1>1, <1>2

\* Of what is around a context, no more is shown than of what is around an inner one.
LEMMA FlatGrows ==
  ASSUME NEW p \in Seq(ContextType), \A i \in DOMAIN p : ContextOK(p[i]),
         NEW i \in Nat
  PROVE  \A j \in Nat : i <= j /\ j <= Len(p) => Len(Flat(p, i)) <= Len(Flat(p, j))
<1> DEFINE S == {j \in Nat : i <= j /\ j <= Len(p) => Len(Flat(p, i)) <= Len(Flat(p, j))}
<1>1. 0 \in S
  <2> SUFFICES ASSUME i <= 0 PROVE Len(Flat(p, i)) <= Len(Flat(p, 0))
    OBVIOUS
  <2>1. i = 0 /\ Len(Flat(p, 0)) \in Nat
    BY FlatNone
  <2> QED
    BY <2>1
<1>2. ASSUME NEW j \in Nat, j \in S PROVE j + 1 \in S
  <2> SUFFICES ASSUME i <= j + 1, j + 1 <= Len(p)
               PROVE  Len(Flat(p, i)) <= Len(Flat(p, j + 1))
    OBVIOUS
  <2>1. Flat(p, j + 1) = Flat(p, j) \o ShownFrames(p[j + 1]) /\ Flat(p, j) \in Seq(Frames)
        /\ Flat(p, j + 1) \in Seq(Frames)
    BY FlatStep, SMTT(30)
  <2>2. ShownFrames(p[j + 1]) \in Seq(Frames)
    BY ShownFramesType
  <2>3. Len(Flat(p, j)) <= Len(Flat(p, j + 1))
    BY <2>1, <2>2
  <2>4. i <= j => Len(Flat(p, i)) <= Len(Flat(p, j))
    BY <1>2
  <2>5. Len(Flat(p, i)) \in Nat
    BY FlatType
  <2>6. CASE i <= j
    BY <2>1, <2>3, <2>4, <2>5, <2>6
  <2>7. CASE ~(i <= j)
    <3>1. i = j + 1
      BY <2>7
    <3> QED
      BY <2>5, <3>1
  <2> QED
    BY <2>6, <2>7
<1> HIDE DEF S
<1>3. \A j \in Nat : j \in S
  BY <1>1, <1>2, RF!Induction
<1> QED
  BY <1>3 DEF S

\* Nothing is shown of contexts of which nothing is seen.
LEMMA FlatUnseen ==
  ASSUME NEW p \in Seq(ContextType), \A i \in DOMAIN p : ContextOK(p[i]),
         NEW k \in 0..Len(p), \A i \in 1..k : Unseen(p[i])
  PROVE  \A j \in 0..k : Flat(p, j) = <<>>
<1> DEFINE S == {j \in Nat : j <= k => Flat(p, j) = <<>>}
<1>1. 0 \in S
  BY FlatNone
<1>2. ASSUME NEW j \in Nat, j \in S PROVE j + 1 \in S
  <2> SUFFICES ASSUME j + 1 <= k PROVE Flat(p, j + 1) = <<>>
    OBVIOUS
  <2>1. Flat(p, j + 1) = Flat(p, j) \o ShownFrames(p[j + 1])
    BY FlatStep
  <2>2. ShownFrames(p[j + 1]) = <<>>
    BY ShownFramesType
  <2>3. Flat(p, j) = <<>>
    BY <1>2
  <2> QED
    BY <2>1, <2>2, <2>3
<1> HIDE DEF S
<1>3. \A j \in Nat : j \in S
  BY <1>1, <1>2, RF!Induction
<1> QED
  BY <1>3 DEF S

LEMMA BottomOf ==
  ASSUME NEW p, ContextsOK(p)
  PROVE  /\ p \in Seq(ContextType) /\ Len(p) \in Nat \ {0} /\ Last(p) = p[Len(p)]
         /\ \A i \in 1..Len(p) : p[i] \in ContextType /\ ContextOK(p[i])
         /\ \A i \in DOMAIN p : ContextOK(p[i])
         /\ Bottom(p) \in 1..Len(p)
         /\ Last(p).by = "End" => Bottom(p) = Len(p) - 1 /\ Gap(p) = ShownFrames(p[Len(p)])
         /\ Last(p).by # "End" => Bottom(p) = Len(p) /\ Gap(p) = <<>>
         /\ Gap(p) \in Seq(Frames)
<1>1. /\ p \in Seq(ContextType) /\ Len(p) \in Nat \ {0} /\ Last(p) = p[Len(p)]
      /\ \A i \in 1..Len(p) : p[i] \in ContextType /\ ContextOK(p[i])
      /\ \A i \in DOMAIN p : ContextOK(p[i])
  BY DEF ContextsOK, Last
<1>2. Last(p).by = "End" => Len(p) # 1
  BY <1>1 DEF ContextsOK
<1>3. ShownFrames(p[Len(p)]) \in Seq(Frames)
  BY <1>1, ShownFramesType
<1>4. CASE Last(p).by = "End"
  <2>1. Bottom(p) = Len(p) - 1 /\ Gap(p) = ShownFrames(p[Len(p)])
    BY <1>1, <1>4 DEF Bottom, Gap
  <2>2. Len(p) - 1 \in 1..Len(p)
    <3> DEFINE n == Len(p)
    <3>1. n \in Nat \ {0} /\ n # 1
      BY <1>1, <1>2, <1>4
    <3> HIDE DEF n
    <3>2. n - 1 \in 1..n
      BY <3>1
    <3> QED
      BY <3>2 DEF n
  <2> QED
    BY <1>1, <1>3, <1>4, <2>1, <2>2
<1>5. CASE Last(p).by # "End"
  <2>1. Bottom(p) = Len(p) /\ Gap(p) = <<>> /\ Len(p) \in 1..Len(p)
    BY <1>1, <1>5 DEF Bottom, Gap
  <2> QED
    BY <1>1, <1>5, <2>1, ConcatEmpty
<1> QED
  BY <1>4, <1>5

\* The callstacks that are inactive are what is shown around the innermost context, and
\* with the current one they are all that is shown.
LEMMA FlatOpen ==
  ASSUME NEW p, ContextsOK(p), NEW r \in ThreadInfo, NEW k \in Nat, Matches(p, r, k)
  PROVE  /\ Flat(p, Bottom(p) - 1) = OuterFrames(r.inactive)
         /\ Flat(p, Len(p)) = OpenFrames(r)
<1> DEFINE inactive == r.inactive
           m == Len(inactive)
           S == {j \in Nat : j <= m => Flat(p, k + j) = OuterFrames(SubSeq(inactive, 1, j))}
<1>1. /\ p \in Seq(ContextType) /\ Len(p) \in Nat \ {0}
      /\ \A i \in 1..Len(p) : p[i] \in ContextType /\ ContextOK(p[i])
      /\ \A i \in DOMAIN p : ContextOK(p[i])
      /\ Bottom(p) \in 1..Len(p)
  BY BottomOf
<1>2. /\ inactive \in Seq(Callstack) /\ k < Bottom(p) /\ m = Bottom(p) - 1 - k
      /\ \A i \in 1..k : Unseen(p[i])
      /\ \A j \in 1..m : inactive[j].stack = ShownFrames(p[k + j])
      /\ r.stack = ShownFrames(p[Bottom(p)]) \o Gap(p)
  BY <1>1, ThreadInfoFields DEF Matches
<1> HIDE DEF inactive
<1>3. 0 \in S
  <2>1. SubSeq(inactive, 1, 0) = <<>>
    BY <1>2
  <2>2. Flat(p, k) = <<>>
    <3>1. k \in 0..Len(p) /\ k \in 0..k
      BY <1>1, <1>2
    <3> QED
      BY <1>1, <1>2, <3>1, FlatUnseen
  <2>3. k + 0 = k
    OBVIOUS
  <2> QED
    BY <2>1, <2>2, <2>3, OuterFramesNone
<1>4. ASSUME NEW j \in Nat, j \in S PROVE j + 1 \in S
  <2> SUFFICES ASSUME j + 1 <= m
               PROVE  Flat(p, k + (j + 1)) = OuterFrames(SubSeq(inactive, 1, j + 1))
    OBVIOUS
  <2> DEFINE some == SubSeq(inactive, 1, j)
             c == inactive[j + 1]
  <2>1. some \in Seq(Callstack) /\ c \in Callstack /\ SubSeq(inactive, 1, j + 1) = Append(some, c)
    BY <1>2
  <2>2. c.stack = ShownFrames(p[(k + j) + 1])
    BY <1>2
  <2> HIDE DEF some, c
  <2>3. OuterFrames(Append(some, c)) = OuterFrames(some) \o c.stack
    BY <2>1, OuterFramesOneMore
  <2>4. Flat(p, (k + j) + 1) = Flat(p, k + j) \o ShownFrames(p[(k + j) + 1])
    <3>1. k + j \in Nat /\ k + j < Len(p)
      BY <1>1, <1>2
    <3> QED
      BY <1>1, <3>1, FlatStep
  <2>5. Flat(p, k + j) = OuterFrames(some)
    BY <1>4 DEF some
  <2>6. k + (j + 1) = (k + j) + 1
    OBVIOUS
  <2> QED
    BY <2>1, <2>2, <2>3, <2>4, <2>5, <2>6
<1> HIDE DEF S
<1>5. m \in S
  <2>1. \A j \in Nat : j \in S
    BY <1>3, <1>4, RF!Induction
  <2>2. m \in Nat
    BY <1>2
  <2> QED
    BY <2>1, <2>2
<1>6. Flat(p, Bottom(p) - 1) = OuterFrames(inactive)
  <2>1. SubSeq(inactive, 1, m) = inactive /\ k + m = Bottom(p) - 1
    BY <1>1, <1>2
  <2>2. m \in Nat /\ m <= m
    BY <1>2
  <2> HIDE DEF m
  <2>3. Flat(p, k + m) = OuterFrames(SubSeq(inactive, 1, m))
    BY <1>5, <2>2 DEF S
  <2> QED
    BY <2>1, <2>3
<1>7. OpenFrames(r) = OuterFrames(inactive) \o r.stack /\ OuterFrames(inactive) \in Seq(Frames)
  BY OpenFramesSplit DEF inactive
<1>8. Flat(p, Bottom(p)) = OuterFrames(inactive) \o ShownFrames(p[Bottom(p)])
  <2>1. Bottom(p) - 1 \in Nat /\ Bottom(p) - 1 < Len(p) /\ (Bottom(p) - 1) + 1 = Bottom(p)
    BY <1>1
  <2>2. Flat(p, (Bottom(p) - 1) + 1) = Flat(p, Bottom(p) - 1) \o ShownFrames(p[(Bottom(p) - 1) + 1])
    BY <1>1, <2>1, FlatStep
  <2> QED
    BY <1>6, <2>1, <2>2
<1>9. ShownFrames(p[Bottom(p)]) \in Seq(Frames) /\ Gap(p) \in Seq(Frames)
  BY <1>1, ShownFramesType, BottomOf
<1>10. Flat(p, Bottom(p)) \o Gap(p) = OpenFrames(r)
  BY <1>2, <1>7, <1>8, <1>9, ConcatAssociates, SMTT(30)
<1>11. Flat(p, Len(p)) = Flat(p, Bottom(p)) \o Gap(p)
  <2>1. CASE Last(p).by = "End"
    <3>1. Bottom(p) + 1 = Len(p) /\ Bottom(p) \in Nat /\ Bottom(p) < Len(p)
          /\ Gap(p) = ShownFrames(p[Len(p)])
      BY <1>1, <2>1, BottomOf
    <3>2. Flat(p, Bottom(p) + 1) = Flat(p, Bottom(p)) \o ShownFrames(p[Bottom(p) + 1])
      BY <1>1, <3>1, FlatStep
    <3> QED
      BY <3>1, <3>2
  <2>2. CASE Last(p).by # "End"
    <3>1. Bottom(p) = Len(p) /\ Gap(p) = <<>>
      BY <2>2, BottomOf
    <3>2. Flat(p, Len(p)) \in Seq(Frames)
      BY <1>1, FlatType
    <3> QED
      BY <3>1, <3>2, ConcatEmpty
  <2> QED
    BY <2>1, <2>2
<1> QED
  BY <1>6, <1>10, <1>11 DEF inactive

\* The contexts of q up to m are those of p, as are the spans when they were entered;
\* of the spans that were open then, none is closed.
LEMMA SpansKept ==
  ASSUME NEW p, ContextsOK(p), NEW x \in Seq(Span), SpansOK(p, x), NEW y \in Seq(Span),
         NEW m \in 1..Len(p), NEW q,
         \A i \in 1..m : q[i].spans = p[i].spans,
         \A i \in 1..(m - 1) : ShownFrames(q[i]) = ShownFrames(p[i]),
         Agree(x, y, Len(Flat(p, m - 1)))
  PROVE  \A i \in 1..m : IsPrefix(q[i].spans, y) /\ Len(q[i].spans) <= Len(Flat(q, i - 1))
<1> SUFFICES ASSUME NEW i \in 1..m
             PROVE  IsPrefix(q[i].spans, y) /\ Len(q[i].spans) <= Len(Flat(q, i - 1))
  OBVIOUS
<1>1. /\ p \in Seq(ContextType) /\ i \in 1..Len(p) /\ i \in DOMAIN p
      /\ \A j \in 1..Len(p) : p[j] \in ContextType /\ ContextOK(p[j])
      /\ \A j \in DOMAIN p : ContextOK(p[j])
  BY BottomOf
<1>2. Flat(q, i - 1) = Flat(p, i - 1)
  <2>1. i - 1 \in Nat /\ \A j \in 1..(i - 1) : ShownFrames(p[j]) = ShownFrames(q[j])
    OBVIOUS
  <2> QED
    BY <2>1, FlatSame
<1>3. Len(Flat(p, i - 1)) <= Len(Flat(p, m - 1)) /\ Len(Flat(p, m - 1)) \in Nat
      /\ Len(Flat(p, i - 1)) \in Nat
  <2>1. i - 1 \in Nat /\ m - 1 \in Nat /\ i - 1 <= m - 1 /\ m - 1 <= Len(p)
        /\ m - 1 \in 0..Len(p) /\ i - 1 \in 0..Len(p)
    BY <1>1
  <2> QED
    BY <1>1, <2>1, FlatGrows, FlatType, SMTT(30)
<1>4. /\ p[i].spans \in Seq(Span) /\ IsPrefix(p[i].spans, x)
      /\ Len(p[i].spans) <= Len(Flat(p, i - 1))
  BY <1>1, ContextFields DEF SpansOK
<1>5. Len(p[i].spans) <= Len(Flat(p, m - 1))
  BY <1>3, <1>4
<1>6. IsPrefix(p[i].spans, y)
  BY <1>3, <1>4, <1>5, AgreePrefix
<1> QED
  BY <1>2, <1>4, <1>6

-----------------------------------------------------------------------------
(* Steps of a program that keep its callstacks matched *)

Reflects(p, r, spans) ==
  /\ ContextsOK(p) /\ SpansOK(p, spans)
  /\ \E k \in Nat : Matches(p, r, k)

LEMMA FrontParts ==
  ASSUME NEW T, NEW p \in Seq(T), p # <<>>
  PROVE  /\ Front(p) \in Seq(T) /\ Len(Front(p)) = Len(p) - 1 /\ Last(p) = p[Len(p)]
         /\ Len(p) \in Nat \ {0}
         /\ \A i \in 1..(Len(p) - 1) : Front(p)[i] = p[i]
<1> DEFINE f == Front(p)
           l == Last(p)
<1>1. f \in Seq(T) /\ l \in T /\ p = Append(f, l) /\ l = p[Len(p)]
  BY FrontLast DEF Last
<1> HIDE DEF f, l
<1>2. /\ Len(f) = Len(p) - 1 /\ Len(p) \in Nat \ {0}
      /\ \A i \in 1..(Len(p) - 1) : f[i] = p[i]
  BY <1>1
<1> QED
  BY <1>1, <1>2 DEF f, l

\* q is p with c in place of its last element, of its last two, or after them.
Replaces(q, p, c)    == q = Append(Front(p), c)
ReplacesTwo(q, p, c) == q = Append(Front(Front(p)), c)
Adds(q, p, c)        == q = Append(p, c)

LEMMA TopReplaced ==
  ASSUME NEW T, NEW p \in Seq(T), p # <<>>, NEW c \in T, NEW q, Replaces(q, p, c)
  PROVE  /\ q \in Seq(T) /\ Len(q) = Len(p) /\ q[Len(p)] = c
         /\ \A i \in 1..(Len(p) - 1) : q[i] = p[i]
BY FrontParts DEF Replaces

LEMMA TopAdded ==
  ASSUME NEW T, NEW p \in Seq(T), NEW c \in T, NEW q, Adds(q, p, c)
  PROVE  /\ q \in Seq(T) /\ Len(q) = Len(p) + 1 /\ q[Len(p) + 1] = c
         /\ \A i \in 1..Len(p) : q[i] = p[i]
BY DEF Adds

LEMMA TwoReplaced ==
  ASSUME NEW T, NEW p \in Seq(T), Len(p) > 1, NEW c \in T, NEW q, ReplacesTwo(q, p, c)
  PROVE  /\ q \in Seq(T) /\ Len(q) = Len(p) - 1 /\ q[Len(p) - 1] = c
         /\ \A i \in 1..(Len(p) - 2) : q[i] = p[i]
         /\ Last(Front(p)) = p[Len(p) - 1]
<1> DEFINE f == Front(p)
<1>1. p # <<>>
  OBVIOUS
<1>2. /\ f \in Seq(T) /\ Len(f) = Len(p) - 1
      /\ \A i \in 1..(Len(p) - 1) : f[i] = p[i]
  BY <1>1, FrontParts
<1> HIDE DEF f
<1>3. f # <<>> /\ Len(p) - 1 \in 1..(Len(p) - 1)
  BY <1>2
<1>4. Last(f) = p[Len(p) - 1]
  BY <1>2, <1>3, FrontParts
<1>5. Replaces(q, f, c)
  BY DEF f, Replaces, ReplacesTwo
<1>6. /\ q \in Seq(T) /\ Len(q) = Len(f) /\ q[Len(f)] = c
      /\ \A i \in 1..(Len(f) - 1) : q[i] = f[i]
  BY <1>2, <1>3, <1>5, TopReplaced
<1> QED
  BY <1>2, <1>4, <1>6 DEF f

LEMMA LastOf ==
  ASSUME NEW T, NEW q \in Seq(T), NEW n \in Nat \ {0}, Len(q) = n
  PROVE  q # <<>> /\ Last(q) = q[n] /\ DOMAIN q = 1..n
BY DEF Last

\* The innermost context goes on, and its callstack with it.
LEMMA TopChanges ==
  ASSUME NEW p, NEW r \in ThreadInfo, NEW s \in ThreadInfo,
         NEW x \in Seq(Span), NEW y \in Seq(Span), Reflects(p, r, x),
         NEW c \in ContextType, ContextOK(c), c.by = Last(p).by,
         c.forgotten = Last(p).forgotten, c.spans = Last(p).spans,
         Last(p).by = "End" => c.frames = <<Untraced>> /\ ~Unseen(c),
         s.inactive = r.inactive,
         Last(p).by = "End" => s.stack = ShownFrames(p[Bottom(p)]) \o ShownFrames(c),
         Last(p).by # "End" => s.stack = ShownFrames(c),
         Agree(x, y, Len(Flat(p, Len(p) - 1)))
  PROVE  Reflects(Append(Front(p), c), s, y)
<1> DEFINE q == Append(Front(p), c)
           n == Len(p)
<1>1. /\ ContextsOK(p) /\ SpansOK(p, x) /\ p \in Seq(ContextType) /\ p # <<>>
      /\ n \in Nat \ {0} /\ Last(p) = p[n] /\ Bottom(p) \in 1..n
      /\ DOMAIN p = 1..n
      /\ Last(p).by = "End" => Bottom(p) = n - 1
      /\ Last(p).by # "End" => Bottom(p) = n
  BY BottomOf DEF Reflects, ContextsOK
<1>2. PICK k \in Nat : Matches(p, r, k)
  BY DEF Reflects
<1>0. Replaces(q, p, c)
  BY DEF Replaces
<1> HIDE DEF q
<1>3. /\ q \in Seq(ContextType) /\ Len(q) = n /\ q[n] = c
      /\ \A i \in 1..(n - 1) : q[i] = p[i]
  <2>1. p \in Seq(ContextType) /\ p # <<>>
    BY <1>1
  <2> QED
    BY <1>0, <2>1, TopReplaced DEF n
<1> HIDE DEF n
<1>4. q # <<>> /\ Last(q) = c /\ DOMAIN q = 1..n
  BY <1>1, <1>3, LastOf
<1>5. Bottom(q) = Bottom(p)
  BY <1>1, <1>3, <1>4 DEF Bottom
<1>6. Gap(q) = IF Last(p).by = "End" THEN ShownFrames(c) ELSE <<>>
  BY <1>4 DEF Gap
<1>7. ContextsOK(q)
  <2>1. ASSUME NEW i \in 1..n
        PROVE  /\ q[i].by = "Thread" <=> i = 1
               /\ q[i].by = "End" => i = n
               /\ ContextOK(q[i])
    <3>1. /\ p[i].by = "Thread" <=> i = 1
          /\ p[i].by = "End" => i = n
          /\ ContextOK(p[i])
      BY <1>1 DEF ContextsOK, n
    <3>2. CASE i = n
      BY <1>1, <1>3, <3>1, <3>2
    <3>3. CASE i # n
      <4>1. q[i] = p[i]
        BY <1>1, <1>3, <3>3
      <4> QED
        BY <3>1, <4>1
    <3> QED
      BY <3>2, <3>3
  <2> QED
    BY <1>3, <1>4, <2>1 DEF ContextsOK
<1>8. Matches(q, s, k)
  <2>1. /\ k < Bottom(p)
        /\ \A i \in 1..n : (p[i].forgotten <=> i <= k) /\ (i <= k => Unseen(p[i]))
        /\ Len(r.inactive) = Bottom(p) - 1 - k
        /\ \A j \in DOMAIN r.inactive : r.inactive[j].stack = ShownFrames(p[k + j])
    BY <1>1, <1>2 DEF Matches
  <2>2. ASSUME NEW i \in 1..n
        PROVE  (q[i].forgotten <=> i <= k) /\ (i <= k => Unseen(q[i]))
    <3>1. CASE i = n
      BY <1>1, <1>3, <2>1, <3>1
    <3>2. CASE i # n
      <4>1. q[i] = p[i]
        BY <1>1, <1>3, <3>2
      <4> QED
        BY <2>1, <4>1
    <3> QED
      BY <3>1, <3>2
  <2>3. ASSUME NEW j \in DOMAIN s.inactive
        PROVE  s.inactive[j].stack = ShownFrames(q[k + j])
    <3>1. r.inactive \in Seq(Callstack)
      BY ThreadInfoFields
    <3>2. j \in DOMAIN r.inactive /\ k + j \in 1..(n - 1)
      <4>1. j \in 1..Len(r.inactive) /\ Len(r.inactive) = Bottom(p) - 1 - k
        BY <2>1, <3>1
      <4>2. n \in Nat /\ Bottom(p) \in 1..n
        BY <1>1
      <4> HIDE DEF n
      <4> QED
        BY <3>1, <4>1, <4>2, SMTT(30)
    <3> QED
      BY <1>3, <2>1, <3>2
  <2>4. s.stack = ShownFrames(q[Bottom(q)]) \o Gap(q)
    <3>1. CASE Last(p).by = "End"
      <4>1. q[Bottom(q)] = p[Bottom(p)]
        BY <1>1, <1>3, <1>5, <3>1
      <4> QED
        BY <1>6, <3>1, <4>1
    <3>2. CASE Last(p).by # "End"
      <4>1. q[Bottom(q)] = c
        BY <1>1, <1>3, <1>5, <3>2
      <4>2. ShownFrames(c) \o <<>> = ShownFrames(c)
        BY ShownFramesType, ConcatEmpty
      <4> QED
        BY <1>6, <3>2, <4>1, <4>2
    <3> QED
      BY <3>1, <3>2
  <2> QED
    BY <1>4, <1>5, <2>1, <2>2, <2>3, <2>4 DEF Matches
<1>9. SpansOK(q, y)
  <2>1. \A i \in 1..n : q[i].spans = p[i].spans
    <3> SUFFICES ASSUME NEW i \in 1..n PROVE q[i].spans = p[i].spans
      OBVIOUS
    <3>1. CASE i = n
      BY <1>1, <1>3, <3>1
    <3>2. CASE i # n
      BY <1>1, <1>3, <3>2
    <3> QED
      BY <3>1, <3>2
  <2>2. \A i \in 1..(n - 1) : ShownFrames(q[i]) = ShownFrames(p[i])
    BY <1>3
  <2>3. n \in 1..Len(p) /\ Agree(x, y, Len(Flat(p, n - 1)))
    BY <1>1 DEF n
  <2>4. \A i \in 1..n : IsPrefix(q[i].spans, y) /\ Len(q[i].spans) <= Len(Flat(q, i - 1))
    BY <1>1, <2>1, <2>2, <2>3, SpansKept
  <2> QED
    BY <1>4, <2>4 DEF SpansOK
<1> QED
  BY <1>7, <1>8, <1>9 DEF Reflects, q

LEMMA ContextAdded ==
  ASSUME NEW p, NEW r \in ThreadInfo, NEW x \in Seq(Span), NEW y \in Seq(Span),
         Reflects(p, r, x), Last(p).by # "End",
         NEW c \in ContextType, ContextOK(c), c.by # "Thread", c.spans = x,
         c.by = "End" => c.frames = <<Untraced>> /\ ~Unseen(c),
         Len(x) = Len(OpenFrames(r)), Agree(x, y, Len(OpenFrames(r))),
         NEW q, Adds(q, p, c)
  PROVE  ContextsOK(q) /\ SpansOK(q, y)
<1> DEFINE n == Len(p)
<1>1. /\ ContextsOK(p) /\ SpansOK(p, x) /\ p \in Seq(ContextType)
      /\ n \in Nat \ {0} /\ Last(p) = p[n]
      /\ \A i \in DOMAIN p : ContextOK(p[i])
  BY BottomOf DEF Reflects
<1>2. PICK k \in Nat : Matches(p, r, k)
  BY DEF Reflects
<1>3. /\ q \in Seq(ContextType) /\ Len(q) = n + 1 /\ q[n + 1] = c
      /\ \A i \in 1..n : q[i] = p[i]
  BY <1>1, TopAdded
<1>4. q # <<>> /\ Last(q) = c /\ DOMAIN q = 1..(n + 1)
  <2>1. n + 1 \in Nat \ {0}
    BY <1>1
  <2> QED
    BY <1>3, <2>1, LastOf
<1>5. ContextsOK(q)
  <2>1. ASSUME NEW i \in 1..(n + 1)
        PROVE  /\ q[i].by = "Thread" <=> i = 1
               /\ q[i].by = "End" => i = n + 1
               /\ ContextOK(q[i])
    <3>1. CASE i = n + 1
      BY <1>1, <1>3, <3>1
    <3>2. CASE i # n + 1
      <4>1. i \in 1..n /\ q[i] = p[i]
        BY <1>1, <1>3, <3>2
      <4>2. /\ p[i].by = "Thread" <=> i = 1
            /\ p[i].by = "End" => i = n
            /\ ContextOK(p[i])
        BY <1>1, <4>1 DEF ContextsOK
      <4>3. p[i].by # "End"
        BY <1>1, <4>2
      <4> QED
        BY <4>1, <4>2, <4>3
    <3> QED
      BY <3>1, <3>2
  <2>2. Last(q).by = "End" =>
          Last(q).frames = <<Untraced>> /\ (Unseen(Last(q)) => Unseen(q[Bottom(q)]))
    BY <1>4
  <2> QED
    BY <1>3, <1>4, <2>1, <2>2 DEF ContextsOK
<1>6. Flat(p, n) = OpenFrames(r)
  BY <1>1, <1>2, FlatOpen
<1>7. Flat(q, n) = OpenFrames(r)
  <2>1. n \in Nat /\ \A j \in 1..n : ShownFrames(p[j]) = ShownFrames(q[j])
    BY <1>1, <1>3
  <2>2. Flat(p, n) = Flat(q, n)
    BY <2>1, FlatSame
  <2> QED
    BY <1>6, <2>2
<1>8. SpansOK(q, y)
  <2>1. Agree(x, y, Len(Flat(p, n - 1)))
    <3>1. n - 1 \in Nat /\ n \in Nat /\ n - 1 <= n /\ n <= Len(p)
          /\ n - 1 \in 0..Len(p) /\ n \in 0..Len(p)
      BY <1>1
    <3>2. /\ Len(Flat(p, n - 1)) <= Len(Flat(p, n))
          /\ Len(Flat(p, n - 1)) \in Nat /\ Len(Flat(p, n)) \in Nat
      BY <1>1, <3>1, FlatGrows, FlatType
    <3>3. Len(Flat(p, n - 1)) \in 0..Len(OpenFrames(r)) /\ Len(OpenFrames(r)) \in Nat
      BY <1>6, <3>2
    <3> QED
      BY <3>3, AgreeOn
  <2>2. \A i \in 1..n : IsPrefix(q[i].spans, y) /\ Len(q[i].spans) <= Len(Flat(q, i - 1))
    <3>1. n \in 1..Len(p) /\ \A i \in 1..n : q[i].spans = p[i].spans
      BY <1>1, <1>3
    <3>2. \A i \in 1..(n - 1) : ShownFrames(q[i]) = ShownFrames(p[i])
      BY <1>1, <1>3
    <3> QED
      BY <1>1, <2>1, <3>1, <3>2, SpansKept
  <2>3. IsPrefix(x, y)
    <3>1. IsPrefix(x, x)
      BY DEF IsPrefix
    <3>2. Len(x) \in Nat /\ Len(x) <= Len(x) /\ Agree(x, y, Len(x))
      OBVIOUS
    <3> QED
      BY <3>1, <3>2, AgreePrefix
  <2>4. Len(x) <= Len(Flat(q, n))
    <3>1. Len(x) \in Nat
      OBVIOUS
    <3> QED
      BY <1>7, <3>1
  <2>5. ASSUME NEW i \in 1..(n + 1)
        PROVE  IsPrefix(q[i].spans, y) /\ Len(q[i].spans) <= Len(Flat(q, i - 1))
    <3>1. CASE i = n + 1
      <4>1. i - 1 = n /\ q[i].spans = x
        BY <1>1, <1>3, <3>1
      <4> QED
        BY <2>3, <2>4, <4>1
    <3>2. CASE i # n + 1
      <4>1. i \in 1..n
        BY <1>1, <3>2
      <4> QED
        BY <2>2, <4>1
    <3> QED
      BY <3>1, <3>2
  <2> QED
    BY <1>4, <2>5 DEF SpansOK
<1> QED
  BY <1>5, <1>8

\* The kernel is entered: the current callstack is put aside for one of its own.
LEMMA KernelEntered ==
  ASSUME NEW p, NEW r \in ThreadInfo, NEW s \in ThreadInfo,
         NEW x \in Seq(Span), NEW y \in Seq(Span), Reflects(p, r, x), Last(p).by # "End",
         NEW c \in ContextType, ContextOK(c), c.by \notin {"Thread", "End"}, c.spans = x,
         c.forgotten = FALSE,
         Len(x) = Len(OpenFrames(r)), Agree(x, y, Len(OpenFrames(r))),
         s.inactive = Append(r.inactive, [stack |-> r.stack, create_time |-> r.create_time]),
         s.stack = ShownFrames(c),
         NEW q, Adds(q, p, c)
  PROVE  Reflects(q, s, y)
<1> DEFINE n == Len(p)
           aside == [stack |-> r.stack, create_time |-> r.create_time]
<1>1. /\ ContextsOK(p) /\ p \in Seq(ContextType) /\ n \in Nat \ {0} /\ Last(p) = p[n]
      /\ Bottom(p) = n /\ Gap(p) = <<>>
      /\ \A i \in 1..n : p[i] \in ContextType /\ ContextOK(p[i])
  BY BottomOf DEF Reflects
<1>2. PICK k \in Nat : Matches(p, r, k)
  BY DEF Reflects
<1>3. /\ q \in Seq(ContextType) /\ Len(q) = n + 1 /\ q[n + 1] = c
      /\ \A i \in 1..n : q[i] = p[i]
  BY <1>1, TopAdded
<1>4. q # <<>> /\ Last(q) = c /\ DOMAIN q = 1..(n + 1)
  <2>1. n + 1 \in Nat \ {0}
    BY <1>1
  <2> QED
    BY <1>3, <2>1, LastOf
<1>5. ContextsOK(q) /\ SpansOK(q, y)
  BY ContextAdded
<1>6. Bottom(q) = n + 1 /\ Gap(q) = <<>>
  BY <1>3, <1>4 DEF Bottom, Gap
<1>7. /\ k < n /\ Len(r.inactive) = n - 1 - k /\ r.inactive \in Seq(Callstack)
      /\ \A i \in 1..n : (p[i].forgotten <=> i <= k) /\ (i <= k => Unseen(p[i]))
      /\ \A j \in DOMAIN r.inactive : r.inactive[j].stack = ShownFrames(p[k + j])
      /\ r.stack = ShownFrames(p[n]) \o <<>>
  BY <1>1, <1>2, ThreadInfoFields DEF Matches
<1>8. r.stack = ShownFrames(p[n])
  BY <1>1, <1>7, ShownFramesType, ConcatEmpty
<1>9. /\ Len(s.inactive) = n - k /\ DOMAIN s.inactive = 1..(n - k)
      /\ s.inactive[n - k].stack = r.stack
      /\ \A j \in 1..(n - 1 - k) : s.inactive[j] = r.inactive[j]
  <2>1. aside \in Callstack /\ aside.stack = r.stack
    BY ThreadInfoFields DEF Callstack
  <2> HIDE DEF aside
  <2>2. s.inactive = Append(r.inactive, aside)
    BY DEF aside
  <2>3. n \in Nat
    BY <1>1
  <2> HIDE DEF n
  <2> QED
    BY <1>7, <2>1, <2>2, <2>3
<1> HIDE DEF n
<1>10. ASSUME NEW i \in 1..(n + 1)
       PROVE  (q[i].forgotten <=> i <= k) /\ (i <= k => Unseen(q[i]))
  <2>1. CASE i = n + 1
    BY <1>1, <1>3, <1>7, <2>1
  <2>2. CASE i # n + 1
    <3>1. i \in 1..n /\ q[i] = p[i]
      BY <1>1, <1>3, <2>2
    <3> QED
      BY <1>7, <3>1
  <2> QED
    BY <2>1, <2>2
<1>11. ASSUME NEW j \in 1..(n - k)
       PROVE  s.inactive[j].stack = ShownFrames(q[k + j])
  <2>1. CASE j = n - k
    <3>1. k + j = n /\ n \in 1..n
      BY <1>1, <1>2, <1>7, <2>1
    <3> QED
      <4>1. s.inactive[j].stack = r.stack
        BY <1>9, <2>1
      <4>2. q[k + j] = p[n]
        BY <1>3, <3>1
      <4> QED
        BY <1>8, <4>1, <4>2
  <2>2. CASE j # n - k
    <3>1. j \in 1..(n - 1 - k) /\ k + j \in 1..n /\ j \in DOMAIN r.inactive
      BY <1>1, <1>2, <1>7, <2>2, SMTT(30)
    <3> QED
      BY <1>3, <1>7, <1>9, <3>1
  <2> QED
    BY <2>1, <2>2
<1>12. s.stack = ShownFrames(q[Bottom(q)]) \o Gap(q)
  <2>1. ShownFrames(c) \o <<>> = ShownFrames(c)
    BY ShownFramesType, ConcatEmpty
  <2> QED
    BY <1>3, <1>6, <2>1
<1>13. k < Bottom(q) /\ Len(s.inactive) = Bottom(q) - 1 - k
  BY <1>1, <1>6, <1>7, <1>9
<1>14. Matches(q, s, k)
  BY <1>4, <1>9, <1>10, <1>11, <1>12, <1>13 DEF Matches
<1> QED
  BY <1>5, <1>14 DEF Reflects

\* The trace is lost: a frame for the gap joins the current callstack.
LEMMA TraceLost ==
  ASSUME NEW p, NEW r \in ThreadInfo, NEW s \in ThreadInfo,
         NEW x \in Seq(Span), NEW y \in Seq(Span), Reflects(p, r, x), Last(p).by # "End",
         NEW c \in ContextType, ContextOK(c), c.by = "End", c.spans = x,
         c.frames = <<Untraced>>, ~Unseen(c), c.forgotten = FALSE,
         Len(x) = Len(OpenFrames(r)), Agree(x, y, Len(OpenFrames(r))),
         s.inactive = r.inactive, s.stack = r.stack \o ShownFrames(c),
         NEW q, Adds(q, p, c)
  PROVE  Reflects(q, s, y)
<1> DEFINE n == Len(p)
<1>1. /\ ContextsOK(p) /\ p \in Seq(ContextType) /\ n \in Nat \ {0} /\ Last(p) = p[n]
      /\ Bottom(p) = n /\ Gap(p) = <<>>
      /\ \A i \in 1..n : p[i] \in ContextType /\ ContextOK(p[i])
  BY BottomOf DEF Reflects
<1>2. PICK k \in Nat : Matches(p, r, k)
  BY DEF Reflects
<1>3. /\ q \in Seq(ContextType) /\ Len(q) = n + 1 /\ q[n + 1] = c
      /\ \A i \in 1..n : q[i] = p[i]
  BY <1>1, TopAdded
<1>4. q # <<>> /\ Last(q) = c /\ DOMAIN q = 1..(n + 1)
  <2>1. n + 1 \in Nat \ {0}
    BY <1>1
  <2> QED
    BY <1>3, <2>1, LastOf
<1>5. ContextsOK(q) /\ SpansOK(q, y)
  BY ContextAdded
<1>6. Bottom(q) = n /\ Gap(q) = ShownFrames(c)
  <2>1. Bottom(q) = (n + 1) - 1 /\ Gap(q) = ShownFrames(c)
    BY <1>3, <1>4 DEF Bottom, Gap
  <2> QED
    BY <1>1, <2>1
<1>7. /\ k < n /\ Len(r.inactive) = n - 1 - k /\ r.inactive \in Seq(Callstack)
      /\ \A i \in 1..n : (p[i].forgotten <=> i <= k) /\ (i <= k => Unseen(p[i]))
      /\ \A j \in DOMAIN r.inactive : r.inactive[j].stack = ShownFrames(p[k + j])
      /\ r.stack = ShownFrames(p[n]) \o <<>>
  BY <1>1, <1>2, ThreadInfoFields DEF Matches
<1>8. r.stack = ShownFrames(p[n])
  BY <1>1, <1>7, ShownFramesType, ConcatEmpty
<1> HIDE DEF n
<1>9. ASSUME NEW i \in 1..(n + 1)
      PROVE  (q[i].forgotten <=> i <= k) /\ (i <= k => Unseen(q[i]))
  <2>1. CASE i = n + 1
    BY <1>1, <1>3, <1>7, <2>1
  <2>2. CASE i # n + 1
    <3>1. i \in 1..n /\ q[i] = p[i]
      BY <1>1, <1>3, <2>2
    <3> QED
      BY <1>7, <3>1
  <2> QED
    BY <2>1, <2>2
<1>10. ASSUME NEW j \in DOMAIN s.inactive
       PROVE  s.inactive[j].stack = ShownFrames(q[k + j])
  <2>1. j \in DOMAIN r.inactive /\ k + j \in 1..n
    BY <1>1, <1>7
  <2> QED
    BY <1>3, <1>7, <2>1
<1>11. s.stack = ShownFrames(q[Bottom(q)]) \o Gap(q)
  <2>1. q[n] = p[n]
    BY <1>1, <1>3
  <2> QED
    BY <1>6, <1>8, <2>1
<1>12. k < Bottom(q) /\ Len(s.inactive) = Bottom(q) - 1 - k
  BY <1>6, <1>7
<1>13. Matches(q, s, k)
  BY <1>4, <1>9, <1>10, <1>11, <1>12 DEF Matches
<1> QED
  BY <1>5, <1>13 DEF Reflects

LEMMA ContextDropped ==
  ASSUME NEW p, NEW r, NEW x \in Seq(Span), NEW y \in Seq(Span), Reflects(p, r, x),
         Len(p) > 1, NEW c \in ContextType, ContextOK(c),
         c.by = p[Len(p) - 1].by, c.spans = p[Len(p) - 1].spans,
         Agree(x, y, Len(Flat(p, Len(p) - 1))),
         NEW q, ReplacesTwo(q, p, c)
  PROVE  /\ ContextsOK(q) /\ SpansOK(q, y) /\ IsPrefix(Last(p).spans, y)
         /\ Bottom(q) = Len(p) - 1 /\ Gap(q) = <<>> /\ DOMAIN q = 1..(Len(p) - 1)
         /\ q[Len(p) - 1] = c /\ \A i \in 1..(Len(p) - 2) : q[i] = p[i]
<1> DEFINE n == Len(p)
<1>1. /\ ContextsOK(p) /\ SpansOK(p, x) /\ p \in Seq(ContextType)
      /\ n \in Nat \ {0} /\ n > 1 /\ Last(p) = p[n]
      /\ \A i \in 1..n : p[i] \in ContextType /\ ContextOK(p[i])
      /\ \A i \in DOMAIN p : ContextOK(p[i])
  BY BottomOf DEF Reflects
<1>2. /\ q \in Seq(ContextType) /\ Len(q) = n - 1 /\ q[n - 1] = c
      /\ \A i \in 1..(n - 2) : q[i] = p[i]
  BY <1>1, TwoReplaced
<1>3. q # <<>> /\ Last(q) = c /\ DOMAIN q = 1..(n - 1)
  <2>1. n - 1 \in Nat \ {0}
    BY <1>1
  <2> QED
    BY <1>2, <2>1, LastOf
<1>4. ASSUME NEW i \in 1..n
      PROVE  /\ p[i].by = "Thread" <=> i = 1
             /\ p[i].by = "End" => i = n
             /\ ContextOK(p[i])
  BY <1>1 DEF ContextsOK
<1>5. c.by # "End"
  <2>1. n - 1 \in 1..n /\ n - 1 # n
    BY <1>1
  <2> QED
    BY <1>4, <2>1
<1>6. Bottom(q) = n - 1 /\ Gap(q) = <<>>
  BY <1>2, <1>3, <1>5 DEF Bottom, Gap
<1>7. ContextsOK(q)
  <2>1. ASSUME NEW i \in 1..(n - 1)
        PROVE  /\ q[i].by = "Thread" <=> i = 1
               /\ q[i].by = "End" => i = n - 1
               /\ ContextOK(q[i])
    <3>1. i \in 1..n /\ i # n
      BY <1>1
    <3>2. CASE i = n - 1
      BY <1>2, <1>4, <3>1, <3>2
    <3>3. CASE i # n - 1
      <4>1. q[i] = p[i]
        BY <1>1, <1>2, <3>3
      <4> QED
        BY <1>4, <3>1, <4>1
    <3> QED
      BY <3>2, <3>3
  <2> QED
    BY <1>2, <1>3, <1>5, <2>1 DEF ContextsOK
<1>8. Len(Flat(p, n - 1)) \in Nat /\ Len(Flat(p, n - 2)) \in Nat
      /\ Len(Flat(p, n - 2)) <= Len(Flat(p, n - 1))
  <2>1. n - 1 \in Nat /\ n - 2 \in Nat /\ n - 2 <= n - 1 /\ n - 1 <= Len(p)
        /\ n - 1 \in 0..Len(p) /\ n - 2 \in 0..Len(p)
    BY <1>1
  <2> QED
    BY <1>1, <2>1, FlatGrows, FlatType
<1>9. IsPrefix(Last(p).spans, y)
  <2>1. n \in DOMAIN p /\ p[n] \in ContextType
    BY <1>1
  <2>2. /\ p[n].spans \in Seq(Span) /\ IsPrefix(p[n].spans, x)
        /\ Len(p[n].spans) <= Len(Flat(p, n - 1))
    BY <1>1, <2>1, ContextFields DEF SpansOK
  <2> QED
    BY <1>1, <1>8, <2>2, AgreePrefix
<1>10. SpansOK(q, y)
  <2>1. \A i \in 1..(n - 1) : q[i].spans = p[i].spans
    <3> SUFFICES ASSUME NEW i \in 1..(n - 1) PROVE q[i].spans = p[i].spans
      OBVIOUS
    <3>1. CASE i = n - 1
      BY <1>2, <3>1
    <3>2. CASE i # n - 1
      BY <1>1, <1>2, <3>2, SMTT(30)
    <3> QED
      BY <3>1, <3>2
  <2>2. \A i \in 1..((n - 1) - 1) : ShownFrames(q[i]) = ShownFrames(p[i])
    BY <1>1, <1>2
  <2>3. n - 1 \in 1..Len(p) /\ Agree(x, y, Len(Flat(p, (n - 1) - 1)))
    <3>1. Agree(x, y, Len(Flat(p, n - 2)))
      <4>1. Len(Flat(p, n - 2)) \in 0..Len(Flat(p, n - 1))
        BY <1>8
      <4> QED
        BY <1>8, <4>1, AgreeOn
    <3>2. (n - 1) - 1 = n - 2 /\ n - 1 \in 1..Len(p)
      BY <1>1
    <3> QED
      BY <3>1, <3>2
  <2>4. \A i \in 1..(n - 1) : IsPrefix(q[i].spans, y) /\ Len(q[i].spans) <= Len(Flat(q, i - 1))
    BY <1>1, <2>1, <2>2, <2>3, SpansKept
  <2> QED
    BY <1>3, <2>4 DEF SpansOK
<1> QED
  BY <1>2, <1>3, <1>6, <1>7, <1>9, <1>10

\* Below a kernel entry, the callstacks are inactive or forgotten.
LEMMA BelowKernel ==
  ASSUME NEW p, NEW r \in ThreadInfo, NEW x, Reflects(p, r, x),
         Last(p).by \notin {"Thread", "End"}
  PROVE  /\ Len(p) > 1 /\ Len(p) - 1 \in 1..Len(p)
         /\ p[Len(p) - 1].forgotten <=> r.inactive = <<>>
         /\ r.inactive # <<>> => Last(r.inactive).stack = ShownFrames(p[Len(p) - 1])
<1> DEFINE n == Len(p)
<1>1. /\ ContextsOK(p) /\ n \in Nat \ {0} /\ Last(p) = p[n] /\ Bottom(p) = n
      /\ p \in Seq(ContextType) /\ DOMAIN p = 1..n
  BY BottomOf DEF Reflects
<1>2. PICK k \in Nat : Matches(p, r, k)
  BY DEF Reflects
<1>3. /\ k < n /\ Len(r.inactive) = n - 1 - k /\ r.inactive \in Seq(Callstack)
      /\ \A i \in 1..n : p[i].forgotten <=> i <= k
      /\ \A j \in DOMAIN r.inactive : r.inactive[j].stack = ShownFrames(p[k + j])
  BY <1>1, <1>2, ThreadInfoFields DEF Matches
<1>4. n # 1
  BY <1>1 DEF ContextsOK
<1> HIDE DEF n
<1>5. n - 1 \in 1..n /\ n > 1
  BY <1>1, <1>4
<1>6. p[n - 1].forgotten <=> k = n - 1
  <2>1. p[n - 1].forgotten <=> n - 1 <= k
    BY <1>3, <1>5
  <2> QED
    BY <1>1, <1>2, <1>3, <2>1
<1>7. r.inactive = <<>> <=> k = n - 1
  BY <1>1, <1>2, <1>3
<1>8. r.inactive # <<>> => Last(r.inactive).stack = ShownFrames(p[n - 1])
  <2> SUFFICES ASSUME r.inactive # <<>> PROVE Last(r.inactive).stack = ShownFrames(p[n - 1])
    OBVIOUS
  <2>1. /\ Last(r.inactive) = r.inactive[Len(r.inactive)]
        /\ Len(r.inactive) \in DOMAIN r.inactive
    BY <1>3 DEF Last
  <2>2. k + Len(r.inactive) = n - 1
    BY <1>1, <1>2, <1>3
  <2> QED
    BY <1>3, <2>1, <2>2
<1> QED
  BY <1>5, <1>6, <1>7, <1>8 DEF n

\* The kernel is left: the context below goes on, with its callstack or, if that is
\* forgotten, with an empty one.
LEMMA KernelLeft ==
  ASSUME NEW p, NEW r \in ThreadInfo, NEW s \in ThreadInfo,
         NEW x \in Seq(Span), NEW y \in Seq(Span), Reflects(p, r, x),
         Last(p).by \notin {"Thread", "End"},
         NEW c \in ContextType, ContextOK(c), c.forgotten = FALSE,
         c.by = p[Len(p) - 1].by, c.spans = p[Len(p) - 1].spans,
         r.inactive = <<>> => /\ s.stack = <<>> /\ s.inactive = <<>>
                              /\ c.frames = p[Len(p) - 1].frames
                              /\ c.shown = p[Len(p) - 1].shown,
         r.inactive # <<>> => s.stack = ShownFrames(c) /\ s.inactive = Front(r.inactive),
         Agree(x, y, Len(Flat(p, Len(p) - 1))),
         NEW q, ReplacesTwo(q, p, c)
  PROVE  Reflects(q, s, y) /\ IsPrefix(Last(p).spans, y)
<1> DEFINE n == Len(p)
<1>1. /\ ContextsOK(p) /\ n \in Nat \ {0} /\ Last(p) = p[n] /\ Bottom(p) = n
      /\ p \in Seq(ContextType) /\ DOMAIN p = 1..n
      /\ \A i \in 1..n : p[i] \in ContextType /\ ContextOK(p[i])
  BY BottomOf DEF Reflects
<1>2. PICK k \in Nat : Matches(p, r, k)
  BY DEF Reflects
<1>3. /\ k < n /\ Len(r.inactive) = n - 1 - k /\ r.inactive \in Seq(Callstack)
      /\ \A i \in 1..n : (p[i].forgotten <=> i <= k) /\ (i <= k => Unseen(p[i]))
      /\ \A j \in DOMAIN r.inactive : r.inactive[j].stack = ShownFrames(p[k + j])
  BY <1>1, <1>2, ThreadInfoFields DEF Matches
<1>4. n > 1 /\ n - 1 \in 1..n
  BY BelowKernel
<1>5. /\ ContextsOK(q) /\ SpansOK(q, y) /\ IsPrefix(Last(p).spans, y)
      /\ Bottom(q) = n - 1 /\ Gap(q) = <<>> /\ DOMAIN q = 1..(n - 1)
      /\ q[n - 1] = c /\ \A i \in 1..(n - 2) : q[i] = p[i]
  BY <1>4, ContextDropped
<1> HIDE DEF n
<1>6. ShownFrames(c) \o <<>> = ShownFrames(c)
  BY ShownFramesType, ConcatEmpty
<1>7. CASE r.inactive = <<>>
  <2>1. k = n - 1 /\ n - 2 \in Nat
    BY <1>1, <1>2, <1>3, <1>4, <1>7
  <2>2. Unseen(c)
    <3>1. Unseen(p[n - 1])
      BY <1>3, <1>4, <2>1
    <3> QED
      BY <1>7, <3>1 DEF Unseen, n
  <2>3. ShownFrames(c) = <<>>
    BY <2>2, ShownFramesType
  <2>4. ASSUME NEW i \in 1..(n - 1)
        PROVE  (q[i].forgotten <=> i <= n - 2) /\ (i <= n - 2 => Unseen(q[i]))
    <3>1. CASE i = n - 1
      BY <1>1, <1>5, <3>1
    <3>2. CASE i # n - 1
      <4>1. i \in 1..(n - 2) /\ i \in 1..n /\ i <= k /\ i <= n - 2
        BY <1>1, <2>1, <3>2
      <4> QED
        BY <1>3, <1>5, <4>1
    <3> QED
      BY <3>1, <3>2
  <2>5. Len(s.inactive) = Bottom(q) - 1 - (n - 2) /\ n - 2 < Bottom(q)
        /\ \A j \in DOMAIN s.inactive : FALSE
    BY <1>1, <1>5, <1>7
  <2>6. s.stack = ShownFrames(q[Bottom(q)]) \o Gap(q)
    BY <1>5, <1>6, <1>7, <2>3
  <2>7. Matches(q, s, n - 2)
    BY <1>5, <2>4, <2>5, <2>6 DEF Matches
  <2> QED
    BY <1>5, <2>1, <2>7 DEF Reflects
<1>8. CASE r.inactive # <<>>
  <2>1. /\ Front(r.inactive) \in Seq(Callstack) /\ Len(Front(r.inactive)) = Len(r.inactive) - 1
        /\ Len(r.inactive) \in Nat \ {0}
        /\ \A j \in 1..(Len(r.inactive) - 1) : Front(r.inactive)[j] = r.inactive[j]
    BY <1>3, <1>8, FrontParts
  <2>2. k < n - 1 /\ k + (Len(r.inactive) - 1) = n - 2 /\ Len(r.inactive) - 1 \in Nat
    BY <1>1, <1>2, <1>3, <2>1
  <2>3. ASSUME NEW i \in 1..(n - 1)
        PROVE  (q[i].forgotten <=> i <= k) /\ (i <= k => Unseen(q[i]))
    <3>1. CASE i = n - 1
      BY <1>1, <1>2, <1>5, <2>2, <3>1
    <3>2. CASE i # n - 1
      <4>1. i \in 1..(n - 2) /\ i \in 1..n
        BY <1>1, <3>2
      <4> QED
        BY <1>3, <1>5, <4>1
    <3> QED
      BY <3>1, <3>2
  <2>4. Len(s.inactive) = Bottom(q) - 1 - k /\ k < Bottom(q)
    <3>1. s.inactive = Front(r.inactive)
      BY <1>8
    <3>2. Len(s.inactive) = Len(r.inactive) - 1
      BY <2>1, <3>1
    <3> QED
      BY <1>1, <1>2, <1>3, <1>5, <2>2, <3>2
  <2>5. ASSUME NEW j \in DOMAIN s.inactive
        PROVE  s.inactive[j].stack = ShownFrames(q[k + j])
    <3> DEFINE l == Len(r.inactive)
               f == Front(r.inactive)
    <3>3. /\ s.inactive = f /\ f \in Seq(Callstack) /\ Len(f) = l - 1
          /\ \A h \in 1..(l - 1) : f[h] = r.inactive[h]
      BY <1>8, <2>1
    <3> HIDE DEF f
    <3>1. j \in 1..(l - 1) /\ s.inactive[j] = r.inactive[j]
      BY <3>3, SMTT(30)
    <3>2. j \in DOMAIN r.inactive /\ k + j \in 1..(n - 2)
      <4>1. l \in Nat /\ DOMAIN r.inactive = 1..l /\ k + (l - 1) = n - 2
        BY <1>3, <2>1, <2>2
      <4> HIDE DEF l
      <4> QED
        BY <1>1, <1>2, <3>1, <4>1, SMTT(30)
    <3> QED
      BY <1>3, <1>5, <3>1, <3>2
  <2>6. s.stack = ShownFrames(q[Bottom(q)]) \o Gap(q)
    BY <1>5, <1>6, <1>8
  <2>7. Matches(q, s, k)
    BY <1>5, <2>3, <2>4, <2>5, <2>6 DEF Matches
  <2> QED
    BY <1>5, <2>7 DEF Reflects
<1> QED
  BY <1>7, <1>8

\* The trace starts again after a gap: the context below goes on.
LEMMA GapPassed ==
  ASSUME NEW p, NEW r \in ThreadInfo, NEW s \in ThreadInfo,
         NEW x \in Seq(Span), NEW y \in Seq(Span), Reflects(p, r, x), Last(p).by = "End",
         NEW c \in ContextType, ContextOK(c), c.forgotten = p[Len(p) - 1].forgotten,
         c.by = p[Len(p) - 1].by, c.spans = p[Len(p) - 1].spans,
         s.stack = ShownFrames(c), s.inactive = r.inactive,
         Agree(x, y, Len(Flat(p, Len(p) - 1))),
         NEW q, ReplacesTwo(q, p, c)
  PROVE  Reflects(q, s, y) /\ IsPrefix(Last(p).spans, y)
<1> DEFINE n == Len(p)
<1>1. /\ ContextsOK(p) /\ n \in Nat \ {0} /\ Last(p) = p[n]
      /\ Bottom(p) \in 1..n /\ Bottom(p) = n - 1
      /\ p \in Seq(ContextType) /\ DOMAIN p = 1..n
  BY BottomOf DEF Reflects
<1>2. PICK k \in Nat : Matches(p, r, k)
  BY DEF Reflects
<1>3. /\ k < n - 1 /\ Len(r.inactive) = (n - 1) - 1 - k /\ r.inactive \in Seq(Callstack)
      /\ \A i \in 1..n : (p[i].forgotten <=> i <= k) /\ (i <= k => Unseen(p[i]))
      /\ \A j \in DOMAIN r.inactive : r.inactive[j].stack = ShownFrames(p[k + j])
  BY <1>1, <1>2, ThreadInfoFields DEF Matches
<1>4. n > 1 /\ n - 1 \in 1..n
  BY <1>1
<1>5. /\ ContextsOK(q) /\ SpansOK(q, y) /\ IsPrefix(Last(p).spans, y)
      /\ Bottom(q) = n - 1 /\ Gap(q) = <<>> /\ DOMAIN q = 1..(n - 1)
      /\ q[n - 1] = c /\ \A i \in 1..(n - 2) : q[i] = p[i]
  BY <1>4, ContextDropped
<1>6. c.forgotten <=> n - 1 <= k
  BY <1>3, <1>4 DEF n
<1> HIDE DEF n
<1>7. ASSUME NEW i \in 1..(n - 1)
      PROVE  (q[i].forgotten <=> i <= k) /\ (i <= k => Unseen(q[i]))
  <2>1. CASE i = n - 1
    BY <1>1, <1>2, <1>3, <1>5, <1>6, <2>1
  <2>2. CASE i # n - 1
    <3>1. i \in 1..(n - 2) /\ i \in 1..n
      BY <1>1, <2>2
    <3> QED
      BY <1>3, <1>5, <3>1
  <2> QED
    BY <2>1, <2>2
<1>8. ASSUME NEW j \in DOMAIN s.inactive
      PROVE  s.inactive[j].stack = ShownFrames(q[k + j])
  <2>1. j \in DOMAIN r.inactive /\ k + j \in 1..(n - 2)
    BY <1>1, <1>2, <1>3, SMTT(30)
  <2> QED
    BY <1>3, <1>5, <2>1
<1>9. s.stack = ShownFrames(q[Bottom(q)]) \o Gap(q)
  <2>1. ShownFrames(c) \o <<>> = ShownFrames(c)
    BY ShownFramesType, ConcatEmpty
  <2> QED
    BY <1>5, <2>1
<1>10. k < Bottom(q) /\ Len(s.inactive) = Bottom(q) - 1 - k
  BY <1>3, <1>5
<1>11. Matches(q, s, k)
  BY <1>5, <1>7, <1>8, <1>9, <1>10 DEF Matches
<1> QED
  BY <1>5, <1>11 DEF Reflects

\* The callstacks are closed: nothing is seen, and all but the innermost are forgotten.
LEMMA SyncLost ==
  ASSUME NEW p, NEW r \in ThreadInfo, NEW s \in ThreadInfo,
         NEW x \in Seq(Span), NEW y \in Seq(Span), Reflects(p, r, x),
         s.stack = <<>>, s.inactive = <<>>,
         NEW q, q = [i \in DOMAIN p |-> Hidden(p[i], i < Bottom(p))]
  PROVE  Reflects(q, s, y)
<1> DEFINE n == Len(p)
           m == Bottom(p)
<1>1. /\ ContextsOK(p) /\ n \in Nat \ {0} /\ Last(p) = p[n] /\ m \in 1..n
      /\ Last(p).by = "End" => m = n - 1
      /\ Last(p).by # "End" => m = n
      /\ p \in Seq(ContextType) /\ DOMAIN p = 1..n
      /\ \A i \in 1..n : p[i] \in ContextType /\ ContextOK(p[i])
  BY BottomOf DEF Reflects
<1>2. ASSUME NEW i \in 1..n
      PROVE  /\ q[i] \in ContextType /\ q[i].by = p[i].by /\ q[i].frames = p[i].frames
             /\ q[i].forgotten = (i < m) /\ q[i].spans = <<>>
             /\ Unseen(q[i]) /\ ContextOK(q[i])
  <2>1. q[i] = Hidden(p[i], i < m)
    BY <1>1
  <2>2. p[i] \in ContextType /\ p[i].frames \in Seq(Frames) /\ p[i].frames # <<>>
    BY <1>1, ContextFields DEF ContextOK
  <2> DEFINE late == (i < m)
             shown == Len(p[i].frames) + 1
  <2>3. late \in BOOLEAN /\ shown \in Nat /\ <<>> \in Seq(Span)
    BY <2>2, ConcatEmpty
  <2>4. Hidden(p[i], late) = [p[i] EXCEPT !.shown = shown, !.spans = <<>>, !.forgotten = late]
    BY DEF Hidden
  <2> HIDE DEF late, shown
  <2>5. /\ Hidden(p[i], late) \in ContextType /\ Hidden(p[i], late).by = p[i].by
        /\ Hidden(p[i], late).frames = p[i].frames /\ Hidden(p[i], late).forgotten = late
        /\ Hidden(p[i], late).spans = <<>> /\ Hidden(p[i], late).shown = shown
    BY <2>2, <2>3, <2>4 DEF ContextType
  <2>6. Unseen(q[i])
    BY <2>1, <2>5 DEF Unseen, shown, late
  <2>7. ContextOK(q[i])
    BY <2>1, <2>2, <2>5, <2>6 DEF ContextOK, Unseen, late
  <2> QED
    BY <2>1, <2>5, <2>6, <2>7 DEF late
<1> HIDE DEF n, m
<1>3. q \in Seq(ContextType) /\ Len(q) = n /\ DOMAIN q = 1..n /\ q # <<>> /\ Last(q) = q[n]
  <2>1. DOMAIN q = 1..n /\ q = [i \in 1..n |-> q[i]]
    BY <1>1
  <2>2. \A i \in 1..n : q[i] \in ContextType
    BY <1>2
  <2>3. q \in Seq(ContextType) /\ Len(q) = n
    BY <1>1, <2>1, <2>2
  <2> QED
    BY <1>1, <2>1, <2>3, LastOf
<1>4. /\ Last(q).by = Last(p).by /\ Last(q).frames = Last(p).frames
      /\ Last(q).by = "End" => ShownFrames(Last(q)) = <<>>
  <2>1. n \in 1..n
    BY <1>1
  <2>2. /\ q[n].by = p[n].by /\ q[n].frames = p[n].frames /\ q[n] \in ContextType
        /\ Unseen(q[n]) /\ ContextOK(q[n])
    BY <1>2, <2>1
  <2>3. ShownFrames(q[n]) = <<>>
    BY <2>2, ShownFramesType
  <2> QED
    BY <1>1, <1>3, <2>2, <2>3
<1>5. Bottom(q) = m /\ Gap(q) = <<>>
  BY <1>1, <1>3, <1>4 DEF Bottom, Gap
<1>6. ContextsOK(q)
  <2>1. ASSUME NEW i \in 1..n
        PROVE  /\ q[i].by = "Thread" <=> i = 1
               /\ q[i].by = "End" => i = n
               /\ ContextOK(q[i])
    <3>1. (p[i].by = "Thread" <=> i = 1) /\ (p[i].by = "End" => i = n)
      BY <1>1 DEF ContextsOK, n
    <3> QED
      BY <1>2, <3>1
  <2>2. Last(q).by = "End" => Last(q).frames = <<Untraced>> /\ Unseen(q[Bottom(q)])
    BY <1>1, <1>2, <1>4, <1>5 DEF ContextsOK
  <2> QED
    BY <1>3, <2>1, <2>2 DEF ContextsOK
<1>7. SpansOK(q, y)
  <2>1. IsPrefix(<<>>, y)
    BY DEF IsPrefix
  <2>2. ASSUME NEW i \in 1..n
        PROVE  IsPrefix(q[i].spans, y) /\ Len(q[i].spans) <= Len(Flat(q, i - 1))
    <3>1. i - 1 \in 0..Len(q) /\ \A j \in DOMAIN q : ContextOK(q[j])
      BY <1>1, <1>2, <1>3
    <3>2. Flat(q, i - 1) \in Seq(Frames)
      BY <1>3, <3>1, FlatType
    <3>3. 0 <= Len(Flat(q, i - 1)) /\ Len(<<>>) = 0
      BY <3>2
    <3> QED
      BY <1>2, <2>1, <3>3
  <2> QED
    BY <1>3, <2>2 DEF SpansOK
<1>8. Matches(q, s, m - 1)
  <2>1. m - 1 < m /\ Len(s.inactive) = m - 1 - (m - 1) /\ \A j \in DOMAIN s.inactive : FALSE
    BY <1>1
  <2>2. \A i \in 1..n : (q[i].forgotten <=> i <= m - 1) /\ (i <= m - 1 => Unseen(q[i]))
    <3> SUFFICES ASSUME NEW i \in 1..n
                 PROVE  (q[i].forgotten <=> i <= m - 1) /\ (i <= m - 1 => Unseen(q[i]))
      OBVIOUS
    <3>1. (i < m) <=> (i <= m - 1)
      BY <1>1
    <3>2. q[i].forgotten <=> i < m
      BY <1>2
    <3> QED
      BY <1>2, <3>1, <3>2
  <2>3. s.stack = ShownFrames(q[m]) \o <<>>
    <3>1. ShownFrames(q[m]) = <<>>
      BY <1>1, <1>2, ShownFramesType
    <3> QED
      BY <3>1
  <2> QED
    BY <1>3, <1>5, <2>1, <2>2, <2>3 DEF Matches
<1>9. m - 1 \in Nat
  BY <1>1
<1> QED
  BY <1>6, <1>7, <1>8, <1>9 DEF Reflects

-----------------------------------------------------------------------------
(* What branches make of the frames that are shown *)

LEMMA MinOfTwo ==
  ASSUME NEW a \in Int, NEW b \in Int
  PROVE  Min({a, b}) = IF a <= b THEN a ELSE b
BY DEF Min

\* The context goes on with these frames, and from that depth on they are shown.
Changed(c, frames, depth) == [c EXCEPT !.frames = frames, !.shown = Min({@, depth})]

LEMMA ChangedContext ==
  ASSUME NEW c \in ContextType, ContextOK(c), NEW frames \in Seq(Frames),
         NEW depth \in 1..Len(frames)
  PROVE  LET d == Changed(c, frames, depth)
         IN  /\ d \in ContextType /\ ContextOK(d) /\ ~Unseen(d)
             /\ d.by = c.by /\ d.forgotten = c.forgotten /\ d.spans = c.spans
             /\ d.frames = frames
             /\ ShownFrames(d)
                  = SubSeq(frames, IF c.shown <= depth THEN c.shown ELSE depth, Len(frames))
<1>1. c.shown \in Nat /\ c.shown >= 1
  <2>1. c.frames \in Seq(Frames) /\ c.shown \in 1..(Len(c.frames) + 1)
    BY ContextFields DEF ContextOK
  <2> QED
    BY <2>1
<1> DEFINE m == Min({c.shown, depth})
           d == Changed(c, frames, depth)
<1>2. m = IF c.shown <= depth THEN c.shown ELSE depth
  BY <1>1, MinOfTwo
<1> HIDE DEF m
<1>3. m \in Nat /\ m >= 1 /\ m <= Len(frames)
  BY <1>1, <1>2
<1>4. d = [c EXCEPT !.frames = frames, !.shown = m]
  BY DEF Changed, m
<1>5. /\ d \in ContextType /\ d.by = c.by /\ d.forgotten = c.forgotten /\ d.spans = c.spans
      /\ d.frames = frames /\ d.shown = m
  BY <1>3, <1>4 DEF ContextType
<1> HIDE DEF d
<1>6. ContextOK(d) /\ ~Unseen(d)
  BY <1>3, <1>5 DEF ContextOK, Unseen
<1>7. ShownFrames(d) = SubSeq(frames, m, Len(frames))
  BY <1>5 DEF ShownFrames
<1> QED
  BY <1>2, <1>5, <1>6, <1>7 DEF d, m

LEMMA ShowingChanges ==
  ASSUME NEW c \in ContextType
  PROVE  Showing(c) = Changed(c, c.frames, Len(c.frames))
BY DEF ContextType, Showing, Changed

\* Of the frames from shown on, and of those of which the last has been replaced.
LEMMA TouchShown ==
  ASSUME NEW frames \in Seq(Frames), frames # <<>>, NEW shown \in 1..(Len(frames) + 1),
         NEW symbol \in Frames, NEW touched, Replaces(touched, frames, symbol)
  PROVE  /\ touched \in Seq(Frames) /\ Len(touched) = Len(frames)
         /\ Touch(SubSeq(frames, shown, Len(frames)), symbol)
              = SubSeq(touched, IF shown <= Len(frames) THEN shown ELSE Len(frames), Len(touched))
<1> DEFINE n == Len(frames)
           stack == SubSeq(frames, shown, n)
<1>1. n \in Nat \ {0} /\ shown \in 1..(n + 1)
  OBVIOUS
<1>3. /\ touched \in Seq(Frames) /\ Len(touched) = n /\ touched[n] = symbol
      /\ \A i \in 1..(n - 1) : touched[i] = frames[i]
  BY TopReplaced
<1>4. /\ stack \in Seq(Frames) /\ Len(stack) = n + 1 - shown
      /\ \A i \in 1..(n + 1 - shown) : stack[i] = frames[shown + i - 1]
  BY <1>1
<1> HIDE DEF n, stack
<1>5. CASE shown = n + 1
  <2>1. stack = <<>>
    BY <1>1, <1>4, <1>5
  <2> DEFINE y == SubSeq(touched, n, n)
  <2>2. y \in Seq(Frames) /\ Len(y) = 1 /\ y[1] = symbol
    BY <1>1, <1>3
  <2> HIDE DEF y
  <2>3. y = <<symbol>>
    BY <2>2
  <2>4. Touch(stack, symbol) = <<symbol>>
    BY <2>1 DEF Touch
  <2>5. ~(shown <= n)
    BY <1>1, <1>5
  <2>6. SubSeq(touched, IF shown <= n THEN shown ELSE n, Len(touched)) = y
    BY <1>3, <2>5 DEF y
  <2> QED
    BY <1>3, <2>3, <2>4, <2>6 DEF n, stack
<1>6. CASE shown <= n
  <2>1. stack # <<>>
    BY <1>1, <1>4, <1>6
  <2> DEFINE x == Append(Front(stack), symbol)
             y == SubSeq(touched, shown, n)
  <2>2. Replaces(x, stack, symbol)
    BY DEF Replaces
  <2> HIDE DEF x
  <2>3. /\ x \in Seq(Frames) /\ Len(x) = Len(stack) /\ x[Len(stack)] = symbol
        /\ \A i \in 1..(Len(stack) - 1) : x[i] = stack[i]
    <3>1. stack \in Seq(Frames) /\ symbol \in Frames
      BY <1>4
    <3> QED
      BY <2>1, <2>2, <3>1, TopReplaced
  <2>4. y \in Seq(Frames) /\ Len(y) = n + 1 - shown
        /\ \A i \in 1..(n + 1 - shown) : y[i] = touched[shown + i - 1]
    BY <1>1, <1>3, <1>6
  <2> HIDE DEF y
  <2>5. Len(x) = Len(y)
    BY <1>4, <2>3, <2>4
  <2>6. ASSUME NEW i \in 1..Len(y) PROVE x[i] = y[i]
    <3>1. CASE i = Len(y)
      <4>1. shown + i - 1 = n
        BY <1>1, <1>6, <2>4, <3>1
      <4> QED
        BY <1>3, <1>4, <2>3, <2>4, <3>1, <4>1
    <3>2. CASE i # Len(y)
      <4>1. /\ i \in 1..(Len(stack) - 1) /\ i \in 1..(n + 1 - shown)
            /\ shown + i - 1 \in 1..(n - 1)
        BY <1>1, <1>4, <1>6, <2>4, <3>2
      <4> QED
        BY <1>3, <1>4, <2>3, <2>4, <4>1
    <3> QED
      BY <3>1, <3>2
  <2>7. x = y
    BY <2>3, <2>4, <2>5, <2>6
  <2>8. Touch(stack, symbol) = x
    BY <2>1 DEF Touch, x
  <2>9. SubSeq(touched, IF shown <= n THEN shown ELSE n, Len(touched)) = y
    BY <1>3, <1>6 DEF y
  <2> QED
    BY <1>3, <2>7, <2>8, <2>9 DEF n, stack
<1>7. shown = n + 1 \/ shown <= n
  BY <1>1
<1> QED
  BY <1>5, <1>6, <1>7

LEMMA AppendShown ==
  ASSUME NEW frames \in Seq(Frames), NEW shown \in 1..Len(frames), NEW dst \in Frames,
         NEW longer, Adds(longer, frames, dst)
  PROVE  /\ longer \in Seq(Frames) /\ Len(longer) = Len(frames) + 1
         /\ SubSeq(longer, shown, Len(longer)) = Append(SubSeq(frames, shown, Len(frames)), dst)
<1> DEFINE n == Len(frames)
           stack == SubSeq(frames, shown, n)
           x == SubSeq(longer, shown, n + 1)
<1>1. n \in Nat /\ shown \in 1..n
  OBVIOUS
<1>2. /\ longer \in Seq(Frames) /\ Len(longer) = n + 1 /\ longer[n + 1] = dst
      /\ \A i \in 1..n : longer[i] = frames[i]
  BY TopAdded
<1>3. /\ stack \in Seq(Frames) /\ Len(stack) = n + 1 - shown
      /\ \A i \in 1..(n + 1 - shown) : stack[i] = frames[shown + i - 1]
  BY <1>1
<1> HIDE DEF n, stack
<1>4. /\ x \in Seq(Frames) /\ Len(x) = n + 2 - shown
      /\ \A i \in 1..(n + 2 - shown) : x[i] = longer[shown + i - 1]
  BY <1>1, <1>2
<1> HIDE DEF x
<1> DEFINE y == Append(stack, dst)
<1>5. Adds(y, stack, dst)
  BY DEF Adds
<1> HIDE DEF y
<1>6. /\ y \in Seq(Frames) /\ Len(y) = Len(stack) + 1 /\ y[Len(stack) + 1] = dst
      /\ \A i \in 1..Len(stack) : y[i] = stack[i]
  BY <1>3, <1>5, TopAdded
<1>7. Len(x) = Len(y) /\ Len(x) = n + 2 - shown
  BY <1>1, <1>3, <1>4, <1>6
<1>8. ASSUME NEW i \in 1..Len(x) PROVE x[i] = y[i]
  <2>1. CASE i = Len(x)
    <3>1. shown + i - 1 = n + 1 /\ i = Len(stack) + 1 /\ i \in 1..(n + 2 - shown)
      BY <1>1, <1>3, <1>7, <2>1
    <3> QED
      BY <1>2, <1>4, <1>6, <3>1
  <2>2. CASE i # Len(x)
    <3>1. /\ shown + i - 1 \in 1..n /\ i \in 1..Len(stack) /\ i \in 1..(n + 2 - shown)
          /\ i \in 1..(n + 1 - shown)
      BY <1>1, <1>3, <1>7, <2>2
    <3> QED
      BY <1>2, <1>3, <1>4, <1>6, <3>1
  <2> QED
    BY <2>1, <2>2
<1>9. x = y
  <2>1. x \in Seq(Frames) /\ y \in Seq(Frames) /\ Len(x) = Len(y)
    BY <1>4, <1>6, <1>7
  <2> QED
    BY <1>8, <2>1
<1> QED
  BY <1>2, <1>9 DEF x, y, n, stack

LEMMA FrontShown ==
  ASSUME NEW frames \in Seq(Frames), NEW callers, callers = Front(frames), callers # <<>>,
         frames # <<>>, NEW shown \in 1..(Len(frames) + 1)
  PROVE  LET stack == SubSeq(frames, shown, Len(frames))
         IN  /\ callers \in Seq(Frames) /\ Len(callers) = Len(frames) - 1
             /\ (IF stack = <<>> THEN <<>> ELSE Front(stack))
                  = SubSeq(callers, IF shown <= Len(frames) THEN shown ELSE Len(frames), Len(callers))
<1> DEFINE n == Len(frames)
           stack == SubSeq(frames, shown, n)
<1>1. /\ n \in Nat \ {0} /\ shown \in 1..(n + 1)
      /\ callers \in Seq(Frames) /\ Len(callers) = n - 1
      /\ \A i \in 1..(n - 1) : callers[i] = frames[i]
  BY FrontParts
<1>2. /\ stack \in Seq(Frames) /\ Len(stack) = n + 1 - shown
      /\ \A i \in 1..(n + 1 - shown) : stack[i] = frames[shown + i - 1]
  BY <1>1
<1> HIDE DEF n, stack
<1>3. CASE shown = n + 1
  <2>1. stack = <<>>
    BY <1>1, <1>2, <1>3
  <2> DEFINE y == SubSeq(callers, n, n - 1)
  <2>2. y \in Seq(Frames) /\ Len(y) = 0
    BY <1>1
  <2> HIDE DEF y
  <2>3. y = <<>>
    BY <2>2
  <2>4. (IF shown <= n THEN shown ELSE n) = n
    BY <1>1, <1>3
  <2> QED
    BY <1>1, <2>1, <2>3, <2>4 DEF y, n, stack
<1>4. CASE shown <= n
  <2>1. stack # <<>>
    BY <1>1, <1>2, <1>4
  <2> DEFINE x == Front(stack)
             y == SubSeq(callers, shown, n - 1)
  <2>2. /\ x \in Seq(Frames) /\ Len(x) = Len(stack) - 1
        /\ \A i \in 1..(Len(stack) - 1) : x[i] = stack[i]
    <3>1. stack \in Seq(Frames)
      BY <1>2
    <3> QED
      BY <2>1, <3>1, FrontParts
  <2>3. /\ y \in Seq(Frames) /\ Len(y) = n - shown
        /\ \A i \in 1..(n - shown) : y[i] = callers[shown + i - 1]
    BY <1>1, <1>4
  <2> HIDE DEF x, y
  <2>4. Len(x) = Len(y)
    BY <1>1, <1>2, <2>2, <2>3
  <2>5. ASSUME NEW i \in 1..Len(x) PROVE x[i] = y[i]
    <3>1. /\ i \in 1..(Len(stack) - 1) /\ i \in 1..(n - shown) /\ i \in 1..(n + 1 - shown)
          /\ shown + i - 1 \in 1..(n - 1)
      BY <1>1, <1>2, <1>4, <2>2
    <3> QED
      BY <1>1, <1>2, <2>2, <2>3, <3>1
  <2>6. x = y
    BY <2>2, <2>3, <2>4, <2>5
  <2> QED
    BY <1>1, <1>4, <2>1, <2>6 DEF x, y, n, stack
<1>5. shown = n + 1 \/ shown <= n
  BY <1>1
<1> QED
  BY <1>3, <1>4, <1>5

\* A context goes on in the function it is in.
LEMMA ResumeShown ==
  ASSUME NEW c \in ContextType, ContextOK(c)
  PROVE  /\ Last(c.frames) \in Frames
         /\ Touch(ShownFrames(c), Last(c.frames)) = ShownFrames(Showing(c))
         /\ Showing(c) \in ContextType /\ ContextOK(Showing(c)) /\ ~Unseen(Showing(c))
         /\ Showing(c).by = c.by /\ Showing(c).forgotten = c.forgotten
         /\ Showing(c).spans = c.spans /\ Showing(c).frames = c.frames
         /\ ShownFrames(c) = <<>> \/ Last(ShownFrames(c)) = Last(c.frames)
<1> DEFINE frames == c.frames
           shown == c.shown
           d == Showing(c)
<1>1. /\ frames \in Seq(Frames) /\ frames # <<>> /\ shown \in 1..(Len(frames) + 1)
      /\ ShownFrames(c) = SubSeq(frames, shown, Len(frames))
  BY ContextFields DEF ContextOK, ShownFrames
<1>2. d = Changed(c, frames, Len(frames))
  BY ShowingChanges
<1> HIDE DEF frames, shown, d
<1>3. Len(frames) \in 1..Len(frames)
  BY <1>1
<1>4. Last(frames) \in Frames
  BY <1>1, FrontLast
<1>5. Replaces(frames, frames, Last(frames))
  <2>1. frames = Append(Front(frames), Last(frames))
    BY <1>1, FrontLast
  <2> QED
    BY <2>1, Zenon DEF Replaces
<1>6. Touch(SubSeq(frames, shown, Len(frames)), Last(frames))
        = SubSeq(frames, IF shown <= Len(frames) THEN shown ELSE Len(frames), Len(frames))
  BY <1>1, <1>4, <1>5, TouchShown, ZenonT(30)
<1>7. /\ d \in ContextType /\ ContextOK(d) /\ ~Unseen(d) /\ d.by = c.by
      /\ d.forgotten = c.forgotten /\ d.spans = c.spans /\ d.frames = frames
      /\ ShownFrames(d)
           = SubSeq(frames, IF shown <= Len(frames) THEN shown ELSE Len(frames), Len(frames))
  BY <1>1, <1>2, <1>3, ChangedContext DEF shown
<1>8. ShownFrames(c) = <<>> \/ Last(ShownFrames(c)) = Last(frames)
  BY ShownFramesType DEF frames
<1> QED
  BY <1>1, <1>4, <1>6, <1>7, <1>8 DEF frames, d

LEMMA JumpShown ==
  ASSUME NEW c \in ContextType, ContextOK(c), NEW dst \in Frames
  PROVE  LET frames == Append(Front(c.frames), dst)
         IN  /\ frames \in Seq(Frames) /\ Len(c.frames) \in 1..Len(frames)
             /\ Touch(ShownFrames(c), dst) = ShownFrames(Changed(c, frames, Len(c.frames)))
<1> DEFINE frames == c.frames
           touched == Append(Front(frames), dst)
           shown == c.shown
<1>1. /\ frames \in Seq(Frames) /\ frames # <<>> /\ shown \in 1..(Len(frames) + 1)
      /\ ShownFrames(c) = SubSeq(frames, shown, Len(frames))
  BY ContextFields DEF ContextOK, ShownFrames
<1>2. Replaces(touched, frames, dst)
  BY DEF Replaces
<1> HIDE DEF frames, shown, touched
<1>3. /\ touched \in Seq(Frames) /\ Len(touched) = Len(frames)
      /\ Touch(SubSeq(frames, shown, Len(frames)), dst)
           = SubSeq(touched, IF shown <= Len(frames) THEN shown ELSE Len(frames), Len(touched))
  BY <1>1, <1>2, TouchShown
<1>4. Len(frames) \in 1..Len(touched)
  BY <1>1, <1>3
<1>5. ShownFrames(Changed(c, touched, Len(frames)))
        = SubSeq(touched, IF shown <= Len(frames) THEN shown ELSE Len(frames), Len(touched))
  BY <1>3, <1>4, ChangedContext DEF shown
<1> QED
  BY <1>1, <1>3, <1>4, <1>5 DEF frames, touched

LEMMA CallShown ==
  ASSUME NEW c \in ContextType, ContextOK(c), NEW dst \in Frames
  PROVE  LET frames == Append(c.frames, dst)
         IN  /\ frames \in Seq(Frames) /\ Len(c.frames) \in 1..Len(frames)
             /\ Append(Touch(ShownFrames(c), Last(c.frames)), dst)
                  = ShownFrames(Changed(c, frames, Len(c.frames)))
<1> DEFINE frames == c.frames
           longer == Append(frames, dst)
           d == Showing(c)
           shown == d.shown
           first == IF c.shown <= Len(frames) THEN c.shown ELSE Len(frames)
<1>1. /\ d \in ContextType /\ ContextOK(d) /\ ~Unseen(d) /\ d.frames = frames
      /\ Touch(ShownFrames(c), Last(frames)) = ShownFrames(d)
  BY ResumeShown
<1>2. Adds(longer, frames, dst)
  BY DEF Adds
<1>3. /\ frames \in Seq(Frames) /\ frames # <<>> /\ c.shown \in 1..(Len(frames) + 1)
  BY ContextFields DEF ContextOK
<1> HIDE DEF frames, longer, d
<1>4. first \in 1..Len(frames)
  BY <1>3
<1>5. ShownFrames(d) = SubSeq(frames, first, Len(frames))
  <2>1. d = Changed(c, frames, Len(frames)) /\ Len(frames) \in 1..Len(frames)
    BY <1>3, ShowingChanges DEF d, frames
  <2> QED
    BY <1>3, <2>1, ChangedContext
<1>6. /\ longer \in Seq(Frames) /\ Len(longer) = Len(frames) + 1
      /\ SubSeq(longer, first, Len(longer)) = Append(SubSeq(frames, first, Len(frames)), dst)
  BY <1>2, <1>3, <1>4, AppendShown
<1>7. Len(frames) \in 1..Len(longer)
  BY <1>3, <1>6
<1>8. ShownFrames(Changed(c, longer, Len(frames))) = SubSeq(longer, first, Len(longer))
  BY <1>6, <1>7, ChangedContext
<1> QED
  BY <1>1, <1>5, <1>6, <1>7, <1>8 DEF frames, longer

LEMMA ReturnShown ==
  ASSUME NEW c \in ContextType, ContextOK(c), Front(c.frames) # <<>>,
         NEW popped, popped = IF ShownFrames(c) = <<>> THEN <<>> ELSE Front(ShownFrames(c))
  PROVE  LET callers == Front(c.frames)
         IN  /\ callers \in Seq(Frames) /\ Len(callers) \in 1..Len(callers)
             /\ Last(callers) \in Frames
             /\ Touch(popped, Last(callers))
                  = ShownFrames(Changed(c, callers, Len(callers)))
<1> DEFINE frames == c.frames
           callers == Front(frames)
           symbol == Last(callers)
           n == Len(frames)
           first == IF c.shown <= n THEN c.shown ELSE n
           top == IF c.shown <= n - 1 THEN c.shown ELSE n - 1
<1>1. /\ frames \in Seq(Frames) /\ frames # <<>> /\ c.shown \in 1..(n + 1)
      /\ ShownFrames(c) = SubSeq(frames, c.shown, n)
  BY ContextFields DEF ContextOK, ShownFrames
<1>2. callers # <<>> /\ callers = Front(frames)
  OBVIOUS
<1> HIDE DEF frames, callers, symbol
<1>3. /\ callers \in Seq(Frames) /\ Len(callers) = n - 1
      /\ popped = SubSeq(callers, first, Len(callers))
  <2> DEFINE stack == SubSeq(frames, c.shown, Len(frames))
  <2>1. popped = IF stack = <<>> THEN <<>> ELSE Front(stack)
    BY <1>1
  <2> HIDE DEF stack
  <2>2. /\ callers \in Seq(Frames) /\ Len(callers) = n - 1
        /\ (IF stack = <<>> THEN <<>> ELSE Front(stack)) = SubSeq(callers, first, Len(callers))
    BY <1>1, <1>2, FrontShown DEF stack
  <2> QED
    BY <2>1, <2>2
<1>4. symbol \in Frames /\ callers = Append(Front(callers), symbol)
  BY <1>2, <1>3, FrontLast DEF symbol
<1>5. Replaces(callers, callers, symbol)
  BY <1>4, Zenon DEF Replaces
<1>6. n \in Nat \ {0} /\ n - 1 \in 1..(n - 1) /\ first \in 1..n
  <2>1. n \in Nat \ {0} /\ Len(callers) # 0
    BY <1>1, <1>2, <1>3
  <2> QED
    BY <1>1, <1>3, <2>1
<1>7. /\ first \in 1..(Len(callers) + 1)
      /\ (IF first <= Len(callers) THEN first ELSE Len(callers)) = top
  BY <1>1, <1>3, <1>6
<1> HIDE DEF first
<1>8. Touch(SubSeq(callers, first, Len(callers)), symbol)
        = SubSeq(callers, IF first <= Len(callers) THEN first ELSE Len(callers), Len(callers))
  BY <1>2, <1>3, <1>4, <1>5, <1>7, TouchShown
<1>9. Len(callers) \in 1..Len(callers)
  BY <1>3, <1>6
<1>10. ShownFrames(Changed(c, callers, Len(callers)))
        = SubSeq(callers, IF c.shown <= Len(callers) THEN c.shown ELSE Len(callers), Len(callers))
  BY <1>3, <1>9, ChangedContext
<1>11. ShownFrames(Changed(c, callers, Len(callers))) = SubSeq(callers, top, Len(callers))
  BY <1>3, <1>10
<1> QED
  BY <1>3, <1>4, <1>7, <1>8, <1>9, <1>11 DEF frames, callers, symbol

-----------------------------------------------------------------------------
(* What the branches of a program make of the callstacks that match it *)

\* r is the thread of the program p as the reconstructor has it, when an event comes.
Ready(v, p, r, time) ==
  /\ Good(v, r) /\ Now(r, time) /\ Reflects(p, r, Standing(v, r).open)

LEMMA ReadyFields ==
  ASSUME NEW v, NEW p, NEW r, NEW time, Ready(v, p, r, time)
  PROVE  /\ v \in View /\ r \in ThreadInfo /\ Good(v, r) /\ Now(r, time) /\ time \in Time
         /\ Standing(v, r).open \in Seq(Span)
         /\ Len(Standing(v, r).open) = Len(OpenFrames(r)) /\ Len(OpenFrames(r)) \in Nat
         /\ ContextsOK(p) /\ p \in Seq(ContextType) /\ Last(p) \in ContextType
         /\ ContextOK(Last(p)) /\ Last(p) = p[Len(p)] /\ Len(p) \in Nat \ {0}
         /\ Reflects(p, r, Standing(v, r).open)
         /\ Last(p).by # "End" => /\ r.stack = ShownFrames(Last(p))
                                  /\ Len(Flat(p, Len(p) - 1)) = Depth(r)
<1>1. /\ v \in View /\ r \in ThreadInfo /\ Good(v, r) /\ Now(r, time) /\ time \in Time
      /\ Standing(v, r).open \in Seq(Span)
      /\ Len(Standing(v, r).open) = Len(OpenFrames(r)) /\ Len(OpenFrames(r)) \in Nat
  BY OpenDepth, StandingLength, NowTime DEF Ready
<1>2. Reflects(p, r, Standing(v, r).open)
  BY DEF Ready
<1>3. /\ ContextsOK(p) /\ p \in Seq(ContextType) /\ Len(p) \in Nat \ {0} /\ Last(p) = p[Len(p)]
      /\ \A i \in 1..Len(p) : p[i] \in ContextType /\ ContextOK(p[i])
  BY <1>2, BottomOf DEF Reflects
<1>4. Last(p) \in ContextType /\ ContextOK(Last(p))
  BY <1>3
<1>5. PICK k \in Nat : Matches(p, r, k)
  BY <1>2 DEF Reflects
<1>6. Last(p).by # "End" => /\ r.stack = ShownFrames(Last(p))
                            /\ Len(Flat(p, Len(p) - 1)) = Depth(r)
  <2> SUFFICES ASSUME Last(p).by # "End"
               PROVE  r.stack = ShownFrames(Last(p)) /\ Len(Flat(p, Len(p) - 1)) = Depth(r)
    OBVIOUS
  <2>1. Bottom(p) = Len(p) /\ Gap(p) = <<>>
    BY <1>3, BottomOf
  <2>2. r.stack = ShownFrames(p[Bottom(p)]) \o Gap(p)
    BY <1>5 DEF Matches
  <2>3. ShownFrames(Last(p)) \o <<>> = ShownFrames(Last(p))
    BY <1>4, ShownFramesType, ConcatEmpty
  <2>4. Flat(p, Bottom(p) - 1) = OuterFrames(r.inactive)
    BY <1>1, <1>3, <1>5, FlatOpen
  <2> QED
    BY <1>3, <2>1, <2>2, <2>3, <2>4 DEF Depth
<1> QED
  BY <1>1, <1>2, <1>3, <1>4, <1>6

\* The thread goes on as s, and s is that of q.
Followed(v, r, s, q) == Keeps(v, r, s) /\ Reflects(q, s, Standing(v, s).open)

LEMMA RetainsThrough ==
  ASSUME NEW v, NEW r, NEW x, NEW s, Good(v, r), Good(v, x), Good(v, s),
         NEW n \in Nat, NEW m \in Nat, n <= m, Retains(v, r, x, n), Retains(v, x, s, m)
  PROVE  Retains(v, r, s, n)
<1>1. n \in 0..m
  OBVIOUS
<1>2. Retains(v, x, s, n)
  BY <1>1, RetainsOn
<1> QED
  BY <1>2, RetainsOn

LEMMA TopGoesOn ==
  ASSUME NEW v, NEW p, NEW r, NEW time, Ready(v, p, r, time), Last(p).by # "End",
         NEW frames \in Seq(Frames), NEW depth \in 1..Len(frames),
         NEW s, Keeps(v, r, s), s.inactive = r.inactive,
         s.stack = ShownFrames(Changed(Last(p), frames, depth)), Retains(v, r, s, Depth(r))
  PROVE  Followed(v, r, s, Append(Front(p), Changed(Last(p), frames, depth)))
<1> DEFINE c == Changed(Last(p), frames, depth)
           x == Standing(v, r).open
           y == Standing(v, s).open
<1>1. /\ r \in ThreadInfo /\ x \in Seq(Span) /\ Reflects(p, r, x)
      /\ Last(p) \in ContextType /\ ContextOK(Last(p))
      /\ Len(Flat(p, Len(p) - 1)) = Depth(r)
  BY ReadyFields
<1>2. s \in ThreadInfo /\ y \in Seq(Span)
  BY KeepsFields, OpenDepth
<1>3. /\ c \in ContextType /\ ContextOK(c) /\ c.by = Last(p).by
      /\ c.forgotten = Last(p).forgotten /\ c.spans = Last(p).spans
  BY <1>1, ChangedContext
<1>4. Agree(x, y, Len(Flat(p, Len(p) - 1)))
  BY <1>1 DEF Retains
<1>5. s.stack = ShownFrames(c)
  OBVIOUS
<1> HIDE DEF c, x, y
<1>6. Reflects(Append(Front(p), c), s, y)
  BY <1>1, <1>2, <1>3, <1>4, <1>5, TopChanges
<1> QED
  BY <1>6 DEF Followed, c, y

BranchOf(kind, state, src, dst) ==
  [kind |-> kind, trace_state |-> state, src |-> src, dst |-> dst]

LEMMA CallFollowed ==
  ASSUME NEW v, NEW p, NEW r, NEW time, Ready(v, p, r, time), Last(p).by # "End",
         NEW dst \in Frames
  PROVE  LET frames == Last(p).frames
         IN  Followed(v, r, Branch(r, time, BranchOf("Call", "None", Last(frames), dst)),
               Append(Front(p), Changed(Last(p), Append(frames, dst), Len(frames))))
<1> DEFINE c == Last(p)
           src == Last(c.frames)
           br == BranchOf("Call", "None", src, dst)
           x == CheckCurrentSymbol(r, time, src)
           s == Branch(r, time, br)
<1>1. /\ Good(v, r) /\ Now(r, time) /\ c \in ContextType /\ ContextOK(c)
      /\ r.stack = ShownFrames(c)
  BY ReadyFields
<1>2. s = Call(x, time, dst)
  BY BranchByState, BranchOfKindByKind DEF BranchOf
<1>3. /\ Append(c.frames, dst) \in Seq(Frames)
      /\ Len(c.frames) \in 1..Len(Append(c.frames, dst))
      /\ Append(Touch(ShownFrames(c), src), dst)
           = ShownFrames(Changed(c, Append(c.frames, dst), Len(c.frames)))
  BY <1>1, CallShown
<1>4. src \in Frames
  BY <1>1, ResumeShown
<1> HIDE DEF c, src, br
<1>5. /\ Keeps(v, r, x) /\ x.stack = Touch(r.stack, src) /\ x.inactive = r.inactive
      /\ Retains(v, r, x, Depth(r))
  BY <1>1, <1>4, CheckCurrentSymbolMoves
<1>6. Good(v, x) /\ Now(x, time)
  BY <1>1, <1>5, NowOn
<1> HIDE DEF x, s
<1>7. /\ Keeps(v, x, s) /\ s.stack = Append(x.stack, dst) /\ s.inactive = x.inactive
      /\ Retains(v, x, s, Len(OpenFrames(x)))
  BY <1>2, <1>6, CallMoves
<1>8. Good(v, s) /\ Keeps(v, r, s)
  BY <1>5, <1>7, KeepsFields, KeepsOn
<1>9. Depth(r) \in Nat /\ Len(OpenFrames(x)) \in Nat /\ Depth(r) <= Len(OpenFrames(x))
  <2>1. Depth(x) = Depth(r)
    BY <1>5 DEF Depth
  <2> QED
    BY <1>6, <2>1, OpenDepth
<1>10. Retains(v, r, s, Depth(r))
  BY <1>1, <1>5, <1>6, <1>7, <1>8, <1>9, RetainsThrough
<1>11. s.inactive = r.inactive
       /\ s.stack = ShownFrames(Changed(c, Append(c.frames, dst), Len(c.frames)))
  BY <1>1, <1>3, <1>5, <1>7
<1>12. Followed(v, r, s, Append(Front(p), Changed(c, Append(c.frames, dst), Len(c.frames))))
  BY <1>3, <1>8, <1>10, <1>11, TopGoesOn DEF c
<1> QED
  BY <1>12 DEF c, src, br, s

LEMMA ReturnFollowed ==
  ASSUME NEW v, NEW p, NEW r, NEW time, Ready(v, p, r, time), Last(p).by # "End",
         Front(Last(p).frames) # <<>>, NEW src
  PROVE  LET callers == Front(Last(p).frames)
         IN  Followed(v, r, Branch(r, time, BranchOf("Return", "None", src, Last(callers))),
               Append(Front(p), Changed(Last(p), callers, Len(callers))))
<1> DEFINE c == Last(p)
           callers == Front(c.frames)
           dst == Last(callers)
           br == BranchOf("Return", "None", src, dst)
           x == Ret(r, time)
           s == Branch(r, time, br)
<1>1. /\ Good(v, r) /\ Now(r, time) /\ c \in ContextType /\ ContextOK(c)
      /\ r.stack = ShownFrames(c)
  BY ReadyFields
<1>2. s = CheckCurrentSymbol(x, time, dst)
  BY BranchByState, BranchOfKindByKind DEF BranchOf
<1>3. /\ Keeps(v, r, x) /\ x.inactive = r.inactive /\ Retains(v, r, x, Depth(r))
      /\ x.stack = IF r.stack = <<>> THEN <<>> ELSE Front(r.stack)
  BY <1>1, RetMoves
<1>4. Good(v, x) /\ Now(x, time)
  BY <1>1, <1>3, NowOn
<1> HIDE DEF c, x, br, s
<1>5. x.stack = IF ShownFrames(c) = <<>> THEN <<>> ELSE Front(ShownFrames(c))
  BY <1>1, <1>3
<1>6. /\ callers \in Seq(Frames) /\ Len(callers) \in 1..Len(callers) /\ dst \in Frames
      /\ Touch(x.stack, dst) = ShownFrames(Changed(c, callers, Len(callers)))
  <2>1. Front(c.frames) # <<>>
    BY DEF c
  <2> QED
    BY <1>1, <1>5, <2>1, ReturnShown
<1> HIDE DEF callers, dst
<1>7. /\ Keeps(v, x, s) /\ s.stack = Touch(x.stack, dst) /\ s.inactive = x.inactive
      /\ Retains(v, x, s, Depth(x))
  BY <1>2, <1>4, <1>6, CheckCurrentSymbolMoves
<1>8. Good(v, s) /\ Keeps(v, r, s)
  BY <1>3, <1>7, KeepsFields, KeepsOn
<1>9. Retains(v, r, s, Depth(r))
  <2>1. Depth(x) = Depth(r) /\ Depth(r) \in Nat /\ Depth(r) <= Depth(r)
    BY <1>1, <1>3, OpenDepth DEF Depth
  <2> QED
    BY <1>1, <1>3, <1>4, <1>7, <1>8, <2>1, RetainsThrough
<1>10. s.inactive = r.inactive /\ s.stack = ShownFrames(Changed(c, callers, Len(callers)))
  BY <1>3, <1>6, <1>7
<1>11. Followed(v, r, s, Append(Front(p), Changed(c, callers, Len(callers))))
  BY <1>6, <1>8, <1>9, <1>10, TopGoesOn DEF c
<1> QED
  BY <1>11 DEF c, callers, dst, br, s

LEMMA JumpFollowed ==
  ASSUME NEW v, NEW p, NEW r, NEW time, Ready(v, p, r, time), Last(p).by # "End",
         NEW dst \in Frames, NEW src
  PROVE  LET frames == Last(p).frames
         IN  Followed(v, r, Branch(r, time, BranchOf("Jump", "None", src, dst)),
               Append(Front(p), Changed(Last(p), Append(Front(frames), dst), Len(frames))))
<1> DEFINE c == Last(p)
           touched == Append(Front(c.frames), dst)
           br == BranchOf("Jump", "None", src, dst)
           s == Branch(r, time, br)
<1>1. /\ Good(v, r) /\ Now(r, time) /\ c \in ContextType /\ ContextOK(c)
      /\ r.stack = ShownFrames(c)
  BY ReadyFields
<1>2. s = CheckCurrentSymbol(r, time, dst)
  BY BranchByState, BranchOfKindByKind DEF BranchOf
<1>3. /\ touched \in Seq(Frames) /\ Len(c.frames) \in 1..Len(touched)
      /\ Touch(ShownFrames(c), dst) = ShownFrames(Changed(c, touched, Len(c.frames)))
  BY <1>1, JumpShown
<1> HIDE DEF c, touched, br, s
<1>4. /\ Keeps(v, r, s) /\ s.stack = Touch(r.stack, dst) /\ s.inactive = r.inactive
      /\ Retains(v, r, s, Depth(r))
  BY <1>1, <1>2, CheckCurrentSymbolMoves
<1>5. Followed(v, r, s, Append(Front(p), Changed(c, touched, Len(c.frames))))
  <2>1. s.stack = ShownFrames(Changed(c, touched, Len(c.frames)))
    BY <1>1, <1>3, <1>4
  <2> QED
    BY <1>3, <1>4, <2>1, TopGoesOn DEF c
<1> QED
  BY <1>5 DEF c, touched, br, s

LEMMA SplitOne ==
  ASSUME NEW T, NEW frames \in Seq(T), ~(Len(frames) # 1)
  PROVE  SubSeq(frames, 1, 1) = frames
<1> DEFINE sub == SubSeq(frames, 1, 1)
<1>1. sub \in Seq(T) /\ Len(sub) = Len(frames) /\ sub[1] = frames[1]
  OBVIOUS
<1> HIDE DEF sub
<1>2. sub = frames
  BY <1>1, SMTT(30)
<1> QED
  BY <1>2 DEF sub

Causes == {"Thread", "End"} \cup Entries

\* c is a context with f as its only frame.
Enters(c, by, frames, f, spans) == frames = <<f>> /\ c = Context(by, frames, 1, spans)

LEMMA ContextEntered ==
  ASSUME NEW by \in Causes, NEW f \in Frames, NEW spans \in Seq(Span),
         NEW frames, NEW c, Enters(c, by, frames, f, spans)
  PROVE  /\ c \in ContextType /\ ContextOK(c) /\ ~Unseen(c)
         /\ ShownFrames(c) = c.frames
<1>1. /\ frames \in Seq(Frames) /\ Len(frames) = 1 /\ frames # <<>>
      /\ SubSeq(frames, 1, 1) = frames
  <2>1. frames \in Seq(Frames) /\ Len(frames) = 1 /\ frames # <<>>
    BY DEF Enters
  <2>2. SubSeq(frames, 1, 1) = frames
    BY <2>1, SplitOne
  <2> QED
    BY <2>1, <2>2
<1>2. /\ c \in ContextType /\ c.by = by /\ c.frames = frames /\ c.shown = 1
      /\ c.forgotten = FALSE /\ c.spans = spans
  BY <1>1 DEF Enters, Context, ContextType, Causes
<1>3. ContextOK(c) /\ ~Unseen(c)
  BY <1>1, <1>2 DEF ContextOK, Unseen
<1>4. ShownFrames(c) = frames
  BY <1>1, <1>2 DEF ShownFrames
<1> QED
  BY <1>2, <1>3, <1>4

LEMMA GapShown ==
  ASSUME NEW c \in ContextType, ContextOK(c), c.frames = <<Untraced>>, ~Unseen(c)
  PROVE  ShownFrames(c) = <<Untraced>>
<1> DEFINE frames == c.frames
           shown == c.shown
           stack == ShownFrames(c)
<1>1. frames \in Seq(Frames) /\ shown \in Nat
  BY ContextFields, Zenon
<1>2. Len(frames) = 1 /\ frames[1] = Untraced
  OBVIOUS
<1>3. /\ shown \in 1..(Len(frames) + 1) /\ shown # Len(frames) + 1
      /\ stack = SubSeq(frames, shown, Len(frames))
  BY DEF ContextOK, Unseen, ShownFrames
<1>4. frames = <<Untraced>>
  OBVIOUS
<1> HIDE DEF frames, shown, stack
<1>5. shown = 1
  BY <1>1, <1>2, <1>3
<1>6. stack = SubSeq(frames, 1, 1)
  BY <1>2, <1>3, <1>5
<1>7. stack = frames
  BY <1>1, <1>2, <1>6, SplitOne
<1> QED
  BY <1>4, <1>7 DEF stack

LEMMA EntryFollowed ==
  ASSUME NEW v, NEW p, NEW r, NEW time, Ready(v, p, r, time), Last(p).by # "End",
         NEW entry \in Entries, entry \in {"Syscall", "HardwareInterrupt"},
         NEW dst \in Frames, NEW src
  PROVE  Followed(v, r, Branch(r, time, BranchOf(entry, "None", src, dst)),
           Append(p, Context(entry, <<dst>>, 1, Standing(v, r).open)))
<1> DEFINE x == Standing(v, r).open
           frames == <<dst>>
           c == Context(entry, frames, 1, x)
           q == Append(p, c)
           br == BranchOf(entry, "None", src, dst)
           s == Branch(r, time, br)
           y == Standing(v, s).open
<1>1. /\ Good(v, r) /\ Now(r, time) /\ r \in ThreadInfo /\ x \in Seq(Span) /\ Reflects(p, r, x)
      /\ Len(x) = Len(OpenFrames(r))
  BY ReadyFields
<1>2. s = EnterContext(r, time, dst)
  BY BranchByState, BranchOfKindByKind DEF BranchOf
<1>3. Adds(q, p, c) /\ Enters(c, entry, frames, dst, x)
  BY DEF Adds, Enters
<1>4. /\ c \in ContextType /\ ContextOK(c) /\ c.by = entry /\ c.forgotten = FALSE
      /\ c.spans = x /\ ShownFrames(c) = frames
  <2>1. entry \in Causes /\ x \in Seq(Span)
    BY <1>1 DEF Causes
  <2> HIDE DEF x
  <2>2. c.by = entry /\ c.forgotten = FALSE /\ c.spans = x /\ c.frames = frames
    BY DEF Context
  <2> HIDE DEF c, frames
  <2>3. c \in ContextType /\ ContextOK(c) /\ ShownFrames(c) = c.frames
    BY <1>3, <2>1, ContextEntered
  <2> QED
    BY <2>2, <2>3
<1>5. entry \notin {"Thread", "End"}
  OBVIOUS
<1> HIDE DEF frames, q, br, s
<1>6. /\ Keeps(v, r, s) /\ s.stack = <<dst>>
      /\ s.inactive = Append(r.inactive, [stack |-> r.stack, create_time |-> r.create_time])
      /\ Retains(v, r, s, Len(OpenFrames(r)))
  BY <1>1, <1>2, EnterContextMoves
<1>7. s \in ThreadInfo /\ y \in Seq(Span)
  BY <1>6, KeepsFields, OpenDepth
<1>8. Agree(x, y, Len(OpenFrames(r)))
  BY <1>6 DEF Retains
<1>9. s.stack = ShownFrames(c)
  BY <1>4, <1>6 DEF frames
<1> HIDE DEF c, x, y
<1>10. Reflects(q, s, y)
  BY <1>1, <1>3, <1>4, <1>5, <1>6, <1>7, <1>8, <1>9, KernelEntered
<1> QED
  BY <1>6, <1>10 DEF Followed, q, c, x, frames, y, br, s

LEMMA LossFollowed ==
  ASSUME NEW v, NEW p, NEW r, NEW time, Ready(v, p, r, time), Last(p).by # "End",
         NEW src, NEW dst
  PROVE  Followed(v, r, Branch(r, time, BranchOf("None", "End", src, dst)),
           Append(p, Context("End", <<Untraced>>, 1, Standing(v, r).open)))
<1> DEFINE x == Standing(v, r).open
           frames == <<Untraced>>
           c == Context("End", frames, 1, x)
           q == Append(p, c)
           br == BranchOf("None", "End", src, dst)
           s == Branch(r, time, br)
           y == Standing(v, s).open
<1>1. /\ Good(v, r) /\ Now(r, time) /\ r \in ThreadInfo /\ x \in Seq(Span) /\ Reflects(p, r, x)
      /\ Len(x) = Len(OpenFrames(r)) /\ r.stack \in Seq(Frames)
  BY ReadyFields, ThreadInfoFields
<1>2. s = Call(r, time, Untraced)
  BY BranchByState DEF BranchOf
<1>3. Adds(q, p, c) /\ Enters(c, "End", frames, Untraced, x)
  BY DEF Adds, Enters
<1>4. Untraced \in Frames
  BY DEF Frames
<1>5. /\ c \in ContextType /\ ContextOK(c) /\ ~Unseen(c) /\ c.by = "End" /\ c.forgotten = FALSE
      /\ c.frames = frames /\ c.spans = x /\ ShownFrames(c) = frames
  <2>1. "End" \in Causes /\ x \in Seq(Span)
    BY <1>1 DEF Causes
  <2> HIDE DEF x
  <2>2. c.by = "End" /\ c.forgotten = FALSE /\ c.spans = x /\ c.frames = frames
    BY DEF Context
  <2> HIDE DEF c, frames
  <2>3. c \in ContextType /\ ContextOK(c) /\ ~Unseen(c) /\ ShownFrames(c) = c.frames
    BY <1>3, <1>4, <2>1, ContextEntered
  <2> QED
    BY <2>2, <2>3
<1> HIDE DEF frames, q, br, s
<1>6. /\ Keeps(v, r, s) /\ s.stack = Append(r.stack, Untraced) /\ s.inactive = r.inactive
      /\ Retains(v, r, s, Len(OpenFrames(r)))
  BY <1>1, <1>2, <1>4, CallMoves
<1>7. s \in ThreadInfo /\ y \in Seq(Span)
  BY <1>6, KeepsFields, OpenDepth
<1>8. Agree(x, y, Len(OpenFrames(r)))
  BY <1>6 DEF Retains
<1>9. s.stack = r.stack \o ShownFrames(c)
  <2>1. r.stack \o <<Untraced>> = Append(r.stack, Untraced)
    BY <1>1, <1>4, AppendIsConcat
  <2> QED
    BY <1>5, <1>6, <2>1 DEF frames
<1> HIDE DEF c, x, y
<1>10. Reflects(q, s, y)
  BY <1>1, <1>3, <1>5, <1>6, <1>7, <1>8, <1>9, TraceLost DEF frames
<1> QED
  BY <1>6, <1>10 DEF Followed, q, c, x, frames, y, br, s

LEMMA LeaveFollowed ==
  ASSUME NEW v, NEW p, NEW r, NEW time, Ready(v, p, r, time),
         Last(p).by \notin {"Thread", "End"}, NEW kind \in {"Sysret", "Iret"}, NEW src
  PROVE  LET below == Last(Front(p))
             s == Branch(r, time, BranchOf(kind, "None", src, Last(below.frames)))
             c == IF below.forgotten THEN [below EXCEPT !.forgotten = FALSE] ELSE Showing(below)
         IN  /\ Followed(v, r, s, Append(Front(Front(p)), c))
             /\ IsPrefix(Last(p).spans, Standing(v, s).open)
<1> DEFINE below == Last(Front(p))
           dst == Last(below.frames)
           br == BranchOf(kind, "None", src, dst)
           s == Branch(r, time, br)
           forgiven == [below EXCEPT !.forgotten = FALSE]
           c == IF below.forgotten THEN forgiven ELSE Showing(below)
           q == Append(Front(Front(p)), c)
           x == Standing(v, r).open
           y == Standing(v, s).open
<1>1. /\ Good(v, r) /\ Now(r, time) /\ r \in ThreadInfo /\ x \in Seq(Span) /\ Reflects(p, r, x)
      /\ ContextsOK(p) /\ p \in Seq(ContextType) /\ Depth(r) = Len(Flat(p, Len(p) - 1))
      /\ \A i \in 1..Len(p) : p[i] \in ContextType /\ ContextOK(p[i])
  BY ReadyFields, BottomOf
<1>2. /\ Len(p) > 1 /\ Len(p) - 1 \in 1..Len(p)
      /\ p[Len(p) - 1].forgotten <=> r.inactive = <<>>
      /\ r.inactive # <<>> => Last(r.inactive).stack = ShownFrames(p[Len(p) - 1])
  BY <1>1, BelowKernel
<1>3. s = LeaveContext(r, time, dst)
  BY BranchByState, BranchOfKindByKind DEF BranchOf
<1>4. ReplacesTwo(q, p, c)
  BY DEF ReplacesTwo
<1> HIDE DEF q
<1>5. p[Len(p) - 1] \in ContextType /\ ContextOK(p[Len(p) - 1])
  BY <1>1, <1>2
<1>6. below = p[Len(p) - 1]
  <2> DEFINE w == Append(Front(Front(p)), p[Len(p) - 1])
  <2>1. ReplacesTwo(w, p, p[Len(p) - 1])
    BY DEF ReplacesTwo
  <2> HIDE DEF w
  <2> QED
    BY <1>1, <1>2, <1>5, <2>1, TwoReplaced
<1>7. below \in ContextType /\ ContextOK(below)
  BY <1>5, <1>6
<1> HIDE DEF below
<1>8. /\ dst \in Frames /\ Touch(ShownFrames(below), dst) = ShownFrames(Showing(below))
      /\ Showing(below) \in ContextType /\ ContextOK(Showing(below))
      /\ Showing(below).by = below.by /\ Showing(below).forgotten = below.forgotten
      /\ Showing(below).spans = below.spans
      /\ ShownFrames(below) = <<>> \/ Last(ShownFrames(below)) = dst
  BY <1>7, ResumeShown
<1>9. /\ forgiven \in ContextType /\ forgiven.by = below.by /\ forgiven.forgotten = FALSE
      /\ forgiven.spans = below.spans /\ forgiven.frames = below.frames
      /\ forgiven.shown = below.shown
  BY <1>7 DEF ContextType
<1>10. ContextOK(forgiven)
  BY <1>7, <1>9 DEF ContextOK
<1> HIDE DEF forgiven, dst, br, s
<1>11. below.forgotten <=> r.inactive = <<>>
  BY <1>2, <1>6
<1>12. below.forgotten \in BOOLEAN
  BY <1>7, ContextFields
<1>13. /\ Keeps(v, r, s)
       /\ r.inactive = <<>> => s.stack = <<>> /\ s.inactive = <<>>
       /\ r.inactive # <<>> =>
            /\ s.stack = Touch(Last(r.inactive).stack, dst) /\ s.inactive = Front(r.inactive)
            /\ Last(r.inactive).stack = <<>> \/ Last(Last(r.inactive).stack) = dst
                 => Retains(v, r, s, Depth(r))
  BY <1>1, <1>3, <1>8, LeaveContextMoves
<1>14. r.inactive # <<>> => s.stack = ShownFrames(Showing(below)) /\ Retains(v, r, s, Depth(r))
  <2> SUFFICES ASSUME r.inactive # <<>>
               PROVE  s.stack = ShownFrames(Showing(below)) /\ Retains(v, r, s, Depth(r))
    OBVIOUS
  <2>1. Last(r.inactive).stack = ShownFrames(below)
    BY <1>2, <1>6
  <2> QED
    BY <1>8, <1>13, <2>1
<1>15. s \in ThreadInfo /\ y \in Seq(Span)
  BY <1>13, KeepsFields, OpenDepth
<1>16. Agree(x, y, Depth(r))
  <2>1. CASE r.inactive = <<>>
    <3>1. OuterFrames(r.inactive) = <<>>
      <4>1. [i \in DOMAIN r.inactive |-> r.inactive[i].stack] = <<>>
        BY <2>1
      <4> QED
        BY <4>1, FlattenNothing DEF OuterFrames
    <3>2. Depth(r) = 0
      BY <3>1 DEF Depth
    <3> HIDE DEF x, y
    <3> QED
      BY <1>1, <1>15, <3>2 DEF Agree
  <2>2. CASE r.inactive # <<>>
    BY <1>14, <2>2 DEF Retains
  <2> QED
    BY <2>1, <2>2
<1>17. c \in ContextType /\ ContextOK(c) /\ c.forgotten = FALSE
       /\ c.by = p[Len(p) - 1].by /\ c.spans = p[Len(p) - 1].spans
  BY <1>6, <1>8, <1>9, <1>10, <1>12
<1>18. r.inactive = <<>> => c.frames = p[Len(p) - 1].frames /\ c.shown = p[Len(p) - 1].shown
  BY <1>6, <1>9, <1>11
<1>19. r.inactive # <<>> => s.stack = ShownFrames(c) /\ s.inactive = Front(r.inactive)
  BY <1>11, <1>13, <1>14
<1>20. r.inactive = <<>> => s.stack = <<>> /\ s.inactive = <<>>
  BY <1>13
<1> HIDE DEF c, x, y
<1>21. Agree(x, y, Len(Flat(p, Len(p) - 1)))
  BY <1>1, <1>16
<1>22. Reflects(q, s, y) /\ IsPrefix(Last(p).spans, y)
  BY <1>1, <1>4, <1>15, <1>17, <1>18, <1>19, <1>20, <1>21, KernelLeft
<1> QED
  BY <1>13, <1>22 DEF Followed, q, c, y, br, s, dst, below, forgiven

LEMMA FrontAppended ==
  ASSUME NEW T, NEW a \in Seq(T), NEW f \in T, NEW s, Adds(s, a, f)
  PROVE  s # <<>> /\ Last(s) = f /\ Front(s) = a
<1>1. /\ s \in Seq(T) /\ Len(s) = Len(a) + 1 /\ s[Len(a) + 1] = f
      /\ \A i \in 1..Len(a) : s[i] = a[i]
  BY TopAdded
<1>2. s # <<>>
  BY <1>1
<1> DEFINE x == Front(s)
<1>3. /\ x \in Seq(T) /\ Len(x) = Len(s) - 1 /\ Last(s) = s[Len(s)]
      /\ \A i \in 1..(Len(s) - 1) : x[i] = s[i]
  BY <1>1, <1>2, FrontParts
<1> HIDE DEF x
<1>4. Len(x) = Len(a) /\ \A i \in 1..Len(a) : x[i] = a[i]
  BY <1>1, <1>3
<1>5. x = a
  BY <1>3, <1>4
<1> QED
  BY <1>1, <1>2, <1>3, <1>5 DEF x

\* The trace starts again: below the gap, the context goes on in the function it is in.
LEMMA StartFollowed ==
  ASSUME NEW v, NEW p, NEW r, NEW time, Ready(v, p, r, time), Last(p).by = "End", NEW src
  PROVE  LET below == Last(Front(p))
             s == Branch(r, time, BranchOf("None", "Start", src, Last(below.frames)))
         IN  /\ Followed(v, r, s, Append(Front(Front(p)), Showing(below)))
             /\ IsPrefix(Last(p).spans, Standing(v, s).open)
<1> DEFINE n == Len(p)
           below == Last(Front(p))
           dst == Last(below.frames)
           br == BranchOf("None", "Start", src, dst)
           popped == PopUntraced(r, time)
           s == Branch(r, time, br)
           c == Showing(below)
           q == Append(Front(Front(p)), c)
           x == Standing(v, r).open
           y == Standing(v, s).open
<1>1. /\ Good(v, r) /\ Now(r, time) /\ r \in ThreadInfo /\ x \in Seq(Span) /\ Reflects(p, r, x)
      /\ ContextsOK(p) /\ p \in Seq(ContextType) /\ n \in Nat \ {0} /\ Last(p) = p[n]
      /\ \A i \in 1..n : p[i] \in ContextType /\ ContextOK(p[i])
      /\ \A i \in DOMAIN p : ContextOK(p[i])
      /\ Len(x) = Len(OpenFrames(r)) /\ Len(OpenFrames(r)) \in Nat
  BY ReadyFields, BottomOf
<1>2. /\ n > 1 /\ n - 1 \in 1..n /\ Bottom(p) = n - 1 /\ Gap(p) = ShownFrames(p[n])
      /\ Bottom(p) \in 1..n
  BY <1>1, BottomOf
<1>3. PICK k \in Nat : Matches(p, r, k)
  BY <1>1 DEF Reflects
<1>4. s = CheckCurrentSymbol(popped, time, dst)
  BY BranchByState, BranchOfKindByKind DEF BranchOf
<1>5. ReplacesTwo(q, p, c)
  BY DEF ReplacesTwo
<1> HIDE DEF q
<1>6. p[n - 1] \in ContextType /\ ContextOK(p[n - 1]) /\ p[n] \in ContextType /\ ContextOK(p[n])
  BY <1>1, <1>2
<1>7. below = p[n - 1]
  <2> DEFINE w == Append(Front(Front(p)), p[n - 1])
  <2>1. ReplacesTwo(w, p, p[n - 1])
    BY DEF ReplacesTwo
  <2> HIDE DEF w
  <2> QED
    BY <1>1, <1>2, <1>6, <2>1, TwoReplaced
<1>8. below \in ContextType /\ ContextOK(below)
  BY <1>6, <1>7
<1> HIDE DEF below
<1>9. /\ dst \in Frames /\ Touch(ShownFrames(below), dst) = ShownFrames(c)
      /\ c \in ContextType /\ ContextOK(c) /\ c.by = below.by /\ c.forgotten = below.forgotten
      /\ c.spans = below.spans
      /\ ShownFrames(below) = <<>> \/ Last(ShownFrames(below)) = dst
  BY <1>8, ResumeShown
<1>10. /\ r.stack = ShownFrames(below) \o ShownFrames(p[n])
       /\ ShownFrames(below) \in Seq(Frames) /\ ShownFrames(p[n]) \in Seq(Frames)
  BY <1>2, <1>3, <1>6, <1>7, <1>8, ShownFramesType DEF Matches
<1>11. /\ Keeps(v, r, popped) /\ popped.inactive = r.inactive
       /\ popped.stack = ShownFrames(below)
       /\ Retains(v, r, popped, Len(OpenFrames(r)) - Len(ShownFrames(p[n])))
       /\ Len(ShownFrames(p[n])) \in 0..1
  <2>1. CASE Unseen(p[n])
    <3>1. Unseen(below)
      BY <1>1, <1>2, <1>7, <2>1 DEF ContextsOK
    <3>2. ShownFrames(p[n]) = <<>> /\ ShownFrames(below) = <<>>
      BY <1>6, <1>8, <2>1, <3>1, ShownFramesType
    <3>3. r.stack = <<>> /\ Len(ShownFrames(p[n])) = 0
      BY <1>10, <3>2
    <3>4. /\ Keeps(v, r, popped) /\ popped.inactive = r.inactive /\ popped.stack = <<>>
          /\ Retains(v, r, popped, Len(OpenFrames(r)))
      BY <1>1, <3>3, PopUntracedMoves
    <3>5. Len(OpenFrames(r)) - 0 = Len(OpenFrames(r))
      BY <1>1
    <3> QED
      BY <3>2, <3>3, <3>4, <3>5
  <2>2. CASE ~Unseen(p[n])
    <3>1. p[n].frames = <<Untraced>>
      BY <1>1 DEF ContextsOK
    <3>2. ShownFrames(p[n]) = <<Untraced>>
      BY <1>6, <2>2, <3>1, GapShown, Zenon
    <3>3. Len(ShownFrames(p[n])) = 1
      BY <3>2
    <3>4. r.stack # <<>> /\ Last(r.stack) = Untraced /\ Front(r.stack) = ShownFrames(below)
      <4>1. Untraced \in Frames
        BY DEF Frames
      <4>2. r.stack = Append(ShownFrames(below), Untraced)
        BY <1>10, <3>2, <4>1, AppendIsConcat
      <4> QED
        BY <1>10, <4>1, <4>2, FrontAppended DEF Adds
    <3>5. /\ Keeps(v, r, popped) /\ popped.inactive = r.inactive
          /\ popped.stack = ShownFrames(below)
          /\ Retains(v, r, popped, Len(OpenFrames(r)) - 1)
      BY <1>1, <3>4, PopUntracedMoves
    <3> QED
      BY <3>3, <3>5
  <2> QED
    BY <2>1, <2>2
<1>12. Good(v, popped) /\ Now(popped, time)
  BY <1>1, <1>11, NowOn
<1> HIDE DEF popped, dst, br, s, c
<1>13. /\ Keeps(v, popped, s) /\ s.stack = Touch(popped.stack, dst) /\ s.inactive = popped.inactive
       /\ Retains(v, popped, s, Len(OpenFrames(popped)))
  <2>1. popped.stack = <<>> \/ Last(popped.stack) = dst
    BY <1>9, <1>11
  <2> QED
    BY <1>4, <1>9, <1>12, <2>1, CheckCurrentSymbolMoves
<1>14. Good(v, s) /\ Keeps(v, r, s) /\ s \in ThreadInfo /\ y \in Seq(Span)
  BY <1>11, <1>13, KeepsFields, KeepsOn, OpenDepth
<1>15. /\ Len(Flat(p, n - 1)) = Len(OpenFrames(r)) - Len(ShownFrames(p[n]))
       /\ Len(Flat(p, n - 1)) \in Nat
  <2>1. Flat(p, n) = OpenFrames(r)
    BY <1>1, <1>3, FlatOpen
  <2>2. (n - 1) + 1 = n /\ n - 1 \in Nat /\ n - 1 < Len(p)
    BY <1>1
  <2>3. Flat(p, (n - 1) + 1) = Flat(p, n - 1) \o ShownFrames(p[(n - 1) + 1])
        /\ Flat(p, n - 1) \in Seq(Frames)
    BY <1>1, <2>2, FlatStep
  <2>4. Flat(p, n) = Flat(p, n - 1) \o ShownFrames(p[n])
    BY <2>2, <2>3
  <2> DEFINE a == Flat(p, n - 1)
             b == ShownFrames(p[n])
  <2>5. a \in Seq(Frames) /\ b \in Seq(Frames) /\ OpenFrames(r) = a \o b
    BY <1>10, <2>1, <2>3, <2>4
  <2> HIDE DEF a, b
  <2>6. Len(a) = Len(OpenFrames(r)) - Len(b) /\ Len(a) \in Nat
    BY <2>5
  <2> QED
    BY <2>6 DEF a, b
<1>16. Len(OpenFrames(popped)) = Len(Flat(p, n - 1))
  <2>1. /\ Len(OpenFrames(popped)) = Depth(popped) + Len(popped.stack)
        /\ Len(OpenFrames(r)) = Depth(r) + Len(r.stack) /\ Depth(r) \in Nat
    BY <1>1, <1>12, OpenDepth
  <2>2. Depth(popped) = Depth(r)
    BY <1>11 DEF Depth
  <2>3. Len(r.stack) = Len(ShownFrames(below)) + Len(ShownFrames(p[n]))
        /\ Len(ShownFrames(below)) \in Nat /\ Len(ShownFrames(p[n])) \in Nat
    BY <1>10
  <2> QED
    BY <1>11, <1>15, <2>1, <2>2, <2>3
<1>17. Retains(v, r, s, Len(Flat(p, n - 1)))
  <2>1. Len(Flat(p, n - 1)) <= Len(OpenFrames(popped)) /\ Len(OpenFrames(popped)) \in Nat
    BY <1>15, <1>16
  <2>2. Retains(v, r, popped, Len(Flat(p, n - 1)))
    BY <1>11, <1>15
  <2> QED
    BY <1>1, <1>12, <1>13, <1>14, <1>15, <2>1, <2>2, RetainsThrough
<1>18. Agree(x, y, Len(Flat(p, n - 1)))
  BY <1>17 DEF Retains
<1>19. s.stack = ShownFrames(c) /\ s.inactive = r.inactive
  BY <1>9, <1>11, <1>13
<1>20. c.by = p[n - 1].by /\ c.spans = p[n - 1].spans /\ c.forgotten = p[n - 1].forgotten
  BY <1>7, <1>9
<1> HIDE DEF x, y
<1>21. Reflects(q, s, y) /\ IsPrefix(Last(p).spans, y)
  BY <1>1, <1>5, <1>9, <1>14, <1>18, <1>19, <1>20, GapPassed DEF n
<1> QED
  BY <1>14, <1>21 DEF Followed, q, c, y, br, s, dst, below

\* The trace of the thread starts: its context is in the function that the event names.
LEMMA FirstFollowed ==
  ASSUME NEW v, NEW p, NEW r, NEW time, Ready(v, p, r, time),
         r.stack = <<>>, NEW src
  PROVE  LET frames == Last(p).frames
         IN  Followed(v, r, Branch(r, time, BranchOf("None", "Start", src, Last(frames))),
               Append(Front(p), Changed(Last(p), frames, Len(frames))))
<1> DEFINE c == Last(p)
           dst == Last(c.frames)
           d == Showing(c)
           br == BranchOf("None", "Start", src, dst)
           popped == PopUntraced(r, time)
           s == Branch(r, time, br)
           x == Standing(v, r).open
           y == Standing(v, s).open
           n == Len(p)
<1>1. /\ Good(v, r) /\ Now(r, time) /\ r \in ThreadInfo /\ x \in Seq(Span) /\ Reflects(p, r, x)
      /\ c \in ContextType /\ ContextOK(c) /\ ContextsOK(p) /\ p \in Seq(ContextType)
      /\ n \in Nat \ {0} /\ c = p[n]
      /\ \A i \in 1..n : p[i] \in ContextType /\ ContextOK(p[i])
      /\ \A i \in DOMAIN p : ContextOK(p[i])
  BY ReadyFields, BottomOf
<1>2. s = CheckCurrentSymbol(popped, time, dst)
  BY BranchByState, BranchOfKindByKind DEF BranchOf
<1>3. popped = r
  BY DEF PopUntraced
<1> HIDE DEF c, popped, br, s
<1>4. /\ dst \in Frames /\ Touch(ShownFrames(c), dst) = ShownFrames(d)
      /\ d \in ContextType /\ ContextOK(d) /\ ~Unseen(d) /\ d.by = c.by
      /\ d.forgotten = c.forgotten /\ d.spans = c.spans /\ d.frames = c.frames
  BY <1>1, ResumeShown
<1>5. d = Changed(c, c.frames, Len(c.frames))
  BY <1>1, ShowingChanges
<1>6. c.frames \in Seq(Frames) /\ Len(c.frames) \in 1..Len(c.frames)
  <2>1. c.frames \in Seq(Frames) /\ c.frames # <<>>
    BY <1>1, ContextFields DEF ContextOK
  <2> QED
    BY <2>1
<1> HIDE DEF dst, d
<1>7. /\ Keeps(v, r, s) /\ s.stack = Touch(r.stack, dst) /\ s.inactive = r.inactive
      /\ Retains(v, r, s, Depth(r))
  BY <1>1, <1>2, <1>3, <1>4, CheckCurrentSymbolMoves
<1>8. s \in ThreadInfo /\ y \in Seq(Span)
  BY <1>7, KeepsFields, OpenDepth
<1>9. CASE c.by # "End"
  <2>1. r.stack = ShownFrames(c)
    BY <1>9, ReadyFields DEF c
  <2>2. s.stack = ShownFrames(Changed(c, c.frames, Len(c.frames)))
    BY <1>4, <1>5, <1>7, <2>1
  <2>3. Followed(v, r, s, Append(Front(p), Changed(c, c.frames, Len(c.frames))))
    BY <1>6, <1>7, <1>9, <2>2, TopGoesOn DEF c
  <2> QED
    BY <2>3 DEF c, dst, br, s
<1>10. CASE c.by = "End"
  <2>1. PICK k \in Nat : Matches(p, r, k)
    BY <1>1 DEF Reflects
  <2>2. Bottom(p) = n - 1 /\ Bottom(p) \in 1..n /\ Gap(p) = ShownFrames(c)
    BY <1>1, <1>10, BottomOf DEF c
  <2>3. ShownFrames(p[Bottom(p)]) \in Seq(Frames) /\ ShownFrames(c) \in Seq(Frames)
    BY <1>1, <2>2, ShownFramesType
  <2> DEFINE a == ShownFrames(p[Bottom(p)])
             b == ShownFrames(c)
  <2>4. a \o b = <<>>
    BY <2>1, <2>2 DEF Matches
  <2>5. a = <<>> /\ b = <<>>
    <3> HIDE DEF a, b
    <3>1. a \in Seq(Frames) /\ b \in Seq(Frames)
      BY <2>3 DEF a, b
    <3>2. Len(a \o b) = Len(a) + Len(b)
      BY <3>1
    <3>3. Len(a) = 0 /\ Len(b) = 0
      BY <2>4, <3>1, <3>2
    <3> QED
      BY <3>1, <3>3
  <2>6. s.stack = ShownFrames(p[Bottom(p)]) \o ShownFrames(d)
    <3>1. s.stack = ShownFrames(d)
      BY <1>4, <1>7, <2>5
    <3>2. <<>> \o ShownFrames(d) = ShownFrames(d)
      BY <1>4, ShownFramesType, ConcatEmpty
    <3> QED
      BY <2>5, <3>1, <3>2
  <2>7. Len(Flat(p, n - 1)) = Depth(r)
    <3>1. Flat(p, Bottom(p) - 1) = OuterFrames(r.inactive)
      BY <1>1, <2>1, FlatOpen
    <3>2. (n - 2) + 1 = n - 1 /\ n - 2 \in Nat /\ n - 2 < Len(p) /\ Bottom(p) - 1 = n - 2
      BY <1>1, <2>2
    <3>3. /\ Flat(p, (n - 2) + 1) = Flat(p, n - 2) \o ShownFrames(p[(n - 2) + 1])
          /\ Flat(p, n - 2) \in Seq(Frames)
      BY <1>1, <3>2, FlatStep
    <3>4. Flat(p, n - 1) = Flat(p, n - 2) \o <<>>
      BY <2>2, <2>5, <3>2, <3>3
    <3>5. Flat(p, n - 1) = Flat(p, n - 2)
      BY <3>3, <3>4, ConcatEmpty
    <3> QED
      BY <3>1, <3>2, <3>5 DEF Depth
  <2>8. Agree(x, y, Len(Flat(p, n - 1)))
    BY <1>7, <2>7 DEF Retains
  <2>9. c.frames = <<Untraced>>
    BY <1>1, <1>10 DEF ContextsOK, c
  <2> HIDE DEF x, y
  <2>10. Reflects(Append(Front(p), d), s, y)
    <3>1. Last(p).by = "End"
      BY <1>10 DEF c
    <3> QED
      BY <1>1, <1>4, <1>7, <1>8, <2>6, <2>8, <2>9, <3>1, TopChanges DEF c, n
  <2>11. Followed(v, r, s, Append(Front(p), Changed(c, c.frames, Len(c.frames))))
    BY <1>5, <1>7, <2>10 DEF Followed, y
  <2> QED
    BY <2>11 DEF c, dst, br, s
<1> QED
  BY <1>9, <1>10

LEMMA LossOfSyncFollowed ==
  ASSUME NEW v, NEW p, NEW r, NEW time, Ready(v, p, r, time)
  PROVE  Followed(v, r, ClearAllCallstacks(r, time),
           [i \in DOMAIN p |-> Hidden(p[i], i < Bottom(p))])
<1> DEFINE s == ClearAllCallstacks(r, time)
           q == [i \in DOMAIN p |-> Hidden(p[i], i < Bottom(p))]
           x == Standing(v, r).open
           y == Standing(v, s).open
<1>1. /\ Good(v, r) /\ Now(r, time) /\ r \in ThreadInfo /\ x \in Seq(Span) /\ Reflects(p, r, x)
  BY ReadyFields
<1>2. Keeps(v, r, s) /\ s.stack = <<>> /\ s.inactive = <<>>
  BY <1>1, ClearAllCallstacksKeeps
<1>3. s \in ThreadInfo /\ y \in Seq(Span)
  BY <1>2, KeepsFields, OpenDepth
<1>4. q = [i \in DOMAIN p |-> Hidden(p[i], i < Bottom(p))]
  OBVIOUS
<1> HIDE DEF s, q, x, y
<1>5. Reflects(q, s, y)
  BY <1>1, <1>2, <1>3, <1>4, SyncLost
<1> QED
  BY <1>2, <1>5 DEF Followed, q, y, s

-----------------------------------------------------------------------------
(* The inductive invariant of programs and their callstacks *)

\* The kernel is entered by what the reconstructor takes for an entry.
EntersContexts == Entries \subseteq {"Syscall", "HardwareInterrupt"}

ProgramsReflected ==
  \A t \in Threads : Reflects(program[t], threads[t], ViewAfterFlush(t).open)

CInv == IInv /\ DOMAIN program = Threads /\ ProgramsReflected

\* Reflects is about the callstacks of r alone.
LEMMA ReflectsSame ==
  ASSUME NEW p, NEW r, NEW s, NEW spans, Reflects(p, r, spans),
         s.stack = r.stack, s.inactive = r.inactive
  PROVE  Reflects(p, s, spans)
BY DEF Reflects, Matches

\* The spans that are open once what is pending is written.
LEMMA FlushOpens ==
  ASSUME NEW v, NEW r, Good(v, r), r.out = <<>>
  PROVE  ReplayAll(v, Flushed(r, r.last_event_time)).open = Standing(v, r).open
<1>1. v \in View /\ r \in ThreadInfo /\ r.last_event_time \in Int
  BY GoodFields, ThreadInfoFields, TimeIsInt
<1>2. Shown(v, r) = v
  BY ReplayNothing DEF Shown
<1> DEFINE w == ReplayAll(v, Flushed(r, r.last_event_time))
<1>3. BegunOf(w) = PF!Fold(BegunOf(v), r.pending)
  BY <1>1, FlushTurns
<1> HIDE DEF w
<1>4. BegunOf(w).open = w.open
  BY DEF BegunOf
<1>5. Standing(v, r) = PF!Fold(BegunOf(v), r.pending)
  BY <1>2 DEF Standing
<1> QED
  BY <1>3, <1>4, <1>5 DEF w

\* A thread that comes to another time has the same spans open.
LEMMA SeenStanding ==
  ASSUME NEW v, NEW r \in ThreadInfo, NEW time, NEW s, s = [r EXCEPT !.last_event_time = time]
  PROVE  /\ Standing(v, s) = Standing(v, r)
         /\ s.stack = r.stack /\ s.inactive = r.inactive
<1>1. s.out = r.out /\ s.pending = r.pending /\ s.stack = r.stack /\ s.inactive = r.inactive
  BY DEF ThreadInfo
<1> QED
  BY <1>1 DEF Standing, Shown

LEMMA StoredStanding ==
  ASSUME NEW v, NEW s, Good(v, s), NEW x, x = [s EXCEPT !.out = <<>>]
  PROVE  /\ Standing(Shown(v, s), x) = Standing(v, s)
         /\ x.stack = s.stack /\ x.inactive = s.inactive /\ x.out = <<>>
<1>1. s \in ThreadInfo
  BY GoodFields
<1>2. x.pending = s.pending /\ x.out = <<>> /\ x.stack = s.stack /\ x.inactive = s.inactive
  BY <1>1 DEF ThreadInfo
<1>3. Shown(Shown(v, s), x) = Shown(v, s)
  BY <1>2, ReplayNothing DEF Shown
<1> QED
  BY <1>2, <1>3 DEF Standing

LEMMA IInvThread ==
  ASSUME IInv, NEW t \in Threads
  PROVE  /\ Good(viewer[t], threads[t]) /\ threads[t].out = <<>> /\ threads[t] \in ThreadInfo
         /\ ViewAfterFlush(t).open = Standing(viewer[t], threads[t]).open
<1>1. Good(viewer[t], threads[t]) /\ threads[t].out = <<>>
  BY DEF IInv, ThreadsTracked
<1>2. threads[t] \in ThreadInfo
  BY <1>1, GoodFields
<1>3. ViewAfterFlush(t).open = Standing(viewer[t], threads[t]).open
  BY <1>1, FlushOpens DEF ViewAfterFlush
<1> QED
  BY <1>1, <1>2, <1>3

LEMMA SeenReady ==
  ASSUME CInv, NEW t \in Threads, NEW time_ns \in Times
  PROVE  /\ Ready(viewer[t], program[t], Seen(t, time_ns), MapTime(time_ns))
         /\ Standing(viewer[t], Seen(t, time_ns)).open = ViewAfterFlush(t).open
         /\ Seen(t, time_ns).stack = threads[t].stack
<1> DEFINE v == viewer[t]
           r == Seen(t, time_ns)
<1>1. Good(v, r) /\ Now(r, MapTime(time_ns))
  BY SeenInOrder DEF CInv
<1>2. /\ threads[t] \in ThreadInfo
      /\ ViewAfterFlush(t).open = Standing(v, threads[t]).open
  BY IInvThread DEF CInv
<1>3. /\ Standing(v, r) = Standing(v, threads[t])
      /\ r.stack = threads[t].stack /\ r.inactive = threads[t].inactive
  BY <1>2, SeenStanding DEF Seen
<1>4. Reflects(program[t], threads[t], ViewAfterFlush(t).open)
  BY DEF CInv, ProgramsReflected
<1> HIDE DEF v, r
<1>5. Reflects(program[t], r, Standing(v, r).open)
  BY <1>2, <1>3, <1>4, ReflectsSame
<1> QED
  BY <1>1, <1>2, <1>3, <1>5 DEF Ready, v, r

\* What a handler does to its thread is what the program does.
LEMMA HandledProgram ==
  ASSUME CInv, NEW t \in Threads, NEW time_ns \in Times, NEW s, NEW q,
         HandleAt(t, time_ns, s), Followed(viewer[t], Seen(t, time_ns), s, q),
         program' = [program EXCEPT ![t] = q]
  PROVE  CInv' /\ ViewAfterFlush(t)'.open = Standing(viewer[t], s).open
<1> DEFINE v == viewer[t]
           x == [s EXCEPT !.out = <<>>]
<1>1. Keeps(v, Seen(t, time_ns), s) /\ Reflects(q, s, Standing(v, s).open) /\ Good(v, s)
  BY KeepsFields DEF Followed
<1>2. IInv'
  BY <1>1, HandleAtKeeps DEF CInv
<1>3. /\ threads' = [threads EXCEPT ![t] = x]
      /\ viewer' = [viewer EXCEPT ![t] = Shown(v, s)]
  BY DEF HandleAt, Store, Shown
<1>4. /\ Standing(Shown(v, s), x) = Standing(v, s)
      /\ x.stack = s.stack /\ x.inactive = s.inactive
  BY <1>1, StoredStanding
<1>5. DOMAIN threads = Threads /\ DOMAIN viewer = Threads /\ DOMAIN program = Threads
  BY DEF CInv, IInv, Types
<1> HIDE DEF x, v
<1>6. /\ threads'[t] = x /\ viewer'[t] = Shown(v, s) /\ program'[t] = q
      /\ \A u \in Threads \ {t} :
           threads'[u] = threads[u] /\ viewer'[u] = viewer[u] /\ program'[u] = program[u]
      /\ DOMAIN program' = Threads
  BY <1>3, <1>5
<1>7. /\ Good(viewer'[t], threads'[t]) /\ threads'[t].out = <<>>
  BY <1>2 DEF IInv, ThreadsTracked
<1>8. ViewAfterFlush(t)'.open = Standing(viewer'[t], threads'[t]).open
  <2>1. ViewAfterFlush(t)'
          = ReplayAll(viewer'[t], Flushed(threads'[t], threads'[t].last_event_time))
    BY DEF ViewAfterFlush
  <2> QED
    BY <1>7, <2>1, FlushOpens
<1>9. ViewAfterFlush(t)'.open = Standing(v, s).open
  BY <1>4, <1>6, <1>8
<1>10. Reflects(q, x, Standing(v, s).open)
  BY <1>1, <1>4, ReflectsSame
<1>11. ASSUME NEW u \in Threads
       PROVE  Reflects(program'[u], threads'[u], ViewAfterFlush(u)'.open)
  <2>1. CASE u = t
    BY <1>6, <1>9, <1>10, <2>1
  <2>2. CASE u # t
    <3>1. threads'[u] = threads[u] /\ viewer'[u] = viewer[u] /\ program'[u] = program[u]
      BY <1>6, <2>2
    <3>2. ViewAfterFlush(u)' = ViewAfterFlush(u)
      BY <3>1 DEF ViewAfterFlush
    <3>3. Reflects(program[u], threads[u], ViewAfterFlush(u).open)
      BY DEF CInv, ProgramsReflected
    <3> QED
      BY <3>1, <3>2, <3>3
  <2> QED
    BY <2>1, <2>2
<1>12. ProgramsReflected'
  BY <1>11 DEF ProgramsReflected
<1> QED
  BY <1>2, <1>6, <1>9, <1>12 DEF CInv, v

LEMMA ContextInitCInv == ContextInit => CInv
<1> SUFFICES ASSUME ContextInit PROVE CInv
  OBVIOUS
<1>1. IInv /\ Init
  BY InitIInv DEF ContextInit
<1>2. PICK ps \in [Threads -> Programs] :
        program = [t \in Threads |-> <<Context("Thread", ps[t], Len(ps[t]) + 1, <<>>)>>]
  BY DEF ContextInit
<1>3. ASSUME NEW t \in Threads
      PROVE  Reflects(program[t], threads[t], ViewAfterFlush(t).open)
  <2> DEFINE frames == ps[t]
             shown == Len(frames) + 1
             none == <<>>
             c == Context("Thread", frames, shown, none)
             p == program[t]
             r == threads[t]
             x == ViewAfterFlush(t).open
  <2>1. frames \in Seq(Symbols) /\ frames # <<>>
    BY <1>2, ProgramAssumption
  <2>2. frames \in Seq(Frames) /\ shown \in Nat /\ none \in Seq(Span)
    <3>1. Symbols \subseteq Frames
      BY DEF Frames
    <3> HIDE DEF frames
    <3>2. frames \in Seq(Frames)
      BY <2>1, <3>1
    <3> QED
      BY <3>2, ConcatEmpty
  <2>3. p = <<c>>
    BY <1>2
  <2>4. r.stack = <<>> /\ r.inactive = <<>>
    BY <1>1 DEF Init, NewThreadInfo
  <2>5. r \in ThreadInfo
    BY <1>1, IInvThread
  <2> HIDE DEF frames, shown, none, p, r, x
  <2>6. /\ c \in ContextType /\ c.by = "Thread" /\ c.frames = frames /\ c.shown = shown
        /\ c.forgotten = FALSE /\ c.spans = none
    BY <2>2 DEF Context, ContextType
  <2> HIDE DEF c
  <2>7. ContextOK(c) /\ Unseen(c)
    <3>1. Len(frames) \in Nat
      BY <2>2
    <3> QED
      BY <2>1, <2>6, <3>1 DEF ContextOK, Unseen, shown
  <2>8. ShownFrames(c) = <<>>
    BY <2>6, <2>7, ShownFramesType
  <2>9. p \in Seq(ContextType) /\ Len(p) = 1 /\ p[1] = c /\ DOMAIN p = 1..1 /\ p # <<>>
    BY <2>3, <2>6
  <2>10. Last(p) = c
    BY <2>9 DEF Last
  <2>11. Bottom(p) = 1 /\ Gap(p) = <<>>
    BY <2>6, <2>9, <2>10 DEF Bottom, Gap
  <2>12. ContextsOK(p)
    <3>1. \A i \in 1..1 : i = 1
      OBVIOUS
    <3> QED
      BY <2>6, <2>7, <2>9, <2>10, <3>1 DEF ContextsOK
  <2>13. Matches(p, r, 0)
    <3>1. 0 < 1 /\ Len(<<>>) = 1 - 1 - 0 /\ \A i \in 1..1 : i = 1 /\ ~(i <= 0)
      OBVIOUS
    <3>2. r.stack = ShownFrames(p[1]) \o <<>>
      <4>1. <<>> \o <<>> = <<>>
        OBVIOUS
      <4> QED
        BY <2>4, <2>8, <2>9, <4>1
    <3>3. \A j \in DOMAIN r.inactive : FALSE
      BY <2>4
    <3> QED
      BY <2>4, <2>6, <2>9, <2>11, <3>1, <3>2, <3>3 DEF Matches
  <2>14. SpansOK(p, x)
    <3>1. \A i \in 1..1 : i = 1
      OBVIOUS
    <3>2. IsPrefix(none, x)
      BY DEF IsPrefix, none
    <3>3. Len(none) <= Len(Flat(p, 1 - 1))
      <4>1. 1 - 1 = 0 /\ Flat(p, 0) = <<>>
        BY FlatNone
      <4> QED
        BY <4>1 DEF none
    <3> QED
      BY <2>6, <2>9, <3>1, <3>2, <3>3 DEF SpansOK
  <2>15. Reflects(p, r, x)
    BY <2>12, <2>13, <2>14 DEF Reflects
  <2> QED
    BY <2>15 DEF p, r, x
<1>4. DOMAIN program = Threads
  BY <1>2
<1> QED
  BY <1>1, <1>3, <1>4 DEF CInv, ProgramsReflected

-----------------------------------------------------------------------------
(* The steps of programs *)

\* If t's innermost context has ended, the spans that it found are open.
Resumes(t) ==
  Len(program'[t]) < Len(program[t]) => IsPrefix(Top(t).spans, ViewAfterFlush(t)'.open)

ProgramStep == CInv' /\ \A t \in Threads : Resumes(t)

LEMMA HandledStep ==
  ASSUME CInv, NEW t \in Threads, NEW time_ns \in Times, NEW s, NEW q,
         HandleAt(t, time_ns, s), Followed(viewer[t], Seen(t, time_ns), s, q),
         program' = [program EXCEPT ![t] = q],
         Len(q) < Len(program[t]) => IsPrefix(Top(t).spans, Standing(viewer[t], s).open)
  PROVE  ProgramStep
<1>1. CInv' /\ ViewAfterFlush(t)'.open = Standing(viewer[t], s).open
  BY HandledProgram
<1>2. DOMAIN program = Threads
  BY DEF CInv
<1>3. program'[t] = q
  BY <1>2
<1>4. ASSUME NEW u \in Threads
      PROVE  Resumes(u)
  <2>1. CASE u = t
    BY <1>1, <1>3, <2>1 DEF Resumes
  <2>2. CASE u # t
    <3>1. program'[u] = program[u]
      BY <1>2, <2>2
    <3>2. program[u] \in Seq(ContextType)
      BY DEF CInv, ProgramsReflected, Reflects, ContextsOK
    <3>3. ~(Len(program[u]) < Len(program[u]))
      BY <3>2
    <3> QED
      BY <3>1, <3>3 DEF Resumes
  <2> QED
    BY <2>1, <2>2
<1> QED
  BY <1>1, <1>4 DEF ProgramStep

\* The same for what the trace has of it.
LEMMA TracedStep ==
  ASSUME CInv, NEW t \in Threads, NEW time_ns \in Times,
         NEW kind, NEW state, NEW src, NEW dst, Traced(t, time_ns, kind, state, src, dst),
         NEW s, s = Branch(Seen(t, time_ns), MapTime(time_ns), BranchOf(kind, state, src, dst)),
         NEW q, Followed(viewer[t], Seen(t, time_ns), s, q),
         program' = [program EXCEPT ![t] = q],
         Len(q) < Len(program[t]) => IsPrefix(Top(t).spans, Standing(viewer[t], s).open)
  PROVE  ProgramStep
<1>1. HandleAt(t, time_ns, s)
  BY DEF Traced, ProcessBranch, AfterBranch, BranchOf
<1> QED
  BY <1>1, HandledStep

\* The innermost context goes on in other frames.
LEMMA TopStep ==
  ASSUME CInv, NEW t \in Threads, NEW time_ns \in Times,
         NEW kind, NEW state, NEW src, NEW dst, Traced(t, time_ns, kind, state, src, dst),
         NEW frames, NEW depth, BecomesTop(t, frames, depth),
         Followed(viewer[t], Seen(t, time_ns),
           Branch(Seen(t, time_ns), MapTime(time_ns), BranchOf(kind, state, src, dst)),
           Append(Front(program[t]), Changed(Top(t), frames, depth)))
  PROVE  ProgramStep
<1> DEFINE p == program[t]
           c == Changed(Top(t), frames, depth)
           q == Append(Front(p), c)
           s == Branch(Seen(t, time_ns), MapTime(time_ns), BranchOf(kind, state, src, dst))
<1>1. program' = [program EXCEPT ![t] = q]
  BY DEF BecomesTop, Changed
<1>2. p \in Seq(ContextType) /\ p # <<>>
  BY SeenReady, ReadyFields
<1>3. ~(Len(q) < Len(p))
  <2>1. Front(p) \in Seq(ContextType) /\ Len(Front(p)) = Len(p) - 1 /\ Len(p) \in Nat
    BY <1>2, FrontParts
  <2> HIDE DEF p, c
  <2>2. q = Append(Front(p), c)
    OBVIOUS
  <2>3. Len(q) = Len(Front(p)) + 1
    BY <2>1
  <2> QED
    BY <2>1, <2>3
<1> HIDE DEF p, c, q, s
<1>4. Followed(viewer[t], Seen(t, time_ns), s, q)
  BY DEF p, c, q, s
<1>5. s = Branch(Seen(t, time_ns), MapTime(time_ns), BranchOf(kind, state, src, dst))
  BY DEF s
<1> QED
  BY <1>1, <1>3, <1>4, <1>5, TracedStep DEF p

LEMMA CallFunctionStep ==
  ASSUME CInv, NEW t \in Threads, NEW time_ns \in Times, NEW dst \in Symbols,
         CallFunction(t, time_ns, dst)
  PROVE  ProgramStep
<1> DEFINE frames == Top(t).frames
<1>1. /\ Traced(t, time_ns, "Call", "None", Last(frames), dst)
      /\ BecomesTop(t, Append(frames, dst), Len(frames)) /\ Last(program[t]).by # "End"
  BY DEF CallFunction, Running, Top
<1>2. dst \in Frames
  BY DEF Frames
<1>3. Followed(viewer[t], Seen(t, time_ns),
        Branch(Seen(t, time_ns), MapTime(time_ns), BranchOf("Call", "None", Last(frames), dst)),
        Append(Front(program[t]), Changed(Top(t), Append(frames, dst), Len(frames))))
  BY <1>1, <1>2, SeenReady, CallFollowed DEF Top
<1> QED
  BY <1>1, <1>3, TopStep, Zenon

LEMMA ReturnToCallerStep ==
  ASSUME CInv, NEW t \in Threads, NEW time_ns \in Times, ReturnToCaller(t, time_ns)
  PROVE  ProgramStep
<1> DEFINE callers == Front(Top(t).frames)
<1>1. /\ Traced(t, time_ns, "Return", "None", Unknown, Last(callers))
      /\ BecomesTop(t, callers, Len(callers)) /\ Last(program[t]).by # "End"
      /\ Front(Last(program[t]).frames) # <<>>
  BY DEF ReturnToCaller, Running, Top
<1>2. Followed(viewer[t], Seen(t, time_ns),
        Branch(Seen(t, time_ns), MapTime(time_ns),
               BranchOf("Return", "None", Unknown, Last(callers))),
        Append(Front(program[t]), Changed(Top(t), callers, Len(callers))))
  BY <1>1, SeenReady, ReturnFollowed DEF Top
<1> QED
  BY <1>1, <1>2, TopStep, Zenon

LEMMA JumpToStep ==
  ASSUME CInv, NEW t \in Threads, NEW time_ns \in Times, NEW dst \in Symbols,
         JumpTo(t, time_ns, dst)
  PROVE  ProgramStep
<1> DEFINE frames == Top(t).frames
<1>1. /\ Traced(t, time_ns, "Jump", "None", Unknown, dst)
      /\ BecomesTop(t, Append(Front(frames), dst), Len(frames)) /\ Last(program[t]).by # "End"
  BY DEF JumpTo, Running, Top
<1>2. dst \in Frames
  BY DEF Frames
<1>3. Followed(viewer[t], Seen(t, time_ns),
        Branch(Seen(t, time_ns), MapTime(time_ns), BranchOf("Jump", "None", Unknown, dst)),
        Append(Front(program[t]), Changed(Top(t), Append(Front(frames), dst), Len(frames))))
  BY <1>1, <1>2, SeenReady, JumpFollowed DEF Top
<1> QED
  BY <1>1, <1>3, TopStep, Zenon

\* The innermost context is interrupted, with the spans that are open then.
LEMMA InterruptedStep ==
  ASSUME CInv, NEW t \in Threads, NEW time_ns \in Times,
         NEW kind, NEW state, NEW src, NEW dst, Traced(t, time_ns, kind, state, src, dst),
         NEW by, NEW frames, Interrupted(t, by, frames),
         Followed(viewer[t], Seen(t, time_ns),
           Branch(Seen(t, time_ns), MapTime(time_ns), BranchOf(kind, state, src, dst)),
           Append(program[t],
                  Context(by, frames, 1, Standing(viewer[t], Seen(t, time_ns)).open)))
  PROVE  ProgramStep
<1> DEFINE p == program[t]
           c == Context(by, frames, 1, ViewAfterFlush(t).open)
           q == Append(p, c)
           s == Branch(Seen(t, time_ns), MapTime(time_ns), BranchOf(kind, state, src, dst))
<1>1. program' = [program EXCEPT ![t] = q]
  BY DEF Interrupted
<1>2. p \in Seq(ContextType) /\ Standing(viewer[t], Seen(t, time_ns)).open = ViewAfterFlush(t).open
  BY SeenReady, ReadyFields
<1>3. ~(Len(q) < Len(p))
  <2> HIDE DEF p, c
  <2>1. Len(p) \in Nat /\ Len(Append(p, c)) = Len(p) + 1
    BY <1>2
  <2> QED
    BY <2>1
<1>4. Followed(viewer[t], Seen(t, time_ns), s, q)
  BY <1>2
<1> HIDE DEF p, c, q, s
<1>5. s = Branch(Seen(t, time_ns), MapTime(time_ns), BranchOf(kind, state, src, dst))
  BY DEF s
<1> QED
  BY <1>1, <1>3, <1>4, <1>5, TracedStep DEF p

LEMMA EnterKernelStep ==
  ASSUME EntersContexts, CInv, NEW t \in Threads, NEW time_ns \in Times, NEW entry \in Entries,
         NEW dst \in Symbols, EnterKernel(t, time_ns, entry, dst)
  PROVE  ProgramStep
<1>1. /\ Traced(t, time_ns, entry, "None", Unknown, dst) /\ Interrupted(t, entry, <<dst>>)
      /\ Last(program[t]).by # "End"
  BY DEF EnterKernel, Running, Top
<1>2. dst \in Frames /\ entry \in {"Syscall", "HardwareInterrupt"}
  BY DEF Frames, EntersContexts
<1>3. Followed(viewer[t], Seen(t, time_ns),
        Branch(Seen(t, time_ns), MapTime(time_ns), BranchOf(entry, "None", Unknown, dst)),
        Append(program[t],
               Context(entry, <<dst>>, 1, Standing(viewer[t], Seen(t, time_ns)).open)))
  BY <1>1, <1>2, SeenReady, EntryFollowed
<1> QED
  BY <1>1, <1>3, InterruptedStep, Zenon

LEMMA LoseTraceStep ==
  ASSUME CInv, NEW t \in Threads, NEW time_ns \in Times, LoseTrace(t, time_ns)
  PROVE  ProgramStep
<1>1. /\ Traced(t, time_ns, "None", "End", Unknown, Unknown)
      /\ Interrupted(t, "End", <<Untraced>>) /\ Last(program[t]).by # "End"
  BY DEF LoseTrace, Running, Top
<1>2. Followed(viewer[t], Seen(t, time_ns),
        Branch(Seen(t, time_ns), MapTime(time_ns), BranchOf("None", "End", Unknown, Unknown)),
        Append(program[t],
               Context("End", <<Untraced>>, 1, Standing(viewer[t], Seen(t, time_ns)).open)))
  BY <1>1, SeenReady, LossFollowed
<1> QED
  BY <1>1, <1>2, InterruptedStep, Zenon

\* The context around the innermost one goes on, with the spans that the latter found.
LEMMA ResumedStep ==
  ASSUME CInv, NEW t \in Threads, NEW time_ns \in Times,
         NEW kind, NEW state, NEW src, NEW dst, Traced(t, time_ns, kind, state, src, dst),
         NEW c, Resume(t, c),
         NEW s, s = Branch(Seen(t, time_ns), MapTime(time_ns), BranchOf(kind, state, src, dst)),
         Followed(viewer[t], Seen(t, time_ns), s, Append(Front(Front(program[t])), c)),
         IsPrefix(Top(t).spans, Standing(viewer[t], s).open)
  PROVE  ProgramStep
<1> DEFINE q == Append(Front(Front(program[t])), c)
<1>1. program' = [program EXCEPT ![t] = q]
  BY DEF Resume
<1> HIDE DEF q
<1>2. Followed(viewer[t], Seen(t, time_ns), s, q)
  BY DEF q
<1> QED
  BY <1>1, <1>2, TracedStep

LEMMA LeaveKernelStep ==
  ASSUME EntersContexts, CInv, NEW t \in Threads, NEW time_ns \in Times, LeaveKernel(t, time_ns)
  PROVE  ProgramStep
<1> DEFINE below == Last(Front(program[t]))
           kind == IF Top(t).by = "Syscall" THEN "Sysret" ELSE "Iret"
           c == IF below.forgotten THEN [below EXCEPT !.forgotten = FALSE] ELSE Showing(below)
           s == Branch(Seen(t, time_ns), MapTime(time_ns),
                       BranchOf(kind, "None", Unknown, Last(below.frames)))
<1>1. /\ Top(t).by \in Entries /\ Resume(t, c)
      /\ Traced(t, time_ns, kind, "None", Unknown, Last(below.frames))
  BY DEF LeaveKernel
<1>2. kind \in {"Sysret", "Iret"} /\ Last(program[t]).by \notin {"Thread", "End"}
  BY <1>1 DEF EntersContexts, Top
<1> HIDE DEF kind
<1>3. Ready(viewer[t], program[t], Seen(t, time_ns), MapTime(time_ns))
  BY SeenReady
<1>4. /\ Followed(viewer[t], Seen(t, time_ns), s, Append(Front(Front(program[t])), c))
      /\ IsPrefix(Top(t).spans, Standing(viewer[t], s).open)
  BY <1>2, <1>3, LeaveFollowed DEF Top
<1> HIDE DEF c, s
<1>5. s = Branch(Seen(t, time_ns), MapTime(time_ns),
                 BranchOf(kind, "None", Unknown, Last(below.frames)))
  BY DEF s
<1> QED
  BY <1>1, <1>4, <1>5, ResumedStep, Zenon

LEMMA StartTraceStep ==
  ASSUME CInv, NEW t \in Threads, NEW time_ns \in Times, StartTrace(t, time_ns)
  PROVE  ProgramStep
<1>1. ASSUME threads[t] = NewThreadInfo,
             Traced(t, time_ns, "None", "Start", Unknown, Last(Top(t).frames)),
             BecomesTop(t, Top(t).frames, Len(Top(t).frames))
      PROVE  ProgramStep
  <2> DEFINE frames == Top(t).frames
  <2>1. /\ Ready(viewer[t], program[t], Seen(t, time_ns), MapTime(time_ns))
        /\ Seen(t, time_ns).stack = <<>>
    BY <1>1, SeenReady DEF NewThreadInfo
  <2>2. Followed(viewer[t], Seen(t, time_ns),
          Branch(Seen(t, time_ns), MapTime(time_ns),
                 BranchOf("None", "Start", Unknown, Last(frames))),
          Append(Front(program[t]), Changed(Top(t), frames, Len(frames))))
    BY <2>1, FirstFollowed DEF Top
  <2> QED
    BY <1>1, <2>2, TopStep, Zenon
<1>2. ASSUME Top(t).by = "End",
             Traced(t, time_ns, "None", "Start", Unknown,
                    Last(Last(Front(program[t])).frames)),
             Resume(t, Showing(Last(Front(program[t]))))
      PROVE  ProgramStep
  <2> DEFINE below == Last(Front(program[t]))
             s == Branch(Seen(t, time_ns), MapTime(time_ns),
                         BranchOf("None", "Start", Unknown, Last(below.frames)))
  <2>1. Ready(viewer[t], program[t], Seen(t, time_ns), MapTime(time_ns))
    BY SeenReady
  <2>2. /\ Followed(viewer[t], Seen(t, time_ns), s,
                    Append(Front(Front(program[t])), Showing(below)))
        /\ IsPrefix(Top(t).spans, Standing(viewer[t], s).open)
    BY <1>2, <2>1, StartFollowed DEF Top
  <2> HIDE DEF s
  <2>3. s = Branch(Seen(t, time_ns), MapTime(time_ns),
                   BranchOf("None", "Start", Unknown, Last(below.frames)))
    BY DEF s
  <2> QED
    BY <1>2, <2>2, <2>3, ResumedStep, Zenon
<1> QED
  BY <1>1, <1>2 DEF StartTrace

LEMMA LoseSyncStep ==
  ASSUME CInv, NEW t \in Threads, NEW time_ns \in Times, LoseSync(t, time_ns)
  PROVE  ProgramStep
<1> DEFINE p == program[t]
           q == [i \in DOMAIN p |-> Hidden(p[i], i < Bottom(p))]
           s == ClearAllCallstacks(Seen(t, time_ns), MapTime(time_ns))
<1>1. HandleAt(t, time_ns, s)
  BY DEF LoseSync, DecodeErrorAt, AfterDecodeError
<1>2. program' = [program EXCEPT ![t] = q]
  BY DEF LoseSync, Bottom, Running, Top
<1>3. Ready(viewer[t], p, Seen(t, time_ns), MapTime(time_ns))
  BY SeenReady
<1>4. Followed(viewer[t], Seen(t, time_ns), s, q)
  BY <1>3, LossOfSyncFollowed
<1>5. ~(Len(q) < Len(p))
  <2>1. p \in Seq(ContextType) /\ q \in Seq(ContextType)
    BY <1>3, <1>4, ReadyFields DEF Followed, Reflects, ContextsOK
  <2>2. DOMAIN q = DOMAIN p
    OBVIOUS
  <2> HIDE DEF p, q
  <2>3. Len(p) \in Nat /\ Len(q) \in Nat /\ 1..Len(p) = 1..Len(q)
    BY <2>1, <2>2
  <2> QED
    BY <2>3
<1> HIDE DEF p, q, s
<1> QED
  BY <1>1, <1>2, <1>4, <1>5, HandledStep DEF p

LEMMA ContextNextStep ==
  ASSUME EntersContexts, CInv, [ContextNext]_programVars
  PROVE  ProgramStep
<1>1. ASSUME ContextNext
      PROVE  ProgramStep
  <2> SUFFICES ASSUME NEW t \in Threads, NEW time_ns \in Times,
                      \/ \E dst \in Symbols :
                           CallFunction(t, time_ns, dst) \/ JumpTo(t, time_ns, dst)
                      \/ \E entry \in Entries, dst \in Symbols :
                           EnterKernel(t, time_ns, entry, dst)
                      \/ ReturnToCaller(t, time_ns) \/ LeaveKernel(t, time_ns)
                      \/ LoseTrace(t, time_ns) \/ StartTrace(t, time_ns)
                      \/ LoseSync(t, time_ns)
               PROVE  ProgramStep
    BY <1>1 DEF ContextNext
  <2> QED
    BY CallFunctionStep, JumpToStep, EnterKernelStep, ReturnToCallerStep, LeaveKernelStep,
       LoseTraceStep, StartTraceStep, LoseSyncStep, Zenon
<1>2. CASE UNCHANGED programVars
  <2>1. UNCHANGED vars /\ program' = program
    BY <1>2 DEF programVars
  <2>2. IInv'
    BY <2>1, NextIInv DEF CInv
  <2>3. \A t \in Threads :
          program'[t] = program[t] /\ threads'[t] = threads[t] /\ viewer'[t] = viewer[t]
    BY <2>1 DEF vars
  <2>4. \A t \in Threads : ViewAfterFlush(t)' = ViewAfterFlush(t)
    BY <2>3 DEF ViewAfterFlush
  <2>5. ProgramsReflected'
    BY <2>1, <2>3, <2>4 DEF CInv, ProgramsReflected
  <2>6. ASSUME NEW t \in Threads
        PROVE  Resumes(t)
    <3>1. program[t] \in Seq(ContextType)
      BY DEF CInv, ProgramsReflected, Reflects, ContextsOK
    <3>2. ~(Len(program[t]) < Len(program[t]))
      BY <3>1
    <3> QED
      BY <2>3, <3>2 DEF Resumes
  <2> QED
    BY <2>1, <2>2, <2>5, <2>6 DEF CInv, ProgramStep
<1> QED
  BY <1>1, <1>2

-----------------------------------------------------------------------------
(* What the trace tells of a program *)

\* Whatever the programs, and whatever is lost of them: the callstacks of the
\* reconstructor are those of the program as far as the trace has shown them, if the
\* kernel is entered by branches that process_branch takes for entries.
THEOREM CallstacksAreTheProgram ==
  ASSUME EntersContexts PROVE ContextSpec => []FramesMatchProgram
<1>1. ContextInit => CInv
  BY ContextInitCInv
<1>2. CInv /\ [ContextNext]_programVars => CInv'
  BY ContextNextStep DEF ProgramStep
<1>3. CInv => FramesMatchProgram
  <2> SUFFICES ASSUME CInv, NEW t \in Threads
               PROVE  OpenFrames(threads[t])
                        = FlattenSeq([i \in DOMAIN program[t] |-> ShownFrames(program[t][i])])
    BY DEF FramesMatchProgram
  <2> DEFINE p == program[t]
             r == threads[t]
  <2>1. r \in ThreadInfo
    BY IInvThread DEF CInv
  <2>2. Reflects(p, r, ViewAfterFlush(t).open)
    BY DEF CInv, ProgramsReflected
  <2> HIDE DEF p, r
  <2>3. ContextsOK(p) /\ p \in Seq(ContextType) /\ \E k \in Nat : Matches(p, r, k)
    BY <2>2 DEF Reflects, ContextsOK
  <2>4. Flat(p, Len(p)) = OpenFrames(r)
    BY <2>1, <2>3, FlatOpen
  <2>5. DOMAIN p = 1..Len(p)
    BY <2>3
  <2> QED
    BY <2>4, <2>5 DEF Flat, p, r
<1> QED
  BY <1>1, <1>2, <1>3, PTL DEF ContextSpec

\* A thread that comes back from the kernel, or whose trace starts again, has the spans
\* open that it had when it was interrupted: leave_context and the start of a trace close
\* what they find of the context that ends, and begin nothing of the one that goes on again.
THEOREM ThreadsResumeWhereInterrupted ==
  ASSUME EntersContexts PROVE ContextSpec => ResumesWhereInterrupted
<1>1. ContextInit => CInv
  BY ContextInitCInv
<1>2. CInv /\ [ContextNext]_programVars => CInv'
  BY ContextNextStep DEF ProgramStep
<1>3. CInv /\ [ContextNext]_programVars
        => [\A t \in Threads : Len(program'[t]) < Len(program[t]) =>
              IsPrefix(Top(t).spans, ViewAfterFlush(t)'.open)]_programVars
  BY ContextNextStep DEF ProgramStep, Resumes
<1> QED
  BY <1>1, <1>2, <1>3, PTL DEF ContextSpec, ResumesWhereInterrupted
=============================================================================
