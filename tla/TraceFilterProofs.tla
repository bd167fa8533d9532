-------------------------- MODULE TraceFilterProofs --------------------------
(***************************************************************************)
(* Theorems about TraceFilterSlices for every configuration, every choice  *)
(* of the symbols that match and every length of the input: the warning,   *)
(* that the filter passes exactly the events of the regions, and that it   *)
(* counts those that have ended.                                           *)
(***************************************************************************)
EXTENDS TraceFilterSlices, FiniteSetTheorems, TLAPS

FT == INSTANCE FoldTheorems WITH Op <- LAMBDA a, b : a

States == {"Waiting", "Recording", "Done"}

SlicesType ==
  /\ state \in States
  /\ saw_start \in BOOLEAN
  /\ seen \in Seq(FilterEvents)
  /\ passed \in Seq(BOOLEAN)
  /\ Len(passed) = Len(seen)

NothingPassed == \A i \in DOMAIN passed : ~passed[i]

\* The flag saw_start tells whether the wait for a start symbol is over, and
\* it is over exactly when an event has passed.
IInv ==
  /\ SlicesType
  /\ config.has_start /\ ~saw_start => state = "Waiting" /\ NothingPassed
  /\ config.has_start /\ saw_start => ~NothingPassed

LEMMA InitHolds == SlicesInit => IInv
<1>1. SUFFICES ASSUME SlicesInit PROVE IInv
  OBVIOUS
<1>2. state \in States /\ (config.has_start => state = "Waiting") /\ saw_start = FALSE
  BY <1>1 DEF SlicesInit, FilterInit, States
<1>3. /\ seen \in Seq(FilterEvents) /\ passed \in Seq(BOOLEAN)
      /\ Len(passed) = Len(seen) /\ NothingPassed
  BY <1>1 DEF SlicesInit, NothingPassed
<1>4. QED
  BY <1>2, <1>3 DEF IInv, SlicesType

\* What Append does to NothingPassed.
LEMMA AppendPassed ==
  ASSUME passed \in Seq(BOOLEAN), NEW b \in BOOLEAN, passed' = Append(passed, b)
  PROVE  /\ passed' \in Seq(BOOLEAN)
         /\ Len(passed') = Len(passed) + 1
         /\ NothingPassed' <=> NothingPassed /\ ~b
BY DEF NothingPassed

LEMMA AskKeeps == ASSUME IInv, NEW e \in FilterEvents, Ask(e) PROVE IInv'
<1>1. Passes(e) \in BOOLEAN
  BY DEF Passes
<1>2. /\ passed' \in Seq(BOOLEAN)
      /\ Len(passed') = Len(passed) + 1
      /\ NothingPassed' <=> NothingPassed /\ ~Passes(e)
  BY <1>1, AppendPassed DEF IInv, SlicesType, Ask
<1>3. seen' \in Seq(FilterEvents) /\ Len(passed') = Len(seen')
  BY <1>2 DEF IInv, SlicesType, Ask
<1>4. CASE StartSlice(e)
  <2>1. Passes(e) /\ state' = "Recording" /\ saw_start' = TRUE /\ config' = config
    BY <1>4 DEF StartSlice, Passes
  <2>2. QED
    BY <1>2, <1>3, <2>1 DEF IInv, SlicesType, States
<1>5. CASE EndSlice(e)
  <2>1. Passes(e) /\ state' \in States /\ UNCHANGED <<saw_start, config>>
    BY <1>5 DEF EndSlice, Passes, States
  <2>2. config.has_start => saw_start
    BY <1>5 DEF EndSlice, IInv, SlicesType
  <2>3. QED
    BY <1>2, <1>3, <2>1, <2>2 DEF IInv, SlicesType
<1>6. CASE Unmoved(e)
  <2>1. UNCHANGED <<state, saw_start, config>>
    BY <1>6 DEF Unmoved, filterVars
  <2>2. Passes(e) => state = "Recording"
    BY <1>6 DEF Unmoved, Passes
  <2>3. config.has_start /\ ~saw_start => ~Passes(e)
    BY <2>2 DEF IInv
  <2>4. QED
    BY <1>2, <1>3, <2>1, <2>3 DEF IInv, SlicesType
<1>7. QED
  BY <1>4, <1>5, <1>6 DEF Ask, ShouldPass

LEMMA StepKeeps == IInv /\ [SlicesNext]_sliceVars => IInv'
<1>1. SUFFICES ASSUME IInv, [SlicesNext]_sliceVars PROVE IInv'
  OBVIOUS
<1>2. CASE SlicesNext
  BY <1>1, <1>2, AskKeeps DEF SlicesNext
<1>3. CASE UNCHANGED sliceVars
  BY <1>1, <1>3 DEF IInv, SlicesType, NothingPassed, sliceVars, filterVars
<1>4. QED
  BY <1>1, <1>2, <1>3

\* The warning "start symbol was not found" is printed exactly when the filter
\* has let no event through, for every input and configuration with a start
\* symbol.  (start_symbol_missing, decode_perf_data)
THEOREM WarningIsRight == SlicesSpec => []WarnsExactlyWhenEmpty
<1>1. IInv => WarnsExactlyWhenEmpty
  BY DEF IInv, SlicesType, WarnsExactlyWhenEmpty, StartSymbolMissing, NothingPassed
<1>2. QED
  BY <1>1, InitHolds, StepKeeps, PTL DEF SlicesSpec

-----------------------------------------------------------------------------
(* Regions of an input of l events, of which those at S are starts and those *)
(* at E are ends                                                             *)

Earliest(past, i, T) == Min({j \in T : j >= i} \cup {past})

Region(past, S, E, has_start, i) ==
  LET from == IF has_start THEN Earliest(past, i, S) ELSE i - 1
  IN  [from |-> from, to |-> Earliest(past, from + 1, E)]

\* f is the sequence of the first n regions.
Chain(f, n, past, S, E, has_start) ==
  f = [m \in 1..n |-> IF m = 1 THEN Region(past, S, E, has_start, 1)
                      ELSE Region(past, S, E, has_start, f[m - 1].to + 1)]

LEMMA EarliestIs ==
  ASSUME NEW past \in Int, NEW i \in Int, NEW T \in SUBSET Int, NEW x \in Int,
         x = past \/ (x \in T /\ x >= i), x <= past,
         \A j \in T : j >= i => x <= j
  PROVE  Earliest(past, i, T) = x
<1> DEFINE A == {j \in T : j >= i} \cup {past}
<1>1. x \in A /\ \A y \in A : x <= y
  OBVIOUS
<1>2. \A z \in A : z \in Int
  OBVIOUS
<1>3. \A z \in A : (\A y \in A : z <= y) => z = x
  BY <1>1, <1>2
<1> HIDE DEF A
<1>4. Min(A) = x
  BY <1>1, <1>3 DEF Min
<1> QED
  BY <1>4 DEF Earliest, A

LEMMA EarliestType ==
  ASSUME NEW l \in Nat, NEW i \in Int, NEW T \in SUBSET (1..l)
  PROVE  /\ Earliest(l + 1, i, T) \in 1..(l + 1)
         /\ Earliest(l + 1, i, T) <= l => Earliest(l + 1, i, T) \in T /\ Earliest(l + 1, i, T) >= i
         /\ \A j \in T : j >= i => Earliest(l + 1, i, T) <= j
<1> DEFINE A == {j \in T : j >= i} \cup {l + 1}
<1>1. A \in SUBSET Nat /\ A # {} /\ A \subseteq 1..(l + 1)
  <2>1. l + 1 \in A /\ l + 1 \in 1..(l + 1)
    OBVIOUS
  <2>2. \A j \in T : j \in 1..(l + 1)
    OBVIOUS
  <2>3. 1..(l + 1) \subseteq Nat
    OBVIOUS
  <2>4. \A a \in A : a \in 1..(l + 1)
    BY <2>1, <2>2
  <2> QED
    BY <2>1, <2>3, <2>4
<1>2. PICK m \in A : \A n \in A : ~(n < m)
  BY <1>1, FT!LeastElement
<1>3. m \in Int /\ l + 1 \in Int /\ T \in SUBSET Int
  BY <1>1
<1>4. m <= l + 1 /\ \A j \in T : j >= i => m <= j
  BY <1>1, <1>2
<1>5. m = l + 1 \/ (m \in T /\ m >= i)
  OBVIOUS
<1> HIDE DEF A
<1>6. Earliest(l + 1, i, T) = m
  BY <1>3, <1>4, <1>5, EarliestIs
<1> QED
  BY <1>1, <1>4, <1>5, <1>6

\* What one more event, which may be in T1, makes of the earliest.
LEMMA EarliestGrows ==
  ASSUME NEW l \in Nat, NEW i \in Int, NEW T \in SUBSET (1..l),
         NEW T1 \in SUBSET (1..(l + 1)), T1 \cap (1..l) = T
  PROVE  /\ Earliest(l + 1, i, T) <= l => Earliest(l + 2, i, T1) = Earliest(l + 1, i, T)
         /\ Earliest(l + 1, i, T) = l + 1 /\ l + 1 \in T1 /\ i <= l + 1
              => Earliest(l + 2, i, T1) = l + 1
         /\ Earliest(l + 1, i, T) = l + 1 /\ l + 1 \notin T1 => Earliest(l + 2, i, T1) = l + 2
         /\ i > l + 1 => Earliest(l + 2, i, T1) = l + 2
<1> DEFINE x == Earliest(l + 1, i, T)
<1>1. /\ x \in 1..(l + 1)
      /\ x <= l => x \in T /\ x >= i
      /\ \A j \in T : j >= i => x <= j
  BY EarliestType
<1> HIDE DEF x
<1>2. l + 2 \in Int /\ T1 \in SUBSET Int /\ l + 1 \in Int /\ x \in Int
  <2>1. x \in Int
    BY <1>1
  <2>2. \A j \in T1 : j \in Int
    OBVIOUS
  <2> QED
    BY <2>1, <2>2
<1>3. \A j \in T1 : j \in T \/ j = l + 1
  OBVIOUS
<1>4. ASSUME x <= l PROVE Earliest(l + 2, i, T1) = x
  <2>1. x \in T1 /\ x >= i
    BY <1>1, <1>4
  <2>2. x <= l + 2 /\ x <= l + 1
    BY <1>2, <1>4
  <2>3. \A j \in T1 : j >= i => x <= j
    BY <1>1, <1>3, <2>2
  <2> QED
    BY <1>2, <2>1, <2>2, <2>3, EarliestIs
<1>5. ASSUME x = l + 1, l + 1 \in T1, i <= l + 1 PROVE Earliest(l + 2, i, T1) = l + 1
  <2>1. /\ l + 1 \in T1 /\ l + 1 >= i /\ l + 1 <= l + 2
        /\ \A j \in T1 : j >= i => l + 1 <= j
    BY <1>1, <1>3, <1>5
  <2> QED
    BY <1>2, <2>1, EarliestIs
<1>6. ASSUME x = l + 1, l + 1 \notin T1 PROVE Earliest(l + 2, i, T1) = l + 2
  <2>1. \A j \in T1 : j >= i => l + 2 <= j
    BY <1>1, <1>3, <1>6
  <2> QED
    BY <1>2, <2>1, EarliestIs
<1>7. ASSUME i > l + 1 PROVE Earliest(l + 2, i, T1) = l + 2
  <2>1. \A j \in T1 : j >= i => l + 2 <= j
    BY <1>7
  <2> QED
    BY <1>2, <2>1, EarliestIs
<1> QED
  BY <1>4, <1>5, <1>6, <1>7 DEF x

Span(from, to) == [from |-> from, to |-> to]

LEMMA RegionType ==
  ASSUME NEW l \in Nat, NEW S \in SUBSET (1..l), NEW E \in SUBSET (1..l), NEW has_start,
         NEW i \in 1..(l + 1), NEW r, r = Region(l + 1, S, E, has_start, i)
  PROVE  /\ r = Span(r.from, r.to)
         /\ r.from \in 0..(l + 1) /\ r.to \in 1..(l + 1)
         /\ r.from <= l => r.from < r.to
         /\ r.from = l + 1 => has_start /\ r.to = l + 1
<1> DEFINE from == IF has_start THEN Earliest(l + 1, i, S) ELSE i - 1
           to == Earliest(l + 1, from + 1, E)
<1>1. from \in 0..(l + 1) /\ (from = l + 1 => has_start)
  BY EarliestType
<1> HIDE DEF from
<1>2. /\ to \in 1..(l + 1)
      /\ to <= l => to >= from + 1
  BY <1>1, EarliestType
<1>3. Region(l + 1, S, E, has_start, i) = Span(from, to)
  BY DEF Region, Span, from
<1> HIDE DEF to
<1>4. r = Span(from, to) /\ r.from = from /\ r.to = to
  BY <1>3 DEF Span
<1>5. from <= l => from < to
  BY <1>1, <1>2
<1>6. from = l + 1 => to = l + 1
  BY <1>1, <1>2
<1> QED
  BY <1>1, <1>2, <1>4, <1>5, <1>6, Zenon

\* One more event, which may be a start or an end, and the region from i on.
LEMMA RegionGrows ==
  ASSUME NEW l \in Nat, NEW S \in SUBSET (1..l), NEW E \in SUBSET (1..l), NEW has_start,
         NEW S1 \in SUBSET (1..(l + 1)), S1 \cap (1..l) = S,
         NEW E1 \in SUBSET (1..(l + 1)), E1 \cap (1..l) = E,
         NEW i \in 1..(l + 1), NEW r, r = Region(l + 1, S, E, has_start, i)
  PROVE  /\ r.to <= l => Region(l + 2, S1, E1, has_start, i) = r
         /\ r.from <= l /\ r.to = l + 1 /\ l + 1 \notin E1
              => Region(l + 2, S1, E1, has_start, i) = Span(r.from, l + 2)
         /\ r.from <= l /\ r.to = l + 1 /\ l + 1 \in E1
              => Region(l + 2, S1, E1, has_start, i) = Span(r.from, l + 1)
         /\ r.from = l + 1 /\ l + 1 \notin S1
              => Region(l + 2, S1, E1, has_start, i) = Span(l + 2, l + 2)
         /\ r.from = l + 1 /\ l + 1 \in S1
              => Region(l + 2, S1, E1, has_start, i) = Span(l + 1, l + 2)
<1>1. /\ r = Span(r.from, r.to)
      /\ r.from \in 0..(l + 1) /\ r.to \in 1..(l + 1)
      /\ r.from <= l => r.from < r.to
      /\ r.from = l + 1 => has_start /\ r.to = l + 1
  BY RegionType
<1> DEFINE from == IF has_start THEN Earliest(l + 1, i, S) ELSE i - 1
           from1 == IF has_start THEN Earliest(l + 2, i, S1) ELSE i - 1
           to == Earliest(l + 1, from + 1, E)
           to1(f) == Earliest(l + 2, f + 1, E1)
<1>2. r = Span(from, to) /\ r.from = from /\ r.to = to
  BY DEF Region, Span
<1>3. Region(l + 2, S1, E1, has_start, i) = Span(from1, to1(from1))
  BY DEF Region, Span
<1>4. /\ from <= l => from1 = from
      /\ from = l + 1 /\ l + 1 \in S1 => from1 = l + 1
      /\ from = l + 1 /\ l + 1 \notin S1 => from1 = l + 2
  <2>1. CASE has_start
    BY <2>1, EarliestGrows
  <2>2. CASE ~has_start
    BY <2>2
  <2> QED
    BY <2>1, <2>2
<1> HIDE DEF from, from1
<1>5. from \in 0..(l + 1)
  BY <1>1, <1>2
<1>6. /\ to <= l => to1(from) = to
      /\ to = l + 1 /\ l + 1 \in E1 /\ from <= l => to1(from) = l + 1
      /\ to = l + 1 /\ l + 1 \notin E1 => to1(from) = l + 2
  <2>1. from + 1 \in Int /\ (from <= l => from + 1 <= l + 1)
    BY <1>5
  <2> QED
    BY <2>1, EarliestGrows
<1>7. to1(l + 1) = l + 2 /\ to1(l + 2) = l + 2
  <2>1. /\ l + 1 + 1 \in Int /\ l + 1 + 1 > l + 1
        /\ l + 2 + 1 \in Int /\ l + 2 + 1 > l + 1
    OBVIOUS
  <2> QED
    BY <2>1, EarliestGrows
<1> HIDE DEF to, to1
<1>8. to <= l => from <= l
  BY <1>1, <1>2
<1> QED
  BY <1>2, <1>3, <1>4, <1>5, <1>6, <1>7, <1>8, Zenon

\* The positions in T are of an input that past is beyond.
Marks(T, past) == T \in SUBSET (1..(past - 1))

\* Beyond the last event there is no start and no end.
LEMMA RegionBeyond ==
  ASSUME NEW past \in Nat \ {0}, NEW S, NEW E, Marks(S, past), Marks(E, past), NEW has_start
  PROVE  /\ Region(past, S, E, has_start, past + 1) = Span(past, past)
         /\ has_start => Region(past, S, E, has_start, past) = Span(past, past)
         /\ ~has_start => Region(past, S, E, has_start, past) = Span(past - 1, past)
<1>1. ASSUME NEW T, Marks(T, past), NEW i \in Int, i >= past
      PROVE  Earliest(past, i, T) = past
  <2>1. past \in Int /\ T \in SUBSET Int
    BY <1>1 DEF Marks
  <2>2. past <= past /\ \A j \in T : j >= i => past <= j
    BY <1>1 DEF Marks
  <2> QED
    BY <2>1, <2>2, EarliestIs, ZenonT(60)
<1>2. past + 1 - 1 = past /\ past - 1 + 1 = past
  OBVIOUS
<1>3. /\ Earliest(past, past + 1, S) = past /\ Earliest(past, past, S) = past
      /\ Earliest(past, past + 1, E) = past /\ Earliest(past, past - 1 + 1, E) = past
  BY <1>1
<1> QED
  BY <1>2, <1>3 DEF Region, Span

-----------------------------------------------------------------------------
(* The sequence of the regions *)

LEMMA ChainUnique ==
  ASSUME NEW n \in Nat, NEW past, NEW S, NEW E, NEW has_start, NEW f, NEW g,
         Chain(f, n, past, S, E, has_start), Chain(g, n, past, S, E, has_start)
  PROVE  f = g
<1> DEFINE N == {m \in Nat : m \in 1..n => f[m] = g[m]}
<1>1. 0 \in N
  OBVIOUS
<1>2. ASSUME NEW m \in Nat, m \in N PROVE m + 1 \in N
  <2> SUFFICES ASSUME m + 1 \in 1..n PROVE f[m + 1] = g[m + 1]
    OBVIOUS
  <2>1. CASE m = 0
    BY <2>1 DEF Chain
  <2>2. CASE m # 0
    <3>1. m \in 1..n /\ m + 1 # 1 /\ m + 1 - 1 = m /\ f[m] = g[m]
      BY <1>2, <2>2
    <3> QED
      BY <3>1 DEF Chain
  <2> QED
    BY <2>1, <2>2
<1> HIDE DEF N
<1>3. \A m \in Nat : m \in N
  BY <1>1, <1>2, FT!Induction
<1>4. \A m \in 1..n : f[m] = g[m]
  BY <1>3 DEF N
<1>5. /\ f = [m \in 1..n |-> f[m]]
      /\ g = [m \in 1..n |-> g[m]]
  BY DEF Chain
<1> QED
  BY <1>4, <1>5

LEMMA ChainExists ==
  ASSUME NEW past, NEW S, NEW E, NEW has_start
  PROVE  \A n \in Nat : \E f : Chain(f, n, past, S, E, has_start)
<1> DEFINE N == {n \in Nat : \E f : Chain(f, n, past, S, E, has_start)}
<1>1. 0 \in N
  <2>1. Chain([m \in 1..0 |-> 0], 0, past, S, E, has_start)
    BY DEF Chain
  <2> QED
    BY <2>1
<1>2. ASSUME NEW n \in Nat, n \in N PROVE n + 1 \in N
  <2>1. PICK f : Chain(f, n, past, S, E, has_start)
    BY <1>2
  <2> DEFINE next == IF n = 0 THEN Region(past, S, E, has_start, 1)
                     ELSE Region(past, S, E, has_start, f[n].to + 1)
             g == [m \in 1..(n + 1) |-> IF m = n + 1 THEN next ELSE f[m]]
  <2>2. ASSUME NEW m \in 1..(n + 1)
        PROVE  g[m] = IF m = 1 THEN Region(past, S, E, has_start, 1)
                      ELSE Region(past, S, E, has_start, g[m - 1].to + 1)
    <3>1. CASE m = n + 1
      <4>1. n # 0 => n \in 1..(n + 1) /\ n # n + 1 /\ m - 1 = n /\ m # 1
        BY <3>1
      <4>2. n = 0 => m = 1
        BY <3>1
      <4> QED
        BY <3>1, <4>1, <4>2
    <3>2. CASE m # n + 1
      <4>1. m \in 1..n /\ (m # 1 => m - 1 \in 1..(n + 1) /\ m - 1 # n + 1)
        BY <3>2
      <4>2. f[m] = IF m = 1 THEN Region(past, S, E, has_start, 1)
                   ELSE Region(past, S, E, has_start, f[m - 1].to + 1)
        BY <2>1, <4>1 DEF Chain
      <4> QED
        BY <3>2, <4>1, <4>2
    <3> QED
      BY <3>1, <3>2
  <2>3. Chain(g, n + 1, past, S, E, has_start)
    <3>1. g = [m \in 1..(n + 1) |-> g[m]]
      OBVIOUS
    <3> HIDE DEF g
    <3> QED
      BY <2>2, <3>1 DEF Chain
  <2> QED
    BY <2>3
<1> HIDE DEF N
<1>3. \A n \in Nat : n \in N
  BY <1>1, <1>2, FT!Induction
<1> QED
  BY <1>3 DEF N

-----------------------------------------------------------------------------
(* The regions of the input the filter has seen *)

Starts == {j \in DOMAIN seen : MatchesStart(seen[j])}
Ends == {j \in DOMAIN seen : MatchesEnd(seen[j])}

IsChain(f) == Chain(f, Past, Past, Starts, Ends, config.has_start)

FromIsRegion ==
  \A i : RegionFrom(i) = Region(Past, Starts, Ends, config.has_start, i)

LEMMA RegionFromIs == FromIsRegion
BY DEF FromIsRegion, RegionFrom, StartFrom, EndFrom, FirstFrom, Region, Earliest, Starts, Ends

LEMMA RegionsAre ==
  ASSUME SlicesType, NEW f, IsChain(f)
  PROVE  Regions = IF config.multi_slice THEN {f[n] : n \in 1..Past} ELSE {f[1]}
<1> DEFINE Solves(g) == g = [n \in 1..Past |-> IF n = 1 THEN RegionFrom(1)
                                               ELSE RegionFrom(g[n - 1].to + 1)]
           region == CHOOSE g : Solves(g)
<1>1. \A g : Solves(g) <=> IsChain(g)
  BY RegionFromIs DEF IsChain, Chain, FromIsRegion
<1>2. Past \in Nat
  BY DEF SlicesType, Past
<1>3. \A g : Solves(g) => g = f
  BY <1>1, <1>2, ChainUnique DEF IsChain
<1>4. region = f
  <2>1. Solves(f)
    BY <1>1
  <2> HIDE DEF Solves
  <2> QED
    BY <2>1, <1>3
<1>5. Regions = IF config.multi_slice THEN {region[n] : n \in 1..Past} ELSE {region[1]}
  BY DEF Regions
<1> QED
  BY <1>4, <1>5

\* What one more event adds to the starts and ends.
LEMMA AskGrows ==
  ASSUME SlicesType, NEW e \in FilterEvents, Ask(e), NEW l, l = Len(seen)
  PROVE  /\ l \in Nat /\ Len(seen') = l + 1 /\ Past = l + 1 /\ Past' = l + 2
         /\ config' = config
         /\ Starts \in SUBSET (1..l) /\ Ends \in SUBSET (1..l)
         /\ Starts' \in SUBSET (1..(l + 1)) /\ Starts' \cap (1..l) = Starts
         /\ Ends' \in SUBSET (1..(l + 1)) /\ Ends' \cap (1..l) = Ends
         /\ l + 1 \in Starts' <=> MatchesStart(e)
         /\ l + 1 \in Ends' <=> MatchesEnd(e)
<1>1. /\ seen \in Seq(FilterEvents) /\ seen' = Append(seen, e) /\ l \in Nat
      /\ seen' \in Seq(FilterEvents)
  BY DEF SlicesType, Ask
<1>2. Len(seen') = l + 1 /\ DOMAIN seen = 1..l /\ DOMAIN seen' = 1..(l + 1)
  BY <1>1
<1>3. /\ \A j \in 1..l : seen'[j] = seen[j]
      /\ seen'[l + 1] = e
  BY <1>1
<1>4. Past = l + 1 /\ Past' = l + 2
  BY <1>2 DEF Past
<1>5. config' = config
  BY DEF Ask, ShouldPass, StartSlice, EndSlice, Unmoved, filterVars
<1>6. \A x : (MatchesStart(x)' <=> MatchesStart(x)) /\ (MatchesEnd(x)' <=> MatchesEnd(x))
  BY <1>5 DEF MatchesStart, MatchesEnd
<1>7. /\ Starts = {j \in 1..l : MatchesStart(seen[j])}
      /\ Ends = {j \in 1..l : MatchesEnd(seen[j])}
  BY <1>2 DEF Starts, Ends
<1>8. /\ Starts' = {j \in 1..(l + 1) : MatchesStart(seen'[j])}
      /\ Ends' = {j \in 1..(l + 1) : MatchesEnd(seen'[j])}
  BY <1>2, <1>5 DEF Starts, Ends, MatchesStart, MatchesEnd
<1>9. 1..l \subseteq 1..(l + 1) /\ l + 1 \in 1..(l + 1) /\ l + 1 \notin 1..l
  BY <1>1
<1>10. /\ Starts' \cap (1..l) = Starts
       /\ Ends' \cap (1..l) = Ends
  BY <1>3, <1>7, <1>8, <1>9
<1>11. /\ l + 1 \in Starts' <=> MatchesStart(e)
       /\ l + 1 \in Ends' <=> MatchesEnd(e)
  BY <1>3, <1>8, <1>9
<1> QED
  BY <1>1, <1>2, <1>4, <1>5, <1>7, <1>8, <1>10, <1>11

-----------------------------------------------------------------------------
(* The region in progress *)

\* The region r, of an input of l events, is the one the filter waits for or
\* records in state st.
InProgress(r, l, st, has_start) ==
  /\ r.to = l + 1
  /\ \/ st = "Waiting" /\ has_start /\ r.from = l + 1
     \/ st = "Recording" /\ r.from \in 0..l

Covers(r, j) == r.from <= j /\ j <= r.to

AfterEnd == IF ~config.multi_slice THEN "Done"
            ELSE IF config.has_start THEN "Waiting" ELSE "Recording"

\* An event leaves the region in progress, or it is its last.
LEMMA RegionMoves ==
  ASSUME SlicesType, NEW e \in FilterEvents, Ask(e), NEW l, l = Len(seen),
         NEW i \in 1..(l + 1), NEW r, NEW q,
         r = Region(Past, Starts, Ends, config.has_start, i),
         InProgress(r, l, state, config.has_start),
         q = Region(Past', Starts', Ends', config.has_start, i)
  PROVE  /\ q.from \in Int /\ q.to \in Int
         /\ \A j \in 1..l : Covers(q, j) <=> Covers(r, j)
         /\ Covers(q, l + 1) <=> Passes(e)
         /\ \/ slice_count' = slice_count /\ InProgress(q, l + 1, state', config.has_start)
            \/ slice_count' = slice_count + 1 /\ q.to = l + 1 /\ state' = AfterEnd /\ Passes(e)
<1>1. /\ l \in Nat /\ Past = l + 1 /\ Past' = l + 2
      /\ Starts \in SUBSET (1..l) /\ Ends \in SUBSET (1..l)
      /\ Starts' \in SUBSET (1..(l + 1)) /\ Starts' \cap (1..l) = Starts
      /\ Ends' \in SUBSET (1..(l + 1)) /\ Ends' \cap (1..l) = Ends
      /\ l + 1 \in Starts' <=> MatchesStart(e)
      /\ l + 1 \in Ends' <=> MatchesEnd(e)
  BY AskGrows
<1> DEFINE S0 == Starts
           E0 == Ends
           S1 == Starts'
           E1 == Ends'
           hs == config.has_start
<1>2. /\ S0 \in SUBSET (1..l) /\ E0 \in SUBSET (1..l)
      /\ S1 \in SUBSET (1..(l + 1)) /\ S1 \cap (1..l) = S0
      /\ E1 \in SUBSET (1..(l + 1)) /\ E1 \cap (1..l) = E0
      /\ r = Region(l + 1, S0, E0, hs, i) /\ q = Region(l + 2, S1, E1, hs, i)
      /\ l + 1 \in S1 <=> MatchesStart(e)
      /\ l + 1 \in E1 <=> MatchesEnd(e)
  BY <1>1
<1> HIDE DEF S0, E0, S1, E1, hs
<1>3. /\ r.from <= l /\ r.to = l + 1 /\ l + 1 \notin E1 => q = Span(r.from, l + 2)
      /\ r.from <= l /\ r.to = l + 1 /\ l + 1 \in E1 => q = Span(r.from, l + 1)
      /\ r.from = l + 1 /\ l + 1 \notin S1 => q = Span(l + 2, l + 2)
      /\ r.from = l + 1 /\ l + 1 \in S1 => q = Span(l + 1, l + 2)
  BY <1>1, <1>2, RegionGrows
<1>4. r.to = l + 1
  BY DEF InProgress
<1>5. /\ l + 1 + 1 = l + 2
      /\ \A j \in 1..l : ~(l + 1 <= j) /\ ~(l + 2 <= j)
  BY <1>1
<1>6. CASE state = "Waiting"
  <2>1. r.from = l + 1 /\ config.has_start
    BY <1>6 DEF InProgress
  <2>2. CASE MatchesStart(e)
    <3>1. q = Span(l + 1, l + 2)
      BY <1>2, <1>3, <2>1, <2>2
    <3>2. q.from = l + 1 /\ q.to = l + 2
      BY <3>1 DEF Span
    <3>3. Passes(e)
      BY <1>6, <2>2 DEF Passes
    <3>4. slice_count' = slice_count /\ state' = "Recording"
      BY <1>6, <2>2 DEF Ask, ShouldPass, StartSlice, EndSlice, Unmoved
    <3>5. \A j \in 1..l : ~Covers(q, j) /\ ~Covers(r, j)
      BY <1>5, <2>1, <3>2, Zenon DEF Covers
    <3>6. Covers(q, l + 1) /\ q.from \in Int /\ q.to \in Int
      BY <1>1, <3>2 DEF Covers
    <3>7. l + 1 \in 0..(l + 1)
      BY <1>1
    <3>8. InProgress(q, l + 1, state', config.has_start)
      BY <1>5, <3>2, <3>4, <3>7 DEF InProgress
    <3> QED
      BY <3>3, <3>4, <3>5, <3>6, <3>8
  <2>3. CASE ~MatchesStart(e)
    <3>1. q = Span(l + 2, l + 2)
      BY <1>2, <1>3, <2>1, <2>3
    <3>2. q.from = l + 2 /\ q.to = l + 2
      BY <3>1 DEF Span
    <3>3. ~Passes(e)
      BY <1>6, <2>3 DEF Passes
    <3>4. slice_count' = slice_count /\ state' = "Waiting"
      BY <1>6, <2>3 DEF Ask, ShouldPass, StartSlice, EndSlice, Unmoved, filterVars
    <3>5. \A j \in 1..l : ~Covers(q, j) /\ ~Covers(r, j)
      BY <1>5, <2>1, <3>2, Zenon DEF Covers
    <3>6. ~Covers(q, l + 1) /\ q.from \in Int /\ q.to \in Int
      BY <1>1, <3>2 DEF Covers
    <3>7. InProgress(q, l + 1, state', config.has_start)
      BY <1>5, <2>1, <3>2, <3>4 DEF InProgress
    <3> QED
      BY <3>3, <3>4, <3>5, <3>6, <3>7
  <2> QED
    BY <2>2, <2>3
<1>7. CASE state = "Recording"
  <2>1. r.from \in 0..l
    BY <1>7 DEF InProgress
  <2>2. Passes(e) /\ r.from <= l /\ r.from <= l + 1 /\ r.from \in Int /\ r.from \in 0..(l + 1)
    BY <1>1, <1>7, <2>1 DEF Passes
  <2>3. CASE MatchesEnd(e)
    <3>1. q = Span(r.from, l + 1)
      BY <1>2, <1>3, <1>4, <2>2, <2>3
    <3>2. q.from = r.from /\ q.to = l + 1
      BY <3>1 DEF Span
    <3>3. slice_count' = slice_count + 1 /\ state' = AfterEnd
      BY <1>7, <2>3 DEF Ask, ShouldPass, StartSlice, EndSlice, Unmoved, AfterEnd
    <3>4. \A j \in 1..(l + 1) : Covers(q, j) <=> r.from <= j
      BY <1>1, <3>2 DEF Covers
    <3>5. \A j \in 1..l : j \in 1..(l + 1) /\ (Covers(r, j) <=> r.from <= j)
      BY <1>1, <1>4 DEF Covers
    <3>6. Covers(q, l + 1) /\ q.from \in Int /\ q.to \in Int
      BY <1>1, <2>2, <3>2 DEF Covers
    <3> QED
      BY <2>2, <3>2, <3>3, <3>4, <3>5, <3>6, Zenon
  <2>4. CASE ~MatchesEnd(e)
    <3>1. q = Span(r.from, l + 2)
      BY <1>2, <1>3, <1>4, <2>2, <2>4
    <3>2. q.from = r.from /\ q.to = l + 2
      BY <3>1 DEF Span
    <3>3. slice_count' = slice_count /\ state' = "Recording"
      BY <1>7, <2>4 DEF Ask, ShouldPass, StartSlice, EndSlice, Unmoved, filterVars
    <3>4. \A j \in 1..(l + 1) : Covers(q, j) <=> r.from <= j
      BY <1>1, <3>2 DEF Covers
    <3>5. \A j \in 1..l : j \in 1..(l + 1) /\ (Covers(r, j) <=> r.from <= j)
      BY <1>1, <1>4 DEF Covers
    <3>6. Covers(q, l + 1) /\ q.from \in Int /\ q.to \in Int
      BY <1>1, <2>2, <3>2 DEF Covers
    <3>7. InProgress(q, l + 1, state', config.has_start)
      BY <1>5, <2>2, <3>2, <3>3 DEF InProgress
    <3> QED
      BY <2>2, <3>2, <3>3, <3>4, <3>5, <3>6, <3>7, Zenon
  <2> QED
    BY <2>3, <2>4
<1> QED
  BY <1>6, <1>7 DEF InProgress

\* T becomes T1 with one more event after l.
Grows(T, T1, l) ==
  T \in SUBSET (1..l) /\ T1 \in SUBSET (1..(l + 1)) /\ T1 \cap (1..l) = T

\* The regions that are over do not change, and the one after them starts at
\* the same place.
LEMMA ChainKeeps ==
  ASSUME NEW l \in Nat, NEW S, NEW S1, Grows(S, S1, l), NEW E, NEW E1, Grows(E, E1, l),
         NEW has_start, NEW p, p = l + 1, NEW f, Chain(f, p, p, S, E, has_start),
         NEW p1, p1 = l + 2, NEW g, Chain(g, p1, p1, S1, E1, has_start),
         NEW k \in 0..l, \A n \in 1..k : f[n].to \in 1..l
  PROVE  /\ \A n \in 1..k : g[n] = f[n]
         /\ \E i \in 1..(l + 1) : /\ f[k + 1] = Region(p, S, E, has_start, i)
                                  /\ g[k + 1] = Region(p1, S1, E1, has_start, i)
<1>0. /\ S \in SUBSET (1..l) /\ S1 \in SUBSET (1..(l + 1)) /\ S1 \cap (1..l) = S
      /\ E \in SUBSET (1..l) /\ E1 \in SUBSET (1..(l + 1)) /\ E1 \cap (1..l) = E
  BY DEF Grows
<1> DEFINE begin(n) == IF n = 1 THEN 1 ELSE f[n - 1].to + 1
           begin1(n) == IF n = 1 THEN 1 ELSE g[n - 1].to + 1
<1>1. ASSUME NEW n \in 1..(k + 1)
      PROVE  /\ f[n] = Region(l + 1, S, E, has_start, begin(n))
             /\ g[n] = Region(l + 2, S1, E1, has_start, begin1(n))
             /\ begin(n) \in 1..(l + 1)
  <2>1. n \in 1..(l + 1) /\ n \in 1..(l + 2)
    OBVIOUS
  <2>2. begin(n) \in 1..(l + 1)
    <3>1. n # 1 => n - 1 \in 1..k
      OBVIOUS
    <3> QED
      BY <3>1
  <2>3. f[n] = IF n = 1 THEN Region(l + 1, S, E, has_start, 1)
               ELSE Region(l + 1, S, E, has_start, f[n - 1].to + 1)
    BY <2>1 DEF Chain
  <2>4. g[n] = IF n = 1 THEN Region(l + 2, S1, E1, has_start, 1)
               ELSE Region(l + 2, S1, E1, has_start, g[n - 1].to + 1)
    BY <2>1 DEF Chain
  <2> QED
    BY <2>2, <2>3, <2>4, Zenon
<1> DEFINE N == {n \in Nat : n \in 1..k => g[n] = f[n]}
<1>2. 0 \in N
  OBVIOUS
<1>3. ASSUME NEW n \in Nat, n \in N PROVE n + 1 \in N
  <2> SUFFICES ASSUME n + 1 \in 1..k PROVE g[n + 1] = f[n + 1]
    OBVIOUS
  <2>1. n + 1 \in 1..(k + 1) /\ n + 1 - 1 = n /\ (n + 1 # 1 => n \in 1..k)
    OBVIOUS
  <2>2. begin1(n + 1) = begin(n + 1)
    BY <1>3, <2>1
  <2>3. f[n + 1].to <= l
    OBVIOUS
  <2> HIDE DEF begin, begin1
  <2> QED
    BY <1>0, <1>1, <2>1, <2>2, <2>3, RegionGrows
<1> HIDE DEF N
<1>4. \A n \in Nat : n \in N
  BY <1>2, <1>3, FT!Induction
<1>5. \A n \in 1..k : g[n] = f[n]
  BY <1>4 DEF N
<1>6. begin1(k + 1) = begin(k + 1)
  <2>1. k + 1 - 1 = k /\ (k + 1 # 1 => k \in 1..k)
    OBVIOUS
  <2> QED
    BY <1>5, <2>1
<1> HIDE DEF begin, begin1
<1>7. k + 1 \in 1..(k + 1)
  OBVIOUS
<1> QED
  BY <1>1, <1>5, <1>6, <1>7

\* After a region without an end come those beyond the input.
LEMMA ChainBeyond ==
  ASSUME NEW past \in Nat \ {0}, NEW S, NEW E, Marks(S, past), Marks(E, past), NEW has_start,
         NEW g, Chain(g, past, past, S, E, has_start),
         NEW k \in 1..past, g[k].to = past
  PROVE  \A n \in (k + 1)..past : g[n] = Span(past, past)
<1> DEFINE N == {n \in Nat : n \in k..past => g[n].to = past}
<1>1. ASSUME NEW n \in (k + 1)..past, g[n - 1].to = past
      PROVE  g[n] = Span(past, past)
  <2>1. n \in 1..past /\ n # 1
    OBVIOUS
  <2>2. g[n] = Region(past, S, E, has_start, g[n - 1].to + 1)
    BY <2>1 DEF Chain
  <2> QED
    BY <1>1, <2>2, RegionBeyond
<1>2. 0 \in N
  OBVIOUS
<1>3. ASSUME NEW n \in Nat, n \in N PROVE n + 1 \in N
  <2> SUFFICES ASSUME n + 1 \in k..past PROVE g[n + 1].to = past
    OBVIOUS
  <2>1. CASE n + 1 = k
    BY <2>1
  <2>2. CASE n + 1 # k
    <3>1. n + 1 \in (k + 1)..past /\ n + 1 - 1 = n /\ n \in k..past
      BY <2>2
    <3>2. g[n + 1] = Span(past, past)
      BY <1>1, <1>3, <3>1
    <3> QED
      BY <3>2 DEF Span
  <2> QED
    BY <2>1, <2>2
<1> HIDE DEF N
<1>4. \A n \in Nat : n \in N
  BY <1>2, <1>3, FT!Induction
<1>5. ASSUME NEW n \in (k + 1)..past PROVE g[n] = Span(past, past)
  <2>1. n - 1 \in Nat /\ n - 1 \in k..past
    OBVIOUS
  <2>2. n - 1 \in N
    BY <1>4, <2>1
  <2>3. g[n - 1].to = past
    BY <2>1, <2>2 DEF N
  <2> QED
    BY <1>1, <2>3
<1> QED
  BY <1>5

-----------------------------------------------------------------------------
(* The inductive invariant of the regions *)

Tos(f, k) == {f[n].to : n \in 1..k}

\* f holds the regions of an input of l events: k that have ended, the one in
\* progress, and those beyond the input.
Tracks(f, k, l, st, has_start) ==
  /\ k \in 0..l
  /\ \A n \in 1..k : f[n].to \in 1..l
  /\ IsFiniteSet(Tos(f, k)) /\ Cardinality(Tos(f, k)) = k
  /\ InProgress(f[k + 1], l, st, has_start)
  /\ \A n \in (k + 2)..(l + 1) : f[n] = Span(l + 1, l + 1)

\* Without multi_slice the region r is in progress, or it is over for good.
TracksFirst(r, k, l, st, has_start) ==
  \/ k = 0 /\ InProgress(r, l, st, has_start)
  \/ k = 1 /\ st = "Done" /\ r.to \in 1..l

RegionsInv ==
  /\ SlicesType
  /\ PassesExactlyTheRegions
  /\ config.multi_slice =>
       \E f : IsChain(f) /\ Tracks(f, slice_count, Len(seen), state, config.has_start)
  /\ ~config.multi_slice =>
       TracksFirst(RegionFrom(1), slice_count, Len(seen), state, config.has_start)

\* Which regions of f contain the position j.
LEMMA TracksCover ==
  ASSUME NEW l \in Nat, NEW f, NEW k, NEW st, NEW has_start, Tracks(f, k, l, st, has_start),
         NEW j \in 1..l
  PROVE  (\E n \in 1..(l + 1) : Covers(f[n], j)) <=> (\E n \in 1..(k + 1) : Covers(f[n], j))
<1>1. k \in 0..l /\ \A n \in (k + 2)..(l + 1) : f[n] = Span(l + 1, l + 1)
  BY DEF Tracks
<1>2. /\ \A n \in 1..(k + 1) : n \in 1..(l + 1)
      /\ \A n \in 1..(l + 1) : n \in 1..(k + 1) \/ n \in (k + 2)..(l + 1)
      /\ ~(l + 1 <= j)
  BY <1>1
<1>3. ~Covers(Span(l + 1, l + 1), j)
  BY <1>2 DEF Covers, Span
<1> QED
  BY <1>1, <1>2, <1>3, Zenon

LEMMA PassesIff ==
  ASSUME SlicesType
  PROVE  PassesExactlyTheRegions <=> \A i \in 1..Len(seen) : (passed[i] = TRUE) <=> InRegion(i)
<1>1. DOMAIN seen = 1..Len(seen) /\ DOMAIN passed = DOMAIN seen
  BY DEF SlicesType
<1>2. \A i \in DOMAIN seen : passed[i] \in BOOLEAN
  BY <1>1 DEF SlicesType
<1>3. \A i : InRegion(i) \in BOOLEAN
  BY DEF InRegion
<1>4. \A i \in DOMAIN seen : (passed[i] = InRegion(i)) <=> ((passed[i] = TRUE) <=> InRegion(i))
  BY <1>2, <1>3
<1> QED
  BY <1>1, <1>4, Zenon DEF PassesExactlyTheRegions

\* The positions of the regions, with multi_slice and without.
MultiPositions ==
  config.multi_slice =>
    \A f : IsChain(f) => \A i : InRegion(i) <=> \E n \in 1..Past : Covers(f[n], i)

FirstPositions == ~config.multi_slice => \A i : InRegion(i) <=> Covers(RegionFrom(1), i)

LEMMA InRegionMulti == ASSUME SlicesType PROVE MultiPositions
<1> SUFFICES ASSUME config.multi_slice, NEW f, IsChain(f), NEW i
             PROVE  InRegion(i) <=> \E n \in 1..Past : Covers(f[n], i)
  BY DEF MultiPositions
<1>1. Regions = {f[n] : n \in 1..Past}
  BY RegionsAre
<1>2. (\E r \in {f[n] : n \in 1..Past} : Covers(r, i)) <=> \E n \in 1..Past : Covers(f[n], i)
  BY Zenon
<1> QED
  BY <1>1, <1>2, Zenon DEF InRegion, Covers

LEMMA InRegionFirst == ASSUME SlicesType PROVE FirstPositions
<1> SUFFICES ASSUME ~config.multi_slice, NEW i
             PROVE  InRegion(i) <=> Covers(RegionFrom(1), i)
  BY DEF FirstPositions
<1>1. Past \in Nat /\ 1 \in 1..Past
  BY DEF SlicesType, Past
<1>2. PICK f : IsChain(f)
  BY <1>1, ChainExists DEF IsChain
<1>3. f[1] = RegionFrom(1)
  BY <1>1, <1>2, RegionFromIs DEF IsChain, Chain, FromIsRegion
<1> QED
  BY <1>2, <1>3, RegionsAre, Zenon DEF InRegion, Covers

LEMMA SlicesTypeHolds == SlicesSpec => []SlicesType
BY InitHolds, StepKeeps, PTL DEF SlicesSpec, IInv

LEMMA RegionsInit == SlicesInit => RegionsInv
<1> SUFFICES ASSUME SlicesInit PROVE RegionsInv
  OBVIOUS
<1>1. SlicesType
  BY InitHolds DEF IInv
<1>2. seen = <<>> /\ passed = <<>> /\ Len(seen) = 0 /\ Past = 1 /\ slice_count = 0
  BY DEF SlicesInit, FilterInit, Past
<1>3. PassesExactlyTheRegions
  BY <1>2 DEF PassesExactlyTheRegions
<1>4. Starts = {} /\ Ends = {}
  BY <1>2 DEF Starts, Ends
<1>5. InProgress(RegionFrom(1), 0, state, config.has_start)
  <2>1. \A i \in Int : i >= 1 => Earliest(1, i, {}) = 1
    <3>1. {} \in SUBSET (1..0) /\ 0 + 1 = 1
      OBVIOUS
    <3>2. \A i \in Int : Earliest(0 + 1, i, {}) \in 1..(0 + 1)
      BY <3>1, EarliestType
    <3> QED
      BY <3>1, <3>2
  <2>2. /\ Earliest(1, 1, {}) = 1 /\ Earliest(1, 1 + 1, {}) = 1 /\ Earliest(1, 0 + 1, {}) = 1
        /\ 1 - 1 = 0 /\ 0 + 1 = 1 /\ 0 \in 0..0
    BY <2>1
  <2>3. RegionFrom(1) = Region(1, {}, {}, config.has_start, 1)
    BY <1>2, <1>4, RegionFromIs DEF FromIsRegion
  <2>4. CASE config.has_start
    <3>1. Region(1, {}, {}, config.has_start, 1) = Span(1, 1)
      BY <2>2, <2>4 DEF Region, Span
    <3>2. state = "Waiting"
      BY <2>4 DEF SlicesInit, FilterInit
    <3>3. RegionFrom(1).from = 0 + 1 /\ RegionFrom(1).to = 0 + 1
      BY <2>3, <3>1 DEF Span
    <3> QED
      BY <2>4, <3>2, <3>3, Zenon DEF InProgress
  <2>5. CASE ~config.has_start
    <3>1. Region(1, {}, {}, config.has_start, 1) = Span(0, 1)
      BY <2>2, <2>5 DEF Region, Span
    <3>2. state = "Recording"
      BY <2>5 DEF SlicesInit, FilterInit
    <3>3. RegionFrom(1).from = 0 /\ RegionFrom(1).to = 0 + 1
      BY <2>3, <3>1 DEF Span
    <3> QED
      BY <2>2, <3>2, <3>3, Zenon DEF InProgress
  <2> QED
    BY <2>4, <2>5
<1>6. \E f : IsChain(f) /\ Tracks(f, slice_count, Len(seen), state, config.has_start)
  <2>1. PICK f : IsChain(f)
    BY <1>2, ChainExists DEF IsChain
  <2>2. f[0 + 1] = RegionFrom(1)
    <3>1. 1 \in 1..Past /\ 0 + 1 = 1
      BY <1>2
    <3> QED
      BY <2>1, <3>1, RegionFromIs DEF IsChain, Chain, FromIsRegion
  <2>3. Tos(f, 0) = {}
    BY DEF Tos
  <2>4. IsFiniteSet(Tos(f, 0)) /\ Cardinality(Tos(f, 0)) = 0
    BY <2>3, FS_EmptySet
  <2>5. /\ 0 \in 0..0
        /\ \A n \in 1..0 : f[n].to \in 1..0
        /\ \A n \in (0 + 2)..(0 + 1) : f[n] = Span(0 + 1, 0 + 1)
    OBVIOUS
  <2>6. Tracks(f, 0, 0, state, config.has_start)
    BY <1>5, <2>2, <2>4, <2>5, Zenon DEF Tracks
  <2> QED
    BY <1>2, <2>1, <2>6
<1>7. TracksFirst(RegionFrom(1), slice_count, Len(seen), state, config.has_start)
  BY <1>2, <1>5 DEF TracksFirst
<1> QED
  BY <1>1, <1>3, <1>6, <1>7 DEF RegionsInv

\* What an event that the filter is asked about does to its answers.
LEMMA PassesKept ==
  ASSUME SlicesType, SlicesType', PassesExactlyTheRegions, NEW e \in FilterEvents, Ask(e),
         NEW l, l = Len(seen),
         \A j \in 1..l : InRegion(j)' <=> InRegion(j),
         InRegion(l + 1)' <=> Passes(e)
  PROVE  PassesExactlyTheRegions'
<1>1. l \in Nat /\ Len(seen') = l + 1 /\ Len(passed) = l /\ passed \in Seq(BOOLEAN)
  BY AskGrows DEF SlicesType
<1>2. passed' = Append(passed, Passes(e)) /\ Passes(e) \in BOOLEAN
  BY DEF Ask, Passes
<1>3. /\ \A j \in 1..l : passed'[j] = passed[j]
      /\ passed'[l + 1] = Passes(e)
      /\ \A j \in 1..(l + 1) : j \in 1..l \/ j = l + 1
  BY <1>1, <1>2
<1>4. \A j \in 1..l : (passed[j] = TRUE) <=> InRegion(j)
  BY PassesIff
<1>5. (passed'[l + 1] = TRUE) <=> InRegion(l + 1)'
  BY <1>2, <1>3
<1>6. \A j \in 1..(l + 1) : (passed'[j] = TRUE) <=> InRegion(j)'
  BY <1>3, <1>4, <1>5, Zenon
<1>7. (PassesExactlyTheRegions <=>
         \A i \in 1..Len(seen) : (passed[i] = TRUE) <=> InRegion(i))'
  BY PassesIff, PTL
<1> QED
  BY <1>1, <1>6, <1>7

\* The region in progress goes on.
LEMMA TracksOn ==
  ASSUME NEW l \in Nat, NEW past, past = l + 2,
         NEW S, NEW E, Marks(S, past), Marks(E, past), NEW has_start,
         NEW f, NEW k, NEW st, Tracks(f, k, l, st, has_start),
         NEW g, Chain(g, past, past, S, E, has_start),
         \A n \in 1..k : g[n] = f[n],
         NEW st1, InProgress(g[k + 1], l + 1, st1, has_start)
  PROVE  Tracks(g, k, l + 1, st1, has_start)
<1>1. /\ k \in 0..l
      /\ \A n \in 1..k : f[n].to \in 1..l
      /\ IsFiniteSet(Tos(f, k)) /\ Cardinality(Tos(f, k)) = k
  BY DEF Tracks
<1>2. /\ k \in 0..(l + 1) /\ k + 1 \in 1..(l + 2) /\ k + 1 + 1 = k + 2 /\ l + 1 + 1 = l + 2
      /\ \A x \in 1..l : x \in 1..(l + 1)
  BY <1>1
<1>3. \A n \in 1..k : g[n].to \in 1..(l + 1)
  BY <1>1, <1>2
<1>4. Tos(g, k) = Tos(f, k)
  BY DEF Tos
<1>5. g[k + 1].to = l + 2
  BY <1>2 DEF InProgress
<1>6. \A n \in (k + 2)..(l + 1 + 1) : g[n] = Span(l + 1 + 1, l + 1 + 1)
  <2>1. past \in Nat \ {0} /\ k + 1 \in 1..past /\ g[k + 1].to = past
    BY <1>2, <1>5
  <2>2. \A n \in (k + 1 + 1)..past : g[n] = Span(past, past)
    BY <2>1, ChainBeyond
  <2> QED
    BY <1>2, <2>2
<1> QED
  BY <1>1, <1>2, <1>3, <1>4, <1>6, Zenon DEF Tracks

\* The region in progress ends with the last event, and the next one follows.
LEMMA TracksEnd ==
  ASSUME NEW l \in Nat, NEW past, past = l + 2,
         NEW S, NEW E, Marks(S, past), Marks(E, past), NEW has_start,
         NEW f, NEW k, NEW st, Tracks(f, k, l, st, has_start),
         NEW g, Chain(g, past, past, S, E, has_start),
         \A n \in 1..k : g[n] = f[n], g[k + 1].to = l + 1
  PROVE  /\ Tracks(g, k + 1, l + 1, IF has_start THEN "Waiting" ELSE "Recording", has_start)
         /\ \A j \in 1..l : ~Covers(g[k + 2], j)
<1>1. /\ k \in 0..l
      /\ \A n \in 1..k : f[n].to \in 1..l
      /\ IsFiniteSet(Tos(f, k)) /\ Cardinality(Tos(f, k)) = k
  BY DEF Tracks
<1>2. /\ k + 1 \in 0..(l + 1) /\ k + 1 + 1 = k + 2 /\ l + 1 + 1 = l + 2
      /\ k + 2 \in 1..(l + 2) /\ k + 2 # 1 /\ k + 2 - 1 = k + 1 /\ k + 1 + 2 = k + 2 + 1
      /\ \A x \in 1..l : x \in 1..(l + 1) /\ ~(l + 1 <= x) /\ ~(l + 2 <= x) /\ l + 1 # x
      /\ l + 1 \in 1..(l + 1) /\ l + 1 \in 0..(l + 1)
      /\ \A n \in 1..(k + 1) : n \in 1..k \/ n = k + 1
      /\ \A n \in 1..k : n \in 1..(k + 1)
      /\ k + 1 \in 1..(k + 1)
  BY <1>1
<1>3. \A n \in 1..(k + 1) : g[n].to \in 1..(l + 1)
  BY <1>1, <1>2, Zenon
<1>4. IsFiniteSet(Tos(g, k + 1)) /\ Cardinality(Tos(g, k + 1)) = k + 1
  <2>1. Tos(g, k + 1) = Tos(f, k) \cup {l + 1}
    BY <1>2, Zenon DEF Tos
  <2>2. l + 1 \notin Tos(f, k)
    BY <1>1, <1>2 DEF Tos
  <2> QED
    BY <1>1, <2>1, <2>2, FS_AddElement
<1>5. g[k + 2] = Region(past, S, E, has_start, past)
  <2>1. g[k + 2] = Region(past, S, E, has_start, g[k + 1].to + 1)
    BY <1>2 DEF Chain
  <2> QED
    BY <1>2, <2>1
<1>6. /\ has_start => g[k + 2] = Span(l + 2, l + 2)
      /\ ~has_start => g[k + 2] = Span(l + 1, l + 2)
  <2>1. past \in Nat \ {0} /\ past - 1 = l + 1
    OBVIOUS
  <2> QED
    BY <1>5, <2>1, RegionBeyond
<1>7. /\ g[k + 2].to = l + 2
      /\ has_start => g[k + 2].from = l + 2
      /\ ~has_start => g[k + 2].from = l + 1
  BY <1>6 DEF Span
<1>8. InProgress(g[k + 2], l + 1, IF has_start THEN "Waiting" ELSE "Recording", has_start)
  <2>1. CASE has_start
    BY <1>2, <1>7, <2>1, Zenon DEF InProgress
  <2>2. CASE ~has_start
    BY <1>2, <1>7, <2>2, Zenon DEF InProgress
  <2> QED
    BY <2>1, <2>2
<1>9. \A j \in 1..l : ~Covers(g[k + 2], j)
  <2>1. CASE has_start
    BY <1>2, <1>7, <2>1, Zenon DEF Covers
  <2>2. CASE ~has_start
    BY <1>2, <1>7, <2>2, Zenon DEF Covers
  <2> QED
    BY <2>1, <2>2
<1>10. \A n \in (k + 1 + 2)..(l + 1 + 1) : g[n] = Span(l + 1 + 1, l + 1 + 1)
  <2>1. past \in Nat \ {0} /\ k + 2 \in 1..past /\ g[k + 2].to = past
    BY <1>2, <1>7
  <2>2. \A n \in (k + 2 + 1)..past : g[n] = Span(past, past)
    BY <2>1, ChainBeyond
  <2> QED
    BY <1>2, <2>2
<1> QED
  BY <1>2, <1>3, <1>4, <1>8, <1>9, <1>10, Zenon DEF Tracks

LEMMA AskMulti ==
  ASSUME RegionsInv, SlicesType', config.multi_slice, NEW e \in FilterEvents, Ask(e)
  PROVE  RegionsInv'
<1>1. PICK l : l = Len(seen)
  OBVIOUS
<1>2. PICK k : k = slice_count
  OBVIOUS
<1>3. /\ l \in Nat /\ Len(seen') = l + 1 /\ Past = l + 1 /\ Past' = l + 2
      /\ config' = config
      /\ Starts \in SUBSET (1..l) /\ Ends \in SUBSET (1..l)
      /\ Starts' \in SUBSET (1..(l + 1)) /\ Starts' \cap (1..l) = Starts
      /\ Ends' \in SUBSET (1..(l + 1)) /\ Ends' \cap (1..l) = Ends
  BY <1>1, AskGrows DEF RegionsInv
<1>4. PICK f : IsChain(f) /\ Tracks(f, k, l, state, config.has_start)
  BY <1>1, <1>2 DEF RegionsInv
<1>5. l + 2 \in Nat
  BY <1>3
<1>6. PICK g : IsChain(g)'
  BY <1>3, <1>5, ChainExists DEF IsChain
<1>7. PICK S0, E0, S1, E1, hs :
        /\ S0 = Starts /\ E0 = Ends /\ S1 = Starts' /\ E1 = Ends' /\ hs = config.has_start
  BY Zenon
<1>8. PICK p, p1 : p = Past /\ p1 = Past'
  BY Zenon
<1>9. k \in 0..l /\ \A n \in 1..k : f[n].to \in 1..l
  BY <1>4 DEF Tracks
<1>10. /\ Chain(f, p, p, S0, E0, hs) /\ Chain(g, p1, p1, S1, E1, hs)
       /\ p = l + 1 /\ p1 = l + 2 /\ l \in Nat /\ p1 - 1 = l + 1
       /\ Grows(S0, S1, l) /\ Grows(E0, E1, l)
       /\ Marks(S1, p1) /\ Marks(E1, p1)
  <2>1. Chain(f, p, p, S0, E0, hs) /\ Chain(g, p1, p1, S1, E1, hs)
    BY <1>3, <1>4, <1>6, <1>7, <1>8, Zenon DEF IsChain
  <2>2. p = l + 1 /\ p1 = l + 2 /\ l \in Nat /\ p1 - 1 = l + 1
    BY <1>3, <1>8
  <2>3. Grows(S0, S1, l) /\ Grows(E0, E1, l)
    BY <1>3, <1>7, Zenon DEF Grows
  <2>4. Marks(S1, p1) /\ Marks(E1, p1)
    BY <2>2, <2>3 DEF Grows, Marks
  <2> QED
    BY <2>1, <2>2, <2>3, <2>4
<1>11. /\ \A n \in 1..k : g[n] = f[n]
       /\ \E i \in 1..(l + 1) : /\ f[k + 1] = Region(p, S0, E0, hs, i)
                                /\ g[k + 1] = Region(p1, S1, E1, hs, i)
  BY <1>9, <1>10, ChainKeeps
<1>12. PICK i \in 1..(l + 1) :
         /\ f[k + 1] = Region(p, S0, E0, hs, i)
         /\ g[k + 1] = Region(p1, S1, E1, hs, i)
  BY <1>11
<1>13. InProgress(f[k + 1], l, state, config.has_start)
  BY <1>4 DEF Tracks
<1>14. /\ \A j \in 1..l : Covers(g[k + 1], j) <=> Covers(f[k + 1], j)
       /\ Covers(g[k + 1], l + 1) <=> Passes(e)
       /\ \/ slice_count' = k /\ InProgress(g[k + 1], l + 1, state', config.has_start)
          \/ slice_count' = k + 1 /\ g[k + 1].to = l + 1 /\ state' = AfterEnd /\ Passes(e)
  <2>1. SlicesType
    BY DEF RegionsInv
  <2>2. /\ f[k + 1] = Region(Past, Starts, Ends, config.has_start, i)
        /\ g[k + 1] = Region(Past', Starts', Ends', config.has_start, i)
    BY <1>7, <1>8, <1>12
  <2> QED
    BY <1>1, <1>2, <1>12, <1>13, <2>1, <2>2, RegionMoves
<1>15. /\ Tracks(g, slice_count', l + 1, state', config.has_start)
       /\ \/ slice_count' = k
          \/ slice_count' = k + 1 /\ Passes(e) /\ \A j \in 1..l : ~Covers(g[k + 2], j)
  <2>1. CASE slice_count' = k /\ InProgress(g[k + 1], l + 1, state', config.has_start)
    <3>1. Tracks(g, k, l + 1, state', config.has_start)
      BY <1>4, <1>7, <1>10, <1>11, <2>1, TracksOn
    <3> QED
      BY <2>1, <3>1
  <2>2. CASE slice_count' = k + 1 /\ g[k + 1].to = l + 1 /\ state' = AfterEnd /\ Passes(e)
    <3>1. /\ Tracks(g, k + 1, l + 1,
                    IF config.has_start THEN "Waiting" ELSE "Recording", config.has_start)
          /\ \A j \in 1..l : ~Covers(g[k + 2], j)
      BY <1>4, <1>7, <1>10, <1>11, <2>2, TracksEnd
    <3>2. AfterEnd = IF config.has_start THEN "Waiting" ELSE "Recording"
      BY DEF AfterEnd
    <3> QED
      BY <2>2, <3>1, <3>2
  <2> QED
    BY <1>14, <2>1, <2>2
<1>16. \A j : InRegion(j) <=> \E n \in 1..(l + 1) : Covers(f[n], j)
  BY <1>3, <1>4, InRegionMulti DEF RegionsInv, MultiPositions
<1>17. \A j : InRegion(j)' <=> \E n \in 1..(l + 2) : Covers(g[n], j)
  <2>1. (config.multi_slice)'
    BY <1>3
  <2>2. MultiPositions'
    BY InRegionMulti, PTL
  <2> QED
    BY <1>3, <1>6, <2>1, <2>2 DEF MultiPositions
<1>18. /\ \A n \in 1..(k + 1) : n \in 1..k \/ n = k + 1
       /\ \A n \in 1..(k + 2) : n \in 1..k \/ n = k + 1 \/ n = k + 2
       /\ \A n \in 1..k : n \in 1..(k + 1) /\ n \in 1..(k + 2)
       /\ k + 1 \in 1..(k + 1) /\ k + 1 \in 1..(k + 2) /\ k + 2 \in 1..(k + 2)
       /\ k + 1 + 1 = k + 2 /\ l + 1 + 1 = l + 2
       /\ \A j \in 1..l : j \in 1..(l + 1) /\ ~(l + 1 <= j)
       /\ l + 1 \in 1..(l + 1)
  BY <1>3, <1>9
<1>19. \A j \in 1..(l + 1) : InRegion(j)' <=> \E n \in 1..(slice_count' + 1) : Covers(g[n], j)
  <2>1. l + 1 \in Nat
    BY <1>3
  <2> QED
    BY <1>15, <1>17, <1>18, <2>1, TracksCover
<1>20. \A j \in 1..l : InRegion(j)' <=> InRegion(j)
  <2> SUFFICES ASSUME NEW j \in 1..l PROVE InRegion(j)' <=> InRegion(j)
    OBVIOUS
  <2>1. InRegion(j) <=> \E n \in 1..(k + 1) : Covers(f[n], j)
    BY <1>3, <1>4, <1>16, TracksCover
  <2>2. (\E n \in 1..(k + 1) : Covers(g[n], j)) <=> \E n \in 1..(k + 1) : Covers(f[n], j)
    BY <1>14, <1>18, <1>11, Zenon
  <2>3. (\E n \in 1..(slice_count' + 1) : Covers(g[n], j))
          <=> \E n \in 1..(k + 1) : Covers(g[n], j)
    <3>1. CASE slice_count' = k
      BY <3>1
    <3>2. CASE slice_count' = k + 1 /\ ~Covers(g[k + 2], j)
      BY <1>18, <3>2, Zenon
    <3> QED
      BY <1>15, <3>1, <3>2
  <2> QED
    BY <1>18, <1>19, <2>1, <2>2, <2>3
<1>21. InRegion(l + 1)' <=> Passes(e)
  <2>1. \A n \in 1..k : ~Covers(g[n], l + 1)
    BY <1>9, <1>18, <1>11 DEF Covers
  <2>2. (\E n \in 1..(slice_count' + 1) : Covers(g[n], l + 1)) <=> Passes(e)
    <3>1. CASE slice_count' = k
      BY <1>14, <1>18, <2>1, <3>1, Zenon
    <3>2. CASE slice_count' = k + 1 /\ Passes(e)
      BY <1>14, <1>18, <3>2, Zenon
    <3> QED
      BY <1>15, <3>1, <3>2
  <2> QED
    BY <1>18, <1>19, <2>2
<1>22. PassesExactlyTheRegions'
  BY <1>1, <1>20, <1>21, PassesKept DEF RegionsInv
<1> QED
  BY <1>3, <1>6, <1>15, <1>22 DEF RegionsInv

LEMMA AskFirst ==
  ASSUME RegionsInv, SlicesType', ~config.multi_slice, NEW e \in FilterEvents, Ask(e)
  PROVE  RegionsInv'
<1>1. PICK l, r, q : l = Len(seen) /\ r = RegionFrom(1) /\ q = RegionFrom(1)'
  BY Zenon
<1>2. /\ l \in Nat /\ Len(seen') = l + 1 /\ Past = l + 1 /\ Past' = l + 2
      /\ config' = config
      /\ Starts \in SUBSET (1..l) /\ Ends \in SUBSET (1..l)
      /\ Starts' \in SUBSET (1..(l + 1)) /\ Starts' \cap (1..l) = Starts
      /\ Ends' \in SUBSET (1..(l + 1)) /\ Ends' \cap (1..l) = Ends
  BY <1>1, AskGrows DEF RegionsInv
<1>3. 1 \in 1..(l + 1) /\ \A x \in 1..l : x \in 1..(l + 1) /\ ~(l + 1 <= x)
  BY <1>2
<1>4. r = Region(Past, Starts, Ends, config.has_start, 1)
  BY <1>1, RegionFromIs DEF FromIsRegion
<1>5. q = Region(Past', Starts', Ends', config.has_start, 1)
  <2>1. FromIsRegion'
    BY RegionFromIs, PTL
  <2> QED
    BY <1>1, <1>2, <2>1 DEF FromIsRegion
<1>6. TracksFirst(r, slice_count, l, state, config.has_start)
  BY <1>1 DEF RegionsInv
<1>7. /\ \A j \in 1..l : Covers(q, j) <=> Covers(r, j)
      /\ Covers(q, l + 1) <=> Passes(e)
      /\ TracksFirst(q, slice_count', l + 1, state', config.has_start)
  <2>1. CASE slice_count = 0 /\ InProgress(r, l, state, config.has_start)
    <3>1. /\ \A j \in 1..l : Covers(q, j) <=> Covers(r, j)
          /\ Covers(q, l + 1) <=> Passes(e)
          /\ \/ slice_count' = 0 /\ InProgress(q, l + 1, state', config.has_start)
             \/ slice_count' = 0 + 1 /\ q.to = l + 1 /\ state' = AfterEnd
      <4>1. SlicesType
        BY DEF RegionsInv
      <4> QED
        BY <1>1, <1>3, <1>4, <1>5, <2>1, <4>1, RegionMoves
    <3>2. AfterEnd = "Done" /\ 0 + 1 = 1 /\ l + 1 \in 1..(l + 1)
      BY <1>2 DEF AfterEnd
    <3> QED
      BY <3>1, <3>2, Zenon DEF TracksFirst
  <2>2. CASE slice_count = 1 /\ state = "Done" /\ r.to \in 1..l
    <3>1. q = r
      <4>1. PICK S0, E0, S1, E1, hs :
              /\ S0 = Starts /\ E0 = Ends /\ S1 = Starts' /\ E1 = Ends'
              /\ hs = config.has_start
        BY Zenon
      <4>2. /\ S0 \in SUBSET (1..l) /\ E0 \in SUBSET (1..l) /\ l \in Nat
            /\ S1 \in SUBSET (1..(l + 1)) /\ S1 \cap (1..l) = S0
            /\ E1 \in SUBSET (1..(l + 1)) /\ E1 \cap (1..l) = E0
            /\ r = Region(l + 1, S0, E0, hs, 1) /\ q = Region(l + 2, S1, E1, hs, 1)
        BY <1>2, <1>4, <1>5, <4>1
      <4>3. r.to <= l
        BY <2>2
      <4> QED
        BY <1>3, <4>2, <4>3, RegionGrows
    <3>2. state' = "Done" /\ slice_count' = 1 /\ ~Passes(e)
      BY <2>2 DEF Ask, ShouldPass, StartSlice, EndSlice, Unmoved, filterVars, Passes
    <3>3. ~Covers(q, l + 1)
      BY <1>3, <2>2, <3>1, Zenon DEF Covers
    <3>4. TracksFirst(q, slice_count', l + 1, state', config.has_start)
      BY <1>3, <2>2, <3>1, <3>2, Zenon DEF TracksFirst
    <3> QED
      BY <3>1, <3>2, <3>3, <3>4
  <2> QED
    BY <1>6, <2>1, <2>2 DEF TracksFirst
<1>8. \A j : InRegion(j) <=> Covers(r, j)
  BY <1>1, InRegionFirst DEF RegionsInv, FirstPositions
<1>9. \A j : InRegion(j)' <=> Covers(q, j)
  <2>1. (~config.multi_slice)'
    BY <1>2
  <2>2. FirstPositions'
    BY InRegionFirst, PTL
  <2> QED
    BY <1>1, <2>1, <2>2 DEF FirstPositions, Covers
<1>10. PassesExactlyTheRegions'
  BY <1>1, <1>7, <1>8, <1>9, PassesKept DEF RegionsInv
<1> QED
  BY <1>1, <1>2, <1>7, <1>10 DEF RegionsInv

LEMMA RegionsStep == RegionsInv /\ SlicesType' /\ [SlicesNext]_sliceVars => RegionsInv'
<1> SUFFICES ASSUME RegionsInv, SlicesType', [SlicesNext]_sliceVars PROVE RegionsInv'
  OBVIOUS
<1>1. CASE SlicesNext
  BY <1>1, AskMulti, AskFirst DEF SlicesNext
<1>2. CASE UNCHANGED sliceVars
  <2>1. /\ UNCHANGED <<config, state, slice_count, saw_start, seen, passed>>
        /\ UNCHANGED <<Past, Starts, Ends>>
    BY <1>2 DEF sliceVars, filterVars, Past, Starts, Ends, MatchesStart, MatchesEnd
  <2>2. RegionFrom(1)' = RegionFrom(1)
    BY <2>1 DEF RegionFrom, StartFrom, EndFrom, FirstFrom, MatchesStart, MatchesEnd
  <2>3. \A f : IsChain(f)' <=> IsChain(f)
    BY <2>1 DEF IsChain
  <2>4. \A i : InRegion(i)' <=> InRegion(i)
    <3>1. (SlicesType => MultiPositions /\ FirstPositions)'
      BY InRegionMulti, InRegionFirst, PTL
    <3>2. MultiPositions /\ FirstPositions /\ MultiPositions' /\ FirstPositions'
      BY <3>1, InRegionMulti, InRegionFirst DEF RegionsInv
    <3>3. CASE config.multi_slice
      BY <2>1, <2>3, <3>2, <3>3 DEF RegionsInv, MultiPositions
    <3>4. CASE ~config.multi_slice
      BY <2>1, <2>2, <3>2, <3>4 DEF FirstPositions, Covers
    <3> QED
      BY <3>3, <3>4
  <2>5. PassesExactlyTheRegions'
    BY <2>1, <2>4 DEF RegionsInv, PassesExactlyTheRegions
  <2> QED
    BY <2>1, <2>2, <2>3, <2>5 DEF RegionsInv
<1> QED
  BY <1>1, <1>2

\* For every input the events that the filter passes are those of the regions,
\* from each start to the first end after it, markers included.
\* (should_pass, trace_filter.hpp:10)
THEOREM RegionsPass == SlicesSpec => []PassesExactlyTheRegions
<1>1. RegionsInv => PassesExactlyTheRegions
  BY DEF RegionsInv
<1> QED
  BY <1>1, RegionsInit, RegionsStep, SlicesTypeHolds, PTL DEF SlicesSpec

\* For every input slice_count is the number of regions that have ended.
\* (slice_count, trace_filter.hpp:36)
THEOREM SlicesAreCounted == SlicesSpec => []CountsCompleteRegions
<1>1. ASSUME RegionsInv PROVE CountsCompleteRegions
  <2>1. PICK l, k : l = Len(seen) /\ k = slice_count
    BY Zenon
  <2>2. SlicesType /\ l \in Nat /\ Past = l + 1
    BY <1>1, <2>1 DEF RegionsInv, SlicesType, Past
  <2>3. CASE config.multi_slice
    <3>1. PICK f : IsChain(f) /\ Tracks(f, k, l, state, config.has_start)
      BY <1>1, <2>1, <2>3 DEF RegionsInv
    <3>2. Regions = {f[n] : n \in 1..(l + 1)}
      BY <2>2, <2>3, <3>1, RegionsAre
    <3>3. /\ k \in 0..l
          /\ \A n \in 1..k : f[n].to \in 1..l
          /\ Cardinality(Tos(f, k)) = k
          /\ f[k + 1].to = l + 1
          /\ \A n \in (k + 2)..(l + 1) : f[n].to = l + 1
      BY <3>1 DEF Tracks, InProgress, Span
    <3>4. /\ \A n \in 1..(l + 1) : n \in 1..k \/ n = k + 1 \/ n \in (k + 2)..(l + 1)
          /\ \A n \in 1..k : n \in 1..(l + 1)
          /\ \A x \in 1..l : x # l + 1 /\ x # l + 1 + 1
      BY <2>2, <3>3
    <3>5. {r.to : r \in Regions} \ {Past, Past + 1} = Tos(f, k)
      <4>1. {r.to : r \in Regions} = {f[n].to : n \in 1..(l + 1)}
        BY <3>2
      <4>2. {f[n].to : n \in 1..(l + 1)} \ {l + 1, l + 1 + 1} = Tos(f, k)
        BY <3>3, <3>4, Zenon DEF Tos
      <4> QED
        BY <2>2, <4>1, <4>2
    <3> QED
      BY <2>1, <3>3, <3>5 DEF CountsCompleteRegions
  <2>4. CASE ~config.multi_slice
    <3>1. PICK r : r = RegionFrom(1)
      OBVIOUS
    <3>2. TracksFirst(r, k, l, state, config.has_start)
      BY <1>1, <2>1, <2>4, <3>1 DEF RegionsInv
    <3>3. Regions = {r}
      <4>1. l + 1 \in Nat /\ 1 \in 1..(l + 1)
        BY <2>2
      <4>2. PICK f : IsChain(f)
        BY <2>2, <4>1, ChainExists DEF IsChain
      <4>3. f[1] = r
        BY <2>2, <3>1, <4>1, <4>2, RegionFromIs DEF IsChain, Chain, FromIsRegion
      <4> QED
        BY <2>2, <2>4, <4>2, <4>3, RegionsAre
    <3>4. {x.to : x \in Regions} = {r.to}
      BY <3>3
    <3>5. CASE k = 0 /\ r.to = l + 1
      <4>1. {r.to} \ {Past, Past + 1} = {}
        BY <2>2, <3>5
      <4> QED
        BY <2>1, <3>4, <3>5, <4>1, FS_EmptySet DEF CountsCompleteRegions
    <3>6. CASE k = 1 /\ r.to \in 1..l
      <4>1. {r.to} \ {Past, Past + 1} = {r.to}
        BY <2>2, <3>6
      <4>2. Cardinality({r.to}) = 1
        BY FS_Singleton
      <4> QED
        BY <2>1, <3>4, <3>6, <4>1, <4>2 DEF CountsCompleteRegions
    <3> QED
      BY <3>2, <3>5, <3>6 DEF TracksFirst, InProgress
  <2> QED
    BY <2>3, <2>4
<1> QED
  BY <1>1, RegionsInit, RegionsStep, SlicesTypeHolds, PTL DEF SlicesSpec
=============================================================================
