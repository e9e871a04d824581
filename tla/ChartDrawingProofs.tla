------------------------- MODULE ChartDrawingProofs -------------------------
(* Theorems about ChartDrawing, for whatever is asked within               *)
(* AskedAssumption: any number of samples at any time, before and after    *)
(* the start, of any executions, and any values on any number of stacks,   *)
(* scenarios and TLS cells.                                                *)
EXTENDS ChartDrawing, ChartLayoutProofs

(* What is known of the chart at hand.                                     *)
IInv ==
    /\ asked \in Asked
    /\ phase = "asked" => rows = {}
    /\ (phase = "answered" /\ asked.kind = "timeline") =>
            rows = Windows(asked.samples, asked.origins, asked.aligned, asked.aggregate)
    /\ OnPaper =>
            values = Timeline(Windows(asked.samples, asked.origins, asked.aligned, asked.aggregate),
                              asked.origins, asked.family, asked.profile)
    /\ (phase \in {"parsed", "drawn"} /\ asked.kind = "workload") =>
            values # {} /\ {p.execution : p \in values} \subseteq ExpectedExecutions(asked.family)

----------------------------------------------------------------------------
(* Arithmetic of half seconds.                                             *)

(* A point is in the second it was taken in, or in the next.               *)
LEMMA LateByOne ==
    ASSUME NEW time \in Nat, NEW origin \in Nat
    PROVE  /\ ElapsedSecond(StopLabel(time), origin) \in Int
           /\ time >= origin =>
                ElapsedSecond(StopLabel(time), origin)
                    \in (time - origin) \div Second .. (time - origin) \div Second + 1
           /\ time < origin => ElapsedSecond(StopLabel(time), origin) <= 0
BY DEF ElapsedSecond, StopLabel, Second

LEMMA OnTime ==
    ASSUME NEW time \in Nat, NEW origin \in Nat
    PROVE  /\ ElapsedSecond(StartLabel(time, origin), origin) \in Int
           /\ time >= origin =>
                ElapsedSecond(StartLabel(time, origin), origin) = (time - origin) \div Second
           /\ time < origin => ElapsedSecond(StartLabel(time, origin), origin) < 0
BY DEF ElapsedSecond, StartLabel, Second

(* The later of two samples is never shown earlier, and the distance of    *)
(* their points is that of their seconds.                                  *)
Far(d, e) == /\ d <= 60 * Second => e <= 60
             /\ d >= 61 * Second => e >= 61

LEMMA StopLabelSteady ==
    ASSUME NEW s \in Nat, NEW t \in Nat, NEW origin \in Nat, s <= t
    PROVE  LET p == ElapsedSecond(StopLabel(s), origin)
               q == ElapsedSecond(StopLabel(t), origin)
           IN  p <= q /\ (s >= origin => Far(t - s, q - p))
BY DEF ElapsedSecond, StopLabel, Second, Far

LEMMA StartLabelSteady ==
    ASSUME NEW s \in Nat, NEW t \in Nat, NEW origin \in Nat, s <= t
    PROVE  LET p == ElapsedSecond(StartLabel(s, origin), origin)
               q == ElapsedSecond(StartLabel(t, origin), origin)
           IN  p <= q /\ (s >= origin => Far(t - s, q - p))
BY DEF ElapsedSecond, StartLabel, Second, Far

(* After the first second a window is told by its second.                  *)
LEMMA StopLabelTold ==
    ASSUME NEW s \in Nat, NEW t \in Nat, NEW origin \in Nat,
           ElapsedSecond(StopLabel(s), origin) = ElapsedSecond(StopLabel(t), origin),
           ElapsedSecond(StopLabel(s), origin) > 0
    PROVE  StopLabel(s) = StopLabel(t)
BY DEF ElapsedSecond, StopLabel, Second

LEMMA StartLabelTold ==
    ASSUME NEW s \in Nat, NEW t \in Nat, NEW origin \in Nat,
           ElapsedSecond(StartLabel(s, origin), origin)
               = ElapsedSecond(StartLabel(t, origin), origin),
           ElapsedSecond(StartLabel(s, origin), origin) > 0
    PROVE  StartLabel(s, origin) = StartLabel(t, origin)
BY DEF ElapsedSecond, StartLabel, Second

----------------------------------------------------------------------------
(* The window, and the point, a sample ends up in.                         *)
Label(s) == IF asked.aligned THEN StartLabel(s.time, FirstOf(asked.origins)) ELSE StopLabel(s.time)
Series(s) == IF asked.aligned THEN None ELSE s.execution
Together(s) == {t \in asked.samples : Series(t) = Series(s) /\ Label(t) = Label(s)}
WindowOf(s) == [series |-> Series(s), time |-> Label(s), samples |-> Together(s),
                value |-> Aggregate(asked.aggregate, Together(s))]

At(s) == ElapsedSecond(Label(s), Start(s))
Marked == {s \in asked.samples : Shown(s) /\ At(s) >= 0}
Merged(line, second) == {WindowOf(s) : s \in {s \in Marked : Line(s) = line /\ At(s) = second}}
Spot(s) == [repeat |-> Line(s), second |-> At(s), windows |-> Merged(Line(s), At(s))]
Spots == {Spot(s) : s \in Marked}
PointFor(s) == [repeat |-> Line(s), second |-> At(s), windows |-> Merged(Line(s), At(s)),
                segment |-> Segment(Spot(s), Spots)]

TimelineAsked == asked \in Asked /\ asked.kind = "timeline"

LEMMA TimelineFacts ==
    ASSUME TimelineAsked
    PROVE  /\ TimelineData(asked)
           /\ FirstOf(asked.origins) \in Nat
           /\ \A s \in asked.samples : s.time \in Nat /\ Start(s) \in Nat
<1>1. TimelineData(asked)
  BY AskedAssumption DEF TimelineAsked
<1>2. FirstOf(asked.origins) \in Nat
  <2> DEFINE S == {asked.origins[e] : e \in DOMAIN asked.origins}
  <2>1. S \subseteq Nat /\ S # {}
    BY <1>1 DEF TimelineData
  <2> HIDE DEF S
  <2>2. Min(S) \in Nat
    BY <2>1, LeastNatural
  <2>3. QED
    BY <2>2 DEF S, FirstOf
<1>3. QED
  BY <1>1, <1>2 DEF TimelineData, Start

(* What parse_aggregate_rows() reads off a window is what holds of each of *)
(* its samples.                                                            *)
LEMMA WindowTells ==
    ASSUME TimelineAsked, NEW s \in asked.samples
    PROVE  /\ OnTimeline(WindowOf(s), asked.family, asked.profile) <=> Shown(s)
           /\ RepeatOf(WindowOf(s), asked.family, asked.profile) = Line(s)
           /\ SecondOf(WindowOf(s), asked.origins, asked.profile) = At(s)
           /\ WindowOf(s).series = Series(s) /\ WindowOf(s).time = Label(s)
           /\ s \in WindowOf(s).samples
<1>1. asked.aligned \in BOOLEAN /\ (asked.aligned => asked.profile = None)
  BY TimelineFacts DEF TimelineData
<1>2. /\ WindowOf(s).series = Series(s) /\ WindowOf(s).time = Label(s)
      /\ WindowOf(s).samples = Together(s)
  BY DEF WindowOf
<1>3. asked.profile # None => WindowOf(s).series = s.execution
  BY <1>1, <1>2 DEF Series
<1>4. OnTimeline(WindowOf(s), asked.family, asked.profile) <=> Shown(s)
  BY <1>3 DEF OnTimeline, Shown
<1>5. RepeatOf(WindowOf(s), asked.family, asked.profile) = Line(s)
  BY <1>3 DEF RepeatOf, Line
<1>6. SecondOf(WindowOf(s), asked.origins, asked.profile) = At(s)
  BY <1>2, <1>3 DEF SecondOf, At, Start
<1>7. QED
  BY <1>2, <1>4, <1>5, <1>6 DEF Together

LEMMA SameWindow ==
    ASSUME NEW s \in asked.samples, NEW t, t \in WindowOf(s).samples
    PROVE  t \in asked.samples /\ WindowOf(t) = WindowOf(s)
<1>1. t \in asked.samples /\ Series(t) = Series(s) /\ Label(t) = Label(s)
  BY DEF WindowOf, Together
<1>2. QED
  BY <1>1 DEF WindowOf, Together

LEMMA WindowsAre ==
    Windows(asked.samples, asked.origins, asked.aligned, asked.aggregate) = {WindowOf(s) : s \in asked.samples}
BY Zenon DEF Windows, WindowOf, Together, Series, Label

(* The points, before they are numbered by segments.                       *)
LEMMA PointsAre ==
    ASSUME TimelineAsked
    PROVE  Points(Windows(asked.samples, asked.origins, asked.aligned, asked.aggregate),
                  asked.origins, asked.family, asked.profile) = Spots
<1> DEFINE W == {WindowOf(s) : s \in asked.samples}
           O(w) == OnTimeline(w, asked.family, asked.profile)
           R(w) == RepeatOf(w, asked.family, asked.profile)
           T(w) == SecondOf(w, asked.origins, asked.profile)
           shown == {w \in W : O(w) /\ T(w) >= 0}
           at(w) == {v \in shown : <<R(v), T(v)>> = <<R(w), T(w)>>}
           all == {[repeat |-> <<R(w), T(w)>>[1], second |-> <<R(w), T(w)>>[2], windows |-> at(w)] : w \in shown}
<1>1. Points(W, asked.origins, asked.family, asked.profile) = all
  BY Zenon DEF Points
<1>2. ASSUME NEW s \in asked.samples
      PROVE  (O(WindowOf(s)) <=> Shown(s)) /\ R(WindowOf(s)) = Line(s) /\ T(WindowOf(s)) = At(s)
  BY WindowTells
<1> HIDE DEF O, R, T
<1>3. shown = {WindowOf(s) : s \in Marked}
  <2>1. ASSUME NEW w
        PROVE  w \in shown <=> \E s \in Marked : w = WindowOf(s)
    BY <1>2 DEF Marked
  <2> HIDE DEF shown
  <2>2. QED
    BY <2>1
<1>4. ASSUME NEW s \in Marked
      PROVE  at(WindowOf(s)) = Merged(Line(s), At(s))
  <2>1. s \in asked.samples /\ Marked \subseteq asked.samples
    BY DEF Marked
  <2> HIDE DEF shown
  <2>2. ASSUME NEW v
        PROVE  v \in at(WindowOf(s)) <=> \E t \in Marked : /\ v = WindowOf(t)
                                                          /\ Line(t) = Line(s) /\ At(t) = At(s)
    <3>1. v \in at(WindowOf(s)) <=>
              v \in shown /\ R(v) = R(WindowOf(s)) /\ T(v) = T(WindowOf(s))
      OBVIOUS
    <3>2. v \in shown <=> \E t \in Marked : v = WindowOf(t)
      BY <1>3
    <3> HIDE DEF at
    <3>3. QED
      BY <1>2, <2>1, <3>1, <3>2, Zenon
  <2>3. ASSUME NEW v
        PROVE  v \in Merged(Line(s), At(s)) <=> \E t \in Marked : /\ v = WindowOf(t)
                                                                 /\ Line(t) = Line(s) /\ At(t) = At(s)
    BY DEF Merged
  <2> HIDE DEF at
  <2>4. QED
    BY <2>2, <2>3
<1>5. all = Spots
  <2>1. ASSUME NEW s \in Marked
        PROVE  [repeat |-> <<R(WindowOf(s)), T(WindowOf(s))>>[1],
                second |-> <<R(WindowOf(s)), T(WindowOf(s))>>[2], windows |-> at(WindowOf(s))] = Spot(s)
    <3>1. s \in asked.samples
      BY DEF Marked
    <3>2. R(WindowOf(s)) = Line(s) /\ T(WindowOf(s)) = At(s) /\ at(WindowOf(s)) = Merged(Line(s), At(s))
      BY <1>2, <1>4, <3>1
    <3> HIDE DEF at
    <3>3. QED
      BY <3>2 DEF Spot
  <2> DEFINE made(w) == [repeat |-> <<R(w), T(w)>>[1], second |-> <<R(w), T(w)>>[2], windows |-> at(w)]
  <2>2. all = {made(w) : w \in shown}
    OBVIOUS
  <2>3. \A s \in Marked : made(WindowOf(s)) = Spot(s)
    BY <2>1
  <2> HIDE DEF made, shown, all
  <2>4. QED
    BY <1>3, <2>2, <2>3, Zenon DEF Spots
<1>6. QED
  BY <1>1, <1>5, WindowsAre

LEMMA TimelineIs ==
    ASSUME TimelineAsked
    PROVE  Timeline(Windows(asked.samples, asked.origins, asked.aligned, asked.aggregate),
                    asked.origins, asked.family, asked.profile) = {PointFor(s) : s \in Marked}
<1> DEFINE made(q) == [repeat |-> q.repeat, second |-> q.second, windows |-> q.windows,
                       segment |-> Segment(q, Spots)]
<1>1. Timeline(Windows(asked.samples, asked.origins, asked.aligned, asked.aggregate),
               asked.origins, asked.family, asked.profile) = {made(q) : q \in Spots}
  BY PointsAre, Zenon DEF Timeline
<1>2. \A s \in Marked : made(Spot(s)) = PointFor(s)
  BY DEF Spot, PointFor
<1> HIDE DEF made
<1>3. QED
  BY <1>1, <1>2, Zenon DEF Spots

----------------------------------------------------------------------------
(* A sample and its point.                                                 *)

(* Seconds, whichever way the windows are labelled.                        *)
LEMMA SecondsOf ==
    ASSUME TimelineAsked, NEW s \in asked.samples
    PROVE  /\ At(s) \in Int
           /\ s.time >= Start(s) =>
                At(s) \in (s.time - Start(s)) \div Second ..
                          (s.time - Start(s)) \div Second + (IF asked.aligned THEN 0 ELSE 1)
           /\ s.time < Start(s) => At(s) <= 0
<1>1. s.time \in Nat /\ Start(s) \in Nat /\ asked.aligned \in BOOLEAN
      /\ (asked.aligned => Start(s) = FirstOf(asked.origins))
  BY TimelineFacts DEF TimelineData, Start
<1>2. CASE asked.aligned
  <2>1. At(s) = ElapsedSecond(StartLabel(s.time, Start(s)), Start(s))
    BY <1>1, <1>2 DEF At, Label
  <2>2. (s.time - Start(s)) \div Second \in Int
    BY <1>1 DEF Second
  <2>3. QED
    BY <1>1, <1>2, <2>1, <2>2, OnTime
<1>3. CASE ~asked.aligned
  <2>1. At(s) = ElapsedSecond(StopLabel(s.time), Start(s))
    BY <1>3 DEF At, Label
  <2>2. QED
    BY <1>1, <1>3, <2>1, LateByOne
<1>4. QED
  BY <1>2, <1>3

LEMMA SecondsSteady ==
    ASSUME TimelineAsked, NEW s \in asked.samples, NEW t \in asked.samples,
           Start(s) = Start(t), s.time <= t.time
    PROVE  /\ At(s) <= At(t)
           /\ s.time >= Start(s) => Far(t.time - s.time, At(t) - At(s))
<1>1. /\ s.time \in Nat /\ t.time \in Nat /\ Start(s) \in Nat /\ asked.aligned \in BOOLEAN
      /\ (asked.aligned => Start(s) = FirstOf(asked.origins))
  BY TimelineFacts DEF TimelineData, Start
<1>2. CASE asked.aligned
  <2>1. /\ At(s) = ElapsedSecond(StartLabel(s.time, Start(s)), Start(s))
        /\ At(t) = ElapsedSecond(StartLabel(t.time, Start(s)), Start(s))
    BY <1>1, <1>2 DEF At, Label
  <2>2. QED
    BY <1>1, <2>1, StartLabelSteady
<1>3. CASE ~asked.aligned
  <2>1. /\ At(s) = ElapsedSecond(StopLabel(s.time), Start(s))
        /\ At(t) = ElapsedSecond(StopLabel(t.time), Start(s))
    BY <1>3 DEF At, Label
  <2>2. QED
    BY <1>1, <2>1, StopLabelSteady
<1>4. QED
  BY <1>2, <1>3

LEMMA SecondsTell ==
    ASSUME TimelineAsked, NEW s \in asked.samples, NEW t \in asked.samples,
           Series(s) = Series(t), At(s) = At(t), At(s) > 0
    PROVE  WindowOf(s) = WindowOf(t)
<1>1. /\ s.time \in Nat /\ t.time \in Nat /\ Start(s) \in Nat /\ asked.aligned \in BOOLEAN
      /\ (asked.aligned => asked.profile = None /\ Start(s) = FirstOf(asked.origins))
  BY TimelineFacts DEF TimelineData, Start
<1>2. Start(s) = Start(t)
  BY <1>1 DEF Start, Series
<1>3. Label(s) = Label(t)
  <2>1. CASE asked.aligned
    <3>1. /\ Label(s) = StartLabel(s.time, Start(s)) /\ Label(t) = StartLabel(t.time, Start(s))
      BY <1>1, <2>1 DEF Label
    <3>2. QED
      BY <1>1, <1>2, <3>1, StartLabelTold DEF At
  <2>2. CASE ~asked.aligned
    <3>1. Label(s) = StopLabel(s.time) /\ Label(t) = StopLabel(t.time)
      BY <2>2 DEF Label
    <3>2. QED
      BY <1>1, <1>2, <3>1, StopLabelTold DEF At
  <2>3. QED
    BY <2>1, <2>2
<1>4. QED
  BY <1>3 DEF WindowOf, Together

(* A sample is in the windows of its own point, and of no other.           *)
LEMMA PointOfSample ==
    ASSUME TimelineAsked, values = {PointFor(s) : s \in Marked}, NEW s \in asked.samples
    PROVE  PointsOf(s) = IF s \in Marked THEN {PointFor(s)} ELSE {}
<1>1. ASSUME NEW q \in PointsOf(s)
      PROVE  s \in Marked /\ q = PointFor(s)
  <2>1. PICK w \in q.windows : s \in w.samples
    BY DEF PointsOf
  <2>2. PICK u \in Marked : q = PointFor(u)
    BY DEF PointsOf
  <2>3. q.windows = Merged(Line(u), At(u))
    BY <2>2 DEF PointFor
  <2>4. PICK t \in Marked : w = WindowOf(t) /\ Line(t) = Line(u) /\ At(t) = At(u)
    BY <2>1, <2>3 DEF Merged
  <2>5. t \in asked.samples /\ WindowOf(s) = WindowOf(t)
    BY <2>1, <2>4, SameWindow DEF Marked
  <2>6. (Shown(s) <=> Shown(t)) /\ Line(s) = Line(t) /\ At(s) = At(t)
    BY <2>5, WindowTells
  <2>7. s \in Marked
    BY <2>4, <2>6 DEF Marked
  <2>8. QED
    BY <2>2, <2>4, <2>6, <2>7 DEF PointFor, Spot
<1>2. ASSUME s \in Marked
      PROVE  PointFor(s) \in PointsOf(s)
  <2>1. WindowOf(s) \in Merged(Line(s), At(s))
    BY <1>2 DEF Merged
  <2>2. PointFor(s).windows = Merged(Line(s), At(s))
    BY DEF PointFor
  <2>3. s \in WindowOf(s).samples
    BY WindowTells
  <2>4. PointFor(s) \in values
    BY <1>2
  <2>5. QED
    BY <2>1, <2>2, <2>3, <2>4, Zenon DEF PointsOf
<1>3. QED
  BY <1>1, <1>2

LEMMA PointFields ==
    ASSUME NEW s
    PROVE  /\ PointFor(s).repeat = Line(s) /\ PointFor(s).second = At(s)
           /\ PointFor(s).windows = Merged(Line(s), At(s))
           /\ PointFor(s).segment = Segment(Spot(s), Spots)
BY DEF PointFor

(* What was sampled is shown once, in its second.                          *)
LEMMA SamplesShown ==
    ASSUME TimelineAsked, values = {PointFor(s) : s \in Marked}
    PROVE  SamplesInTheirSecond
<1>1. ASSUME NEW s \in asked.samples, ~Shown(s)
      PROVE  PointsOf(s) = {}
  BY <1>1, PointOfSample DEF Marked
<1>2. ASSUME NEW s \in asked.samples, Shown(s), s.time < Start(s), NEW q \in PointsOf(s)
      PROVE  q.second = 0
  <2>1. s \in Marked /\ q = PointFor(s)
    BY PointOfSample
  <2>2. At(s) \in Int /\ At(s) <= 0 /\ At(s) >= 0
    BY <1>2, <2>1, SecondsOf DEF Marked
  <2>3. QED
    BY <2>1, <2>2, PointFields
<1>3. ASSUME NEW s \in asked.samples, Shown(s), ~(s.time < Start(s))
      PROVE  /\ Cardinality(PointsOf(s)) = 1
             /\ \A q \in PointsOf(s) :
                    /\ q.repeat = Line(s)
                    /\ q.second \in (s.time - Start(s)) \div Second ..
                          (s.time - Start(s)) \div Second + (IF asked.aligned THEN 0 ELSE 1)
  <2>1. s.time \in Nat /\ Start(s) \in Nat /\ s.time >= Start(s)
    BY <1>3, TimelineFacts
  <2>2. At(s) \in (s.time - Start(s)) \div Second ..
                  (s.time - Start(s)) \div Second + (IF asked.aligned THEN 0 ELSE 1)
    BY <2>1, SecondsOf
  <2>3. At(s) >= 0
    BY <2>1, <2>2 DEF Second
  <2>4. PointsOf(s) = {PointFor(s)}
    BY <1>3, <2>3, PointOfSample DEF Marked
  <2>5. Cardinality(PointsOf(s)) = 1
    BY <2>4, FS_Singleton
  <2>6. PointFor(s).repeat = Line(s) /\ PointFor(s).second = At(s)
    BY PointFields
  <2>7. QED
    BY <2>2, <2>4, <2>5, <2>6, Zenon
<1>4. ASSUME NEW q \in values, q.second > 0, NEW v \in q.windows, NEW w \in q.windows,
             v.series = w.series
      PROVE  v = w
  <2>1. PICK u \in Marked : q = PointFor(u)
    OBVIOUS
  <2>2. q.windows = Merged(Line(u), At(u)) /\ q.second = At(u)
    BY <2>1, PointFields
  <2>3. PICK s \in Marked : v = WindowOf(s) /\ At(s) = At(u)
    BY <2>2 DEF Merged
  <2>4. PICK t \in Marked : w = WindowOf(t) /\ At(t) = At(u)
    BY <2>2 DEF Merged
  <2>5. s \in asked.samples /\ t \in asked.samples
    BY DEF Marked
  <2>6. Series(s) = Series(t)
    BY <1>4, <2>3, <2>4, <2>5, WindowTells
  <2>7. QED
    BY <1>4, <2>2, <2>3, <2>4, <2>5, <2>6, SecondsTell
<1>5. QED
  BY <1>1, <1>2, <1>3, <1>4, Zenon DEF SamplesInTheirSecond

----------------------------------------------------------------------------
(* The executions of a workload by profile and repeat.                     *)
Profiles(family) == IF family = "linear" THEN {0, 1} ELSE {0, 1, 2}

ExecutionOf(family, p, k) ==
    IF family = "linear" THEN <<"linear", 2 * k + p + 1>>
    ELSE IF family = "race" THEN <<"race", 3 * k + p + 1>>
    ELSE <<IF p = 0 THEN "linear" ELSE IF p = 1 THEN "flat" ELSE "sine", 3 * k + p + 1>>

NameOf(family, p) ==
    IF family = "linear" THEN IF p = 0 THEN "Fixed 100 VUs" ELSE "Expandable to 1,000 VUs"
    ELSE IF family = "race"
    THEN IF p = 0 THEN "10 VUs" ELSE IF p = 1 THEN "100 VUs" ELSE "1,000 VUs"
    ELSE IF p = 0 THEN "Linear" ELSE IF p = 1 THEN "Flat" ELSE "Sine"

LEMMA Families ==
    ASSUME NEW family \in DOMAIN ProfileRows
    PROVE  family \in {"baseline", "linear", "race"}
BY DEF ProfileRows

LEMMA ExecutionsAre ==
    ASSUME NEW family \in DOMAIN ProfileRows, NEW e \in ExpectedExecutions(family)
    PROVE  \E p \in Profiles(family), k \in Repeats : e = ExecutionOf(family, p, k)
<1>1. CASE family = "baseline"
  <2> DEFINE is(p, k) == e = ExecutionOf(family, p, k)
  <2>1. \/ is(0, 0) \/ is(0, 1) \/ is(0, 2) \/ is(1, 0) \/ is(1, 1) \/ is(1, 2)
        \/ is(2, 0) \/ is(2, 1) \/ is(2, 2)
    BY <1>1 DEF ExpectedExecutions, ExecutionOf
  <2> HIDE DEF is
  <2>2. \E p \in Profiles(family), k \in Repeats : is(p, k)
    BY <1>1, <2>1 DEF Profiles, Repeats
  <2>3. QED
    BY <2>2 DEF is
<1>2. CASE family = "linear"
  <2>1. PICK n \in 1 .. 6 : e = <<"linear", n>>
    BY <1>2 DEF ExpectedExecutions
  <2>2. \E p \in {0, 1}, k \in {0, 1, 2} : n = 2 * k + p + 1
    OBVIOUS
  <2>3. QED
    BY <1>2, <2>1, <2>2 DEF Profiles, Repeats, ExecutionOf
<1>3. CASE family = "race"
  <2>1. PICK n \in 1 .. 9 : e = <<"race", n>>
    BY <1>3 DEF ExpectedExecutions
  <2>2. \E p \in {0, 1, 2}, k \in {0, 1, 2} : n = 3 * k + p + 1
    OBVIOUS
  <2>3. QED
    BY <1>3, <2>1, <2>2 DEF Profiles, Repeats, ExecutionOf
<1>4. QED
  BY <1>1, <1>2, <1>3, Families

LEMMA ExecutionsIn ==
    ASSUME NEW family \in DOMAIN ProfileRows, NEW p \in Profiles(family), NEW k \in Repeats
    PROVE  ExecutionOf(family, p, k) \in ExpectedExecutions(family)
<1>1. CASE family = "baseline"
  BY <1>1 DEF Profiles, Repeats, ExecutionOf, ExpectedExecutions
<1>2. CASE family = "linear"
  BY <1>2 DEF Profiles, Repeats, ExecutionOf, ExpectedExecutions
<1>3. CASE family = "race"
  BY <1>3 DEF Profiles, Repeats, ExecutionOf, ExpectedExecutions
<1>4. QED
  BY <1>1, <1>2, <1>3, Families

(* profile_slot()                                                          *)
LEMMA Slots ==
    ASSUME NEW family \in DOMAIN ProfileRows, NEW p \in Profiles(family), NEW k \in Repeats
    PROVE  ProfileSlot(family, ExecutionOf(family, p, k)) = <<NameOf(family, p), k>>
<1> DEFINE e == ExecutionOf(family, p, k)
<1>1. CASE family = "baseline"
  <2>1. /\ p \in {0, 1, 2} /\ k \in {0, 1, 2}
        /\ e[1] = IF p = 0 THEN "linear" ELSE IF p = 1 THEN "flat" ELSE "sine"
        /\ e[2] = 3 * k + p + 1
    BY <1>1 DEF ExecutionOf, Profiles, Repeats
  <2>2. /\ [linear |-> "Linear", flat |-> "Flat", sine |-> "Sine"][e[1]] = NameOf(family, p)
        /\ [linear |-> 1, flat |-> 2, sine |-> 3][e[1]] = p + 1
    BY <1>1, <2>1 DEF NameOf
  <2>3. \A i \in Repeats : e[2] = 3 * i + (p + 1) <=> i = k
    BY <2>1 DEF Repeats
  <2>4. (CHOOSE i \in Repeats : e[2] = 3 * i + (p + 1)) = k
    BY <2>3
  <2> HIDE DEF e
  <2>5. ProfileSlot(family, e) = <<NameOf(family, p), k>>
    BY <1>1, <2>2, <2>4, Zenon DEF ProfileSlot
  <2>6. QED
    BY <2>5 DEF e
<1>2. CASE family = "linear"
  <2>1. /\ p \in {0, 1} /\ k \in {0, 1, 2} /\ e[2] = 2 * k + p + 1
    BY <1>2 DEF ExecutionOf, Profiles, Repeats
  <2>2. /\ e[2] \in {1, 3, 5} <=> p = 0
        /\ p = 0 => (e[2] - 1) \div 2 = k
        /\ p = 1 => (e[2] - 2) \div 2 = k
    BY <2>1
  <2> HIDE DEF e
  <2>3. ProfileSlot(family, e) = <<NameOf(family, p), k>>
    BY <1>2, <2>1, <2>2 DEF ProfileSlot, NameOf
  <2>4. QED
    BY <2>3 DEF e
<1>3. CASE family = "race"
  <2>1. /\ p \in {0, 1, 2} /\ k \in {0, 1, 2} /\ e[2] = 3 * k + p + 1
    BY <1>3 DEF ExecutionOf, Profiles, Repeats
  <2>2. (e[2] - 1) % 3 = p /\ (e[2] - 1) \div 3 = k
    BY <2>1
  <2>3. (<<"10 VUs", "100 VUs", "1,000 VUs">>)[p + 1] = NameOf(family, p)
    <3>1. CASE p = 0
      BY <1>3, <3>1 DEF NameOf
    <3>2. CASE p = 1
      BY <1>3, <3>2 DEF NameOf
    <3>3. CASE p = 2
      BY <1>3, <3>3 DEF NameOf
    <3>4. QED
      BY <2>1, <3>1, <3>2, <3>3
  <2> HIDE DEF e
  <2>4. ProfileSlot(family, e) = <<NameOf(family, p), k>>
    BY <1>3, <2>2, <2>3 DEF ProfileSlot
  <2>5. QED
    BY <2>4 DEF e
<1>4. QED
  BY <1>1, <1>2, <1>3, Families

LEMMA RaceNames ==
    /\ NameOf("race", 0) # NameOf("race", 1)
    /\ NameOf("race", 0) # NameOf("race", 2)
    /\ NameOf("race", 1) # NameOf("race", 2)
<1>1. /\ NameOf("race", 0) = "10 VUs" /\ NameOf("race", 1) = "100 VUs"
      /\ NameOf("race", 2) = "1,000 VUs"
  BY DEF NameOf
<1>2. "10 VUs" # "100 VUs" /\ "10 VUs" # "1,000 VUs" /\ "100 VUs" # "1,000 VUs"
  OBVIOUS
<1>3. QED
  BY <1>1, <1>2

LEMMA NamesApart ==
    ASSUME NEW family \in DOMAIN ProfileRows, NEW p \in Profiles(family), NEW q \in Profiles(family),
           NameOf(family, p) = NameOf(family, q)
    PROVE  p = q
<1>1. CASE family = "linear"
  BY <1>1 DEF Profiles, NameOf
<1>2. CASE family = "race"
  <2>1. /\ p \in {0, 1, 2} /\ q \in {0, 1, 2}
    BY <1>2 DEF Profiles
  <2>2. QED
    BY <1>2, <2>1, RaceNames
<1>3. CASE family = "baseline"
  BY <1>3 DEF Profiles, NameOf
<1>4. QED
  BY <1>1, <1>2, <1>3, Families

(* profile_slot() never takes two executions for the same Profile Run.     *)
LEMMA SlotsApart ==
    ASSUME NEW family \in DOMAIN ProfileRows,
           NEW e \in ExpectedExecutions(family), NEW f \in ExpectedExecutions(family),
           ProfileSlot(family, e)[1] = ProfileSlot(family, f)[1],
           ProfileSlot(family, e)[2] = ProfileSlot(family, f)[2]
    PROVE  e = f
<1>1. PICK p \in Profiles(family), k \in Repeats : e = ExecutionOf(family, p, k)
  BY ExecutionsAre
<1>2. PICK q \in Profiles(family), l \in Repeats : f = ExecutionOf(family, q, l)
  BY ExecutionsAre
<1>3. /\ ProfileSlot(family, e) = <<NameOf(family, p), k>>
      /\ ProfileSlot(family, f) = <<NameOf(family, q), l>>
  BY <1>1, <1>2, Slots
<1>4. NameOf(family, p) = NameOf(family, q) /\ k = l
  BY <1>3
<1>5. QED
  BY <1>1, <1>2, <1>4, NamesApart

----------------------------------------------------------------------------
(* Where a line runs on, and where it stops.                               *)
LEMMA SameStart ==
    ASSUME TimelineAsked, NEW s \in asked.samples, NEW t \in asked.samples,
           Shown(s), Shown(t), Line(s) = Line(t)
    PROVE  Start(s) = Start(t)
<1>1. CASE asked.profile = None
  BY <1>1 DEF Start
<1>2. CASE asked.profile # None
  <2>1. /\ s.execution \in ExpectedExecutions(asked.family)
        /\ t.execution \in ExpectedExecutions(asked.family)
    BY <1>2, TimelineFacts DEF TimelineData
  <2>2. asked.family \in DOMAIN ProfileRows
    BY AskedAssumption DEF TimelineAsked
  <2>3. /\ ProfileSlot(asked.family, s.execution)[1] = ProfileSlot(asked.family, t.execution)[1]
        /\ ProfileSlot(asked.family, s.execution)[2] = ProfileSlot(asked.family, t.execution)[2]
    BY <1>2 DEF Shown, Line
  <2>4. s.execution = t.execution
    BY <2>1, <2>2, <2>3, SlotsApart
  <2>5. QED
    BY <1>2, <2>4 DEF Start
<1>3. QED
  BY <1>1, <1>2

LEMMA SpotsFinite ==
    ASSUME TimelineAsked
    PROVE  IsFiniteSet(Spots)
<1>1. IsFiniteSet(Marked)
  <2>1. IsFiniteSet(asked.samples) /\ Marked \in SUBSET asked.samples
    BY TimelineFacts DEF TimelineData, Marked
  <2>2. QED
    BY <2>1, FS_Subset
<1> DEFINE f == [s \in Marked |-> Spot(s)]
<1>2. f \in Surjection(Marked, Spots)
  BY Zenon DEF Spots, Surjection
<1>3. QED
  BY <1>1, <1>2, FS_Surjection

LEMMA SpotFields ==
    ASSUME NEW s
    PROVE  /\ Spot(s).repeat = Line(s) /\ Spot(s).second = At(s)
BY DEF Spot

(* The gaps in a line up to a point, which Segment counts.                 *)
Gap(o) == \E p \in Previous(o, Spots) : Break(p, o)
Gaps(line, second) == {o \in Spots : o.repeat = line /\ o.second <= second /\ Gap(o)}

LEMMA SegmentCounts ==
    ASSUME NEW s
    PROVE  Segment(Spot(s), Spots) = Cardinality(Gaps(Line(s), At(s)))
<1>1. {o \in Spots : o.repeat = Spot(s).repeat /\ o.second <= Spot(s).second
                     /\ \E p \in Previous(o, Spots) : Break(p, o)} = Gaps(Line(s), At(s))
  BY SpotFields DEF Gaps, Gap
<1>2. QED
  BY <1>1 DEF Segment

LEMMA RunsOn ==
    ASSUME TimelineAsked, NEW s \in Marked, NEW t \in Marked,
           Line(s) = Line(t), At(s) <= At(t), At(t) - At(s) <= 60
    PROVE  Gaps(Line(s), At(s)) = Gaps(Line(t), At(t))
<1>1. At(s) \in Int /\ At(t) \in Int /\ \A o \in Spots : o.second \in Int
  BY SecondsOf, SpotFields DEF Marked, Spots
<1>2. ASSUME NEW o \in Gaps(Line(t), At(t)), ~(o.second <= At(s))
      PROVE  FALSE
  <2>1. o \in Spots /\ o.repeat = Line(s) /\ o.second <= At(t) /\ Gap(o)
    BY <1>2 DEF Gaps
  <2>2. PICK p \in Previous(o, Spots) : Break(p, o)
    BY <2>1 DEF Gap
  <2>3. Spot(s) \in Spots /\ Spot(s).repeat = o.repeat /\ Spot(s).second < o.second
    BY <1>1, <1>2, <2>1, SpotFields DEF Spots
  <2>4. p \in Spots /\ At(s) <= p.second
    BY <2>3, SpotFields DEF Previous
  <2>5. o.second - p.second > 60
    BY <2>2 DEF Break
  <2>6. QED
    BY <1>1, <2>1, <2>4, <2>5
<1>3. ASSUME NEW o
      PROVE  o \in Gaps(Line(s), At(s)) <=> o \in Gaps(Line(t), At(t))
  <2>1. o \in Gaps(Line(s), At(s)) => o \in Gaps(Line(t), At(t))
    <3>1. o \in Spots /\ o.second <= At(s) => o.second <= At(t)
      BY <1>1
    <3>2. QED
      BY <3>1 DEF Gaps
  <2>2. o \in Gaps(Line(t), At(t)) => o \in Gaps(Line(s), At(s))
    BY <1>2 DEF Gaps
  <2>3. QED
    BY <2>1, <2>2
<1>4. QED
  BY <1>3

LEMMA StopsAtGap ==
    ASSUME TimelineAsked, NEW s \in Marked, NEW t \in Marked,
           Line(s) = Line(t), At(t) - At(s) > 60,
           \A u \in Marked : (Line(u) = Line(s) /\ At(u) < At(t)) => At(u) <= At(s)
    PROVE  Cardinality(Gaps(Line(s), At(s))) < Cardinality(Gaps(Line(t), At(t)))
<1>1. At(s) \in Int /\ At(t) \in Int /\ \A o \in Spots : o.second \in Int
  BY SecondsOf, SpotFields DEF Marked, Spots
<1>2. Spot(s) \in Previous(Spot(t), Spots)
  <2>1. /\ Spot(s) \in Spots /\ Spot(s).repeat = Spot(t).repeat
        /\ Spot(s).second < Spot(t).second
    BY <1>1, SpotFields DEF Spots
  <2>2. ASSUME NEW o \in Spots, o.repeat = Spot(t).repeat, o.second < Spot(t).second
        PROVE  o.second <= Spot(s).second
    <3>1. PICK u \in Marked : o = Spot(u)
      BY DEF Spots
    <3>2. QED
      BY <2>2, <3>1, SpotFields
  <2>3. QED
    BY <2>1, <2>2 DEF Previous
<1>3. Break(Spot(s), Spot(t))
  BY SpotFields DEF Break
<1>4. Spot(t) \in Gaps(Line(t), At(t)) /\ Spot(t) \notin Gaps(Line(s), At(s))
  <2>1. Spot(t) \in Spots /\ Spot(t).repeat = Line(t) /\ Spot(t).second = At(t)
    BY SpotFields DEF Spots
  <2>2. At(t) <= At(t) /\ ~(At(t) <= At(s))
    BY <1>1
  <2>3. Gap(Spot(t))
    BY <1>2, <1>3 DEF Gap
  <2>4. QED
    BY <2>1, <2>2, <2>3 DEF Gaps
<1>5. Gaps(Line(s), At(s)) \subseteq Gaps(Line(t), At(t))
  <2>1. \A o \in Spots : o.second <= At(s) => o.second <= At(t)
    BY <1>1
  <2>2. QED
    BY <2>1 DEF Gaps
<1>6. IsFiniteSet(Gaps(Line(t), At(t)))
  <2>1. Gaps(Line(t), At(t)) \in SUBSET Spots
    BY DEF Gaps
  <2>2. QED
    BY <2>1, SpotsFinite, FS_Subset
<1>7. /\ IsFiniteSet(Gaps(Line(s), At(s)))
      /\ Cardinality(Gaps(Line(s), At(s))) <= Cardinality(Gaps(Line(t), At(t)))
      /\ Cardinality(Gaps(Line(s), At(s))) # Cardinality(Gaps(Line(t), At(t)))
  BY <1>4, <1>5, <1>6, FS_Subset
<1>8. /\ Cardinality(Gaps(Line(s), At(s))) \in Nat
      /\ Cardinality(Gaps(Line(t), At(t))) \in Nat
  BY <1>6, <1>7, FS_CardinalityType
<1>9. QED
  BY <1>7, <1>8

(* A line is whole where samples are close, and stops at the gaps.         *)
LEMMA LinesShown ==
    ASSUME TimelineAsked, values = {PointFor(s) : s \in Marked}
    PROVE  LinesBreakAtGaps
<1> SUFFICES ASSUME NEW s \in asked.samples, Shown(s), s.time >= Start(s),
                    NEW t \in asked.samples, Shown(t), t.time >= Start(t),
                    Line(s) = Line(t), s.time < t.time,
                    NEW p \in PointsOf(s), NEW q \in PointsOf(t)
             PROVE  /\ t.time - s.time <= 60 * Second => p.segment = q.segment
                    /\ (/\ t.time - s.time >= 61 * Second
                        /\ ~\E u \in asked.samples :
                             Shown(u) /\ Line(u) = Line(s) /\ s.time < u.time /\ u.time < t.time)
                       => p.segment < q.segment
  BY DEF LinesBreakAtGaps
<1>1. /\ s \in Marked /\ p = PointFor(s)
      /\ t \in Marked /\ q = PointFor(t)
  BY PointOfSample
<1>2. /\ p.segment = Cardinality(Gaps(Line(s), At(s)))
      /\ q.segment = Cardinality(Gaps(Line(t), At(t)))
  BY <1>1, PointFields, SegmentCounts
<1>3. /\ s.time \in Nat /\ t.time \in Nat /\ At(s) \in Int /\ At(t) \in Int
  BY TimelineFacts, SecondsOf
<1>4. At(s) <= At(t) /\ Far(t.time - s.time, At(t) - At(s))
  BY <1>3, SameStart, SecondsSteady
<1>5. ASSUME t.time - s.time <= 60 * Second
      PROVE  p.segment = q.segment
  <2>1. At(t) - At(s) <= 60
    BY <1>4, <1>5 DEF Far
  <2>2. QED
    BY <1>1, <1>2, <1>4, <2>1, RunsOn
<1>6. ASSUME t.time - s.time >= 61 * Second,
             ~\E u \in asked.samples :
                 Shown(u) /\ Line(u) = Line(s) /\ s.time < u.time /\ u.time < t.time
      PROVE  p.segment < q.segment
  <2>1. At(t) - At(s) > 60
    BY <1>3, <1>4, <1>6 DEF Far
  <2>2. ASSUME NEW u \in Marked, Line(u) = Line(s), At(u) < At(t)
        PROVE  At(u) <= At(s)
    <3>1. u \in asked.samples /\ Shown(u) /\ u.time \in Nat /\ At(u) \in Int
      BY TimelineFacts, SecondsOf DEF Marked
    <3>2. Start(u) = Start(s) /\ Start(u) = Start(t)
      BY <2>2, <3>1, SameStart
    <3>3. CASE u.time <= s.time
      BY <3>1, <3>2, <3>3, SecondsSteady
    <3>4. CASE u.time >= t.time
      <4>1. At(t) <= At(u)
        BY <1>3, <3>1, <3>2, <3>4, SecondsSteady
      <4>2. QED
        BY <1>3, <2>2, <3>1, <4>1
    <3>5. QED
      BY <1>3, <1>6, <2>2, <3>1, <3>3, <3>4
  <2>3. QED
    BY <1>1, <1>2, <2>1, <2>2, StopsAtGap
<1>7. QED
  BY <1>5, <1>6

----------------------------------------------------------------------------
(* The legend of a workload of which every execution is drawn.             *)
HueOf(family, p) ==
    IF family = "linear" THEN IF p = 0 THEN "linear" ELSE "expandable"
    ELSE IF family = "race"
    THEN IF p = 0 THEN "race-10" ELSE IF p = 1 THEN "race-100" ELSE "race-1000"
    ELSE IF p = 0 THEN "linear" ELSE IF p = 1 THEN "flat" ELSE "sine"

LEMMA HuesApart ==
    ASSUME NEW family \in DOMAIN ProfileRows, NEW p \in Profiles(family), NEW q \in Profiles(family),
           HueOf(family, p) = HueOf(family, q)
    PROVE  p = q
<1>1. CASE family = "linear"
  BY <1>1 DEF Profiles, HueOf
<1>2. CASE family = "race"
  <2>1. p \in {0, 1, 2} /\ q \in {0, 1, 2}
    BY <1>2 DEF Profiles
  <2>2. /\ HueOf(family, 0) = "race-10" /\ HueOf(family, 1) = "race-100"
        /\ HueOf(family, 2) = "race-1000"
    BY <1>2 DEF HueOf
  <2>3. QED
    BY <2>1, <2>2
<1>3. CASE family = "baseline"
  BY <1>3 DEF Profiles, HueOf
<1>4. QED
  BY <1>1, <1>2, <1>3, Families

(* legend_order(), profile_color()                                         *)
LEMMA OrdersAndColors ==
    ASSUME NEW family \in DOMAIN ProfileRows, NEW p \in Profiles(family), NEW k \in Repeats
    PROVE  /\ LegendOrder(family, ExecutionOf(family, p, k)) = <<p, k>>
           /\ ProfileColor(family, ExecutionOf(family, p, k)) = <<HueOf(family, p), k>>
<1> DEFINE e == ExecutionOf(family, p, k)
<1>1. CASE family = "baseline"
  <2>1. /\ p \in {0, 1, 2} /\ k \in {0, 1, 2}
        /\ e[1] = IF p = 0 THEN "linear" ELSE IF p = 1 THEN "flat" ELSE "sine"
        /\ e[2] = 3 * k + p + 1
    BY <1>1 DEF ExecutionOf, Profiles, Repeats
  <2>2. /\ [linear |-> 0, flat |-> 1, sine |-> 2][e[1]] = p
        /\ e[1] = HueOf(family, p)
        /\ (e[2] - 1) \div 3 = k
    BY <1>1, <2>1 DEF HueOf
  <2> HIDE DEF e
  <2>3. LegendOrder(family, e) = <<p, k>> /\ ProfileColor(family, e) = <<HueOf(family, p), k>>
    BY <1>1, <2>2, Zenon DEF LegendOrder, ProfileColor
  <2>4. QED
    BY <2>3 DEF e
<1>2. CASE family = "linear"
  <2>1. /\ p \in {0, 1} /\ k \in {0, 1, 2} /\ e[2] = 2 * k + p + 1
    BY <1>2 DEF ExecutionOf, Profiles, Repeats
  <2>2. (e[2] % 2 = 1 <=> p = 0) /\ (e[2] - 1) \div 2 = k
    BY <2>1
  <2> HIDE DEF e
  <2>3. LegendOrder(family, e) = <<p, k>> /\ ProfileColor(family, e) = <<HueOf(family, p), k>>
    BY <1>2, <2>1, <2>2 DEF LegendOrder, ProfileColor, HueOf
  <2>4. QED
    BY <2>3 DEF e
<1>3. CASE family = "race"
  <2>1. /\ p \in {0, 1, 2} /\ k \in {0, 1, 2} /\ e[2] = 3 * k + p + 1
    BY <1>3 DEF ExecutionOf, Profiles, Repeats
  <2>2. (e[2] - 1) % 3 = p /\ (e[2] - 1) \div 3 = k
    BY <2>1
  <2>3. (<<"race-10", "race-100", "race-1000">>)[p + 1] = HueOf(family, p)
    <3>1. CASE p = 0
      BY <1>3, <3>1 DEF HueOf
    <3>2. CASE p = 1
      BY <1>3, <3>2 DEF HueOf
    <3>3. CASE p = 2
      BY <1>3, <3>3 DEF HueOf
    <3>4. QED
      BY <2>1, <3>1, <3>2, <3>3
  <2> HIDE DEF e
  <2>4. LegendOrder(family, e) = <<p, k>> /\ ProfileColor(family, e) = <<HueOf(family, p), k>>
    BY <1>3, <2>2, <2>3 DEF LegendOrder, ProfileColor
  <2>5. QED
    BY <2>4 DEF e
<1>4. QED
  BY <1>1, <1>2, <1>3, Families

LEMMA ExecutionsApart ==
    ASSUME NEW family \in DOMAIN ProfileRows, NEW p \in Profiles(family), NEW k \in Repeats,
           NEW q \in Profiles(family), NEW l \in Repeats,
           ExecutionOf(family, p, k) = ExecutionOf(family, q, l)
    PROVE  p = q /\ k = l
<1>1. /\ LegendOrder(family, ExecutionOf(family, p, k)) = <<p, k>>
      /\ LegendOrder(family, ExecutionOf(family, q, l)) = <<q, l>>
  BY OrdersAndColors
<1>2. QED
  BY <1>1

(* The entries before one are as many as the places before it.             *)
Ahead(family, executions, e) ==
    {f \in executions :
        \/ LegendOrder(family, f)[1] < LegendOrder(family, e)[1]
        \/ /\ LegendOrder(family, f)[1] = LegendOrder(family, e)[1]
           /\ LegendOrder(family, f)[2] < LegendOrder(family, e)[2]}
Before(family, e) == Ahead(family, ExpectedExecutions(family), e)

LEMMA BeforeAre ==
    ASSUME NEW family \in DOMAIN ProfileRows, NEW p \in Profiles(family), NEW k \in Repeats,
           NEW q \in Profiles(family), NEW l \in Repeats
    PROVE  ExecutionOf(family, q, l) \in Before(family, ExecutionOf(family, p, k))
                <=> 3 * q + l < 3 * p + k
<1>1. /\ LegendOrder(family, ExecutionOf(family, p, k)) = <<p, k>>
      /\ LegendOrder(family, ExecutionOf(family, q, l)) = <<q, l>>
      /\ ExecutionOf(family, q, l) \in ExpectedExecutions(family)
  BY OrdersAndColors, ExecutionsIn
<1>2. p \in 0 .. 2 /\ q \in 0 .. 2 /\ k \in 0 .. 2 /\ l \in 0 .. 2
  BY DEF Profiles, Repeats
<1>3. (q < p \/ (q = p /\ l < k)) <=> 3 * q + l < 3 * p + k
  BY <1>2
<1>4. QED
  BY <1>1, <1>3 DEF Before, Ahead

LEMMA Indexes ==
    ASSUME NEW family \in DOMAIN ProfileRows, NEW p \in Profiles(family), NEW k \in Repeats
    PROVE  Cardinality(Before(family, ExecutionOf(family, p, k))) = 3 * p + k
<1> DEFINE n == 3 * p + k
           B == Before(family, ExecutionOf(family, p, k))
           g == [i \in 1 .. n |-> ExecutionOf(family, (i - 1) \div 3, (i - 1) % 3)]
<1>1. p \in 0 .. 2 /\ k \in 0 .. 2 /\ n \in Nat
  BY DEF Profiles, Repeats
<1>2. ASSUME NEW i \in 1 .. n
      PROVE  /\ (i - 1) \div 3 \in Profiles(family) /\ (i - 1) % 3 \in Repeats
             /\ 3 * ((i - 1) \div 3) + ((i - 1) % 3) = i - 1
  <2>1. /\ (i - 1) \div 3 \in 0 .. p /\ (i - 1) % 3 \in 0 .. 2
        /\ 3 * ((i - 1) \div 3) + ((i - 1) % 3) = i - 1
    BY <1>1
  <2>2. 0 .. p \subseteq Profiles(family)
    BY <1>1 DEF Profiles
  <2>3. QED
    BY <2>1, <2>2 DEF Repeats
<1>3. ASSUME NEW i \in 1 .. n
      PROVE  g[i] \in B
  <2>1. 3 * ((i - 1) \div 3) + ((i - 1) % 3) < 3 * p + k
    BY <1>1, <1>2
  <2>2. QED
    BY <1>2, <2>1, BeforeAre
<1>4. ASSUME NEW i \in 1 .. n, NEW j \in 1 .. n, g[i] = g[j]
      PROVE  i = j
  <2>1. ExecutionOf(family, (i - 1) \div 3, (i - 1) % 3) = ExecutionOf(family, (j - 1) \div 3, (j - 1) % 3)
    BY <1>4
  <2>2. (i - 1) \div 3 = (j - 1) \div 3 /\ (i - 1) % 3 = (j - 1) % 3
    BY <1>2, <2>1, ExecutionsApart
  <2>3. i - 1 = j - 1
    BY <1>2, <2>2
  <2>4. QED
    BY <1>1, <2>3
<1>5. ASSUME NEW f \in B
      PROVE  \E i \in 1 .. n : g[i] = f
  <2>1. f \in ExpectedExecutions(family)
    BY DEF Before, Ahead
  <2>2. PICK q \in Profiles(family), l \in Repeats : f = ExecutionOf(family, q, l)
    BY <2>1, ExecutionsAre
  <2>3. 3 * q + l < n
    BY <2>2, BeforeAre
  <2> DEFINE i == 3 * q + l + 1
  <2>4. i \in 1 .. n /\ (i - 1) \div 3 = q /\ (i - 1) % 3 = l
    <3>1. q \in 0 .. 2 /\ l \in 0 .. 2
      BY DEF Profiles, Repeats
    <3>2. QED
      BY <1>1, <2>3, <3>1
  <2> HIDE DEF i, n
  <2>5. g[i] = ExecutionOf(family, (i - 1) \div 3, (i - 1) % 3)
    BY <2>4
  <2>6. g[i] = f
    BY <2>2, <2>4, <2>5
  <2>7. QED
    BY <2>4, <2>6
<1>6. g \in Bijection(1 .. n, B)
  <2> HIDE DEF B
  <2>1. g \in [1 .. n -> B]
    BY <1>3
  <2> HIDE DEF g
  <2>2. g \in Injection(1 .. n, B)
    BY <1>4, <2>1 DEF Injection, IsInjective
  <2>3. g \in Surjection(1 .. n, B)
    BY <1>5, <2>1 DEF Surjection
  <2>4. QED
    BY <2>2, <2>3 DEF Bijection
<1>7. ExistsBijection(1 .. n, B)
  BY <1>6 DEF ExistsBijection
<1> HIDE DEF B, n, g
<1>8. Cardinality(B) = n
  BY <1>1, <1>7, FS_CountingElements
<1>9. QED
  BY <1>8 DEF B, n

(* Hues and shades are profiles and Profile Runs; so are rows and columns,  *)
(* once the executions are all there.                                      *)
Executions == {p.execution : p \in values}
Entries == Legend(asked.family, Executions)
SlotOf(e) == ProfileSlot(asked.family, e.execution)

ColoursTell ==
    \A e, f \in Entries :
        e.color[2] = SlotOf(e)[2] /\ (e.color[1] = f.color[1] <=> SlotOf(e)[1] = SlotOf(f)[1])
PlacesTell ==
    \A e, f \in Entries :
        e.column = SlotOf(e)[2] /\ (e.row = f.row <=> SlotOf(e)[1] = SlotOf(f)[1])

LEMMA EntriesAre ==
    ASSUME NEW e \in Entries
    PROVE  /\ e.execution \in Executions /\ e.color = ProfileColor(asked.family, e.execution)
           /\ e.row = Cardinality(Ahead(asked.family, Executions, e.execution)) \div 3
           /\ e.column = Cardinality(Ahead(asked.family, Executions, e.execution)) % 3
<1> DEFINE index(c) == Cardinality(Ahead(asked.family, Executions, c))
           entry(c) == [execution |-> c, color |-> ProfileColor(asked.family, c),
                        row |-> index(c) \div 3, column |-> index(c) % 3,
                        x |-> 92 + (index(c) % 3) * 547, y |-> 76 + 278 + 52 + (index(c) \div 3) * 24]
<1>1. Entries = {entry(c) : c \in Executions}
  BY Zenon DEF Entries, Legend, Ahead
<1> HIDE DEF index
<1>2. PICK c \in Executions : e = entry(c)
  BY <1>1
<1>3. /\ e.execution = c /\ e.color = ProfileColor(asked.family, c)
      /\ e.row = index(c) \div 3 /\ e.column = index(c) % 3
  BY <1>2
<1>4. QED
  BY <1>3 DEF index

LEMMA ColoursAre ==
    ASSUME asked.family \in DOMAIN ProfileRows, Executions \subseteq ExpectedExecutions(asked.family)
    PROVE  ColoursTell
<1> DEFINE family == asked.family
<1>1. ASSUME NEW e \in Entries
      PROVE  \E p \in Profiles(family), k \in Repeats :
                /\ e.color[1] = HueOf(family, p) /\ e.color[2] = k
                /\ SlotOf(e)[1] = NameOf(family, p) /\ SlotOf(e)[2] = k
  <2>1. PICK c \in Executions : e.execution = c /\ e.color = ProfileColor(family, c)
    BY EntriesAre
  <2>2. PICK p \in Profiles(family), k \in Repeats : c = ExecutionOf(family, p, k)
    BY ExecutionsAre
  <2>3. ProfileColor(family, c) = <<HueOf(family, p), k>>
    BY <2>2, OrdersAndColors
  <2>4. ProfileSlot(family, c) = <<NameOf(family, p), k>>
    BY <2>2, Slots
  <2>5. QED
    BY <2>1, <2>3, <2>4 DEF SlotOf
<1>2. ASSUME NEW e \in Entries, NEW f \in Entries
      PROVE  e.color[2] = SlotOf(e)[2] /\ (e.color[1] = f.color[1] <=> SlotOf(e)[1] = SlotOf(f)[1])
  <2>1. PICK p \in Profiles(family), k \in Repeats :
            /\ e.color[1] = HueOf(family, p) /\ e.color[2] = k
            /\ SlotOf(e)[1] = NameOf(family, p) /\ SlotOf(e)[2] = k
    BY <1>1
  <2>2. PICK q \in Profiles(family) :
            f.color[1] = HueOf(family, q) /\ SlotOf(f)[1] = NameOf(family, q)
    BY <1>1
  <2>3. /\ NameOf(family, p) = NameOf(family, q) => p = q
        /\ HueOf(family, p) = HueOf(family, q) => p = q
    BY NamesApart, HuesApart
  <2>4. QED
    BY <2>1, <2>2, <2>3
<1>3. QED
  BY <1>2 DEF ColoursTell

LEMMA PlacesAre ==
    ASSUME asked.family \in DOMAIN ProfileRows, Executions = ExpectedExecutions(asked.family)
    PROVE  PlacesTell
<1> DEFINE family == asked.family
           index(e) == Cardinality(Before(family, e))
<1>1. ASSUME NEW e \in Entries
      PROVE  /\ e.execution \in ExpectedExecutions(family)
             /\ e.row = index(e.execution) \div 3 /\ e.column = index(e.execution) % 3
  BY EntriesAre DEF Before
<1> HIDE DEF index
<1>2. ASSUME NEW e \in Entries
      PROVE  \E p \in Profiles(family), k \in Repeats :
                e.row = p /\ e.column = k /\ SlotOf(e)[1] = NameOf(family, p) /\ SlotOf(e)[2] = k
  <2> DEFINE c == e.execution
  <2>1. PICK p \in Profiles(family), k \in Repeats : c = ExecutionOf(family, p, k)
    BY <1>1, ExecutionsAre
  <2>2. index(c) = 3 * p + k
    BY <2>1, Indexes DEF index
  <2>3. (3 * p + k) \div 3 = p /\ (3 * p + k) % 3 = k
    <3>1. p \in 0 .. 2 /\ k \in 0 .. 2
      BY DEF Profiles, Repeats
    <3>2. QED
      BY <3>1
  <2>4. ProfileSlot(family, c) = <<NameOf(family, p), k>>
    BY <2>1, Slots
  <2>5. QED
    BY <1>1, <2>2, <2>3, <2>4 DEF SlotOf
<1>3. ASSUME NEW e \in Entries, NEW f \in Entries
      PROVE  e.column = SlotOf(e)[2] /\ (e.row = f.row <=> SlotOf(e)[1] = SlotOf(f)[1])
  <2>1. PICK p \in Profiles(family), k \in Repeats :
            e.row = p /\ e.column = k /\ SlotOf(e)[1] = NameOf(family, p) /\ SlotOf(e)[2] = k
    BY <1>2
  <2>2. PICK q \in Profiles(family) : f.row = q /\ SlotOf(f)[1] = NameOf(family, q)
    BY <1>2
  <2>3. NameOf(family, p) = NameOf(family, q) => p = q
    BY NamesApart
  <2>4. QED
    BY <2>1, <2>2, <2>3
<1>4. QED
  BY <1>3 DEF PlacesTell

LEMMA LegendTells ==
    ASSUME asked.family \in DOMAIN ProfileRows, Executions \subseteq ExpectedExecutions(asked.family)
    PROVE  LegendAgreesWithSlots
<1>1. ColoursTell /\ (Executions = ExpectedExecutions(asked.family) => PlacesTell)
  BY ColoursAre, PlacesAre
<1>2. QED
  BY <1>1, Zenon DEF ColoursTell, PlacesTell, Entries, Executions, SlotOf, LegendAgreesWithSlots

----------------------------------------------------------------------------
(* What holds of the values and the pages by the phase.                    *)
Types ==
    /\ phase \in {"asked", "answered", "parsed", "drawn", "refused"}
    /\ phase = "asked" => rows = {}
    /\ phase \in {"parsed", "drawn"} => values # None
    /\ phase = "drawn" <=> pages # {}
    /\ \A page \in pages : Proper(page)

LEMMA PagesProper ==
    ASSUME Types, phase = "parsed", NEW R, R # {}, \A r \in R : r = None \/ Proper(r),
           pages' = (IF None \in R THEN {} ELSE R),
           phase' = (IF None \in R THEN "refused" ELSE "drawn"),
           UNCHANGED <<asked, rows, values>>
    PROVE  Types'
<1>1. CASE None \in R
  BY <1>1 DEF Types
<1>2. CASE None \notin R
  <2>1. pages' = R /\ phase' = "drawn" /\ \A r \in R : Proper(r)
    BY <1>2
  <2>2. QED
    BY <2>1 DEF Types
<1>3. QED
  BY <1>1, <1>2

LEMMA ValuesThere ==
    ASSUME Types, phase = "answered", NEW R, values' = R,
           phase' = (IF R = None THEN "refused" ELSE "parsed"),
           UNCHANGED <<asked, rows, pages>>
    PROVE  Types'
BY DEF Types

LEMMA Timelines ==
    ASSUME IInv, OnPaper
    PROVE  TimelineAsked /\ values = {PointFor(s) : s \in Marked}
<1>1. TimelineAsked
  BY DEF IInv, OnPaper, TimelineAsked
<1>2. QED
  BY <1>1, TimelineIs DEF IInv

LEMMA PointsTyped ==
    ASSUME IInv, OnPaper, NEW q \in values
    PROVE  q.second \in Nat /\ q.segment \in Nat /\ q.windows # {}
<1>1. TimelineAsked /\ values = {PointFor(s) : s \in Marked}
  BY Timelines
<1>2. PICK s \in Marked : q = PointFor(s)
  BY <1>1
<1>3. At(s) \in Nat
  BY <1>1, SecondsOf DEF Marked
<1>4. Segment(Spot(s), Spots) \in Nat
  <2>1. Gaps(Line(s), At(s)) \in SUBSET Spots /\ IsFiniteSet(Spots)
    BY <1>1, SpotsFinite DEF Gaps
  <2>2. IsFiniteSet(Gaps(Line(s), At(s)))
    BY <2>1, FS_Subset
  <2>3. QED
    BY <2>2, SegmentCounts, FS_CardinalityType
<1>5. WindowOf(s) \in Merged(Line(s), At(s))
  BY DEF Merged
<1>6. QED
  BY <1>2, <1>3, <1>4, <1>5, PointFields

----------------------------------------------------------------------------
(* The invariant.                                                          *)
LEMMA InitIInv ==
    ASSUME Init
    PROVE  IInv /\ Types
BY DEF Init, IInv, Types, OnPaper

LEMMA StepIInv ==
    ASSUME IInv, [Next]_vars
    PROVE  IInv'
<1>1. CASE QueryRows
  BY <1>1 DEF QueryRows, IInv, OnPaper
<1>2. CASE TakeExecutions
  BY <1>2 DEF TakeExecutions, FromSummary, IInv, OnPaper
<1>3. CASE QueryWindows
  BY <1>3 DEF QueryWindows, IInv, OnPaper
<1>4. CASE LoadTable
  BY <1>4 DEF LoadTable, IInv, OnPaper
<1>5. CASE ParseTimeline
  <2>1. /\ UNCHANGED <<asked, rows>> /\ asked.kind = "timeline" /\ phase' \in {"parsed", "refused"}
        /\ rows = Windows(asked.samples, asked.origins, asked.aligned, asked.aggregate)
    BY <1>5 DEF ParseTimeline, Parsed, IInv
  <2>2. phase' = "parsed" =>
            values' = Timeline(rows, asked.origins, asked.family, asked.profile)
    BY <1>5 DEF ParseTimeline, Parsed
  <2>3. QED
    BY <2>1, <2>2 DEF IInv, OnPaper
<1>6. CASE ParseExecutions
  BY <1>6 DEF ParseExecutions, Parsed, IInv, OnPaper
<1>7. CASE ParsePools
  BY <1>7 DEF ParsePools, Parsed, IInv, OnPaper
<1>8. CASE ParseCompletions
  BY <1>8 DEF ParseCompletions, Parsed, IInv, OnPaper
<1>9. CASE ParseBytes
  BY <1>9 DEF ParseBytes, Parsed, IInv, OnPaper
<1>10. CASE ParseTable
  <2>1. /\ UNCHANGED <<asked, rows>> /\ asked.kind = "workload" /\ phase' \in {"parsed", "refused"}
    BY <1>10 DEF ParseTable, Parsed
  <2>2. phase' = "parsed" =>
            /\ values' = rows /\ rows # {}
            /\ {p.execution : p \in rows} = {row.execution : row \in asked.stored}
    BY <1>10 DEF ParseTable, Parsed
  <2>3. {row.execution : row \in asked.stored} \subseteq ExpectedExecutions(asked.family)
    <3>1. \A row \in asked.stored : row.execution \in ExpectedExecutions(asked.family)
      BY <2>1, AskedAssumption DEF IInv, TableData
    <3>2. QED
      BY <3>1
  <2>4. phase' = "parsed" =>
            values' # {} /\ {p.execution : p \in values}' \subseteq ExpectedExecutions(asked.family)
    BY <2>2, <2>3
  <2>5. QED
    BY <2>1, <2>4 DEF IInv, OnPaper
<1>11. CASE \/ DrawTimeline \/ DrawBars \/ DrawFailures \/ DrawScenarioRanges \/ DrawCompletion
            \/ DrawTlsRanges \/ DrawTlsCompletion \/ DrawTlsBytes \/ DrawWorkload
  <2>1. /\ UNCHANGED <<asked, rows, values>> /\ phase = "parsed"
        /\ phase' \in {"drawn", "refused"}
    BY <1>11 DEF DrawTimeline, DrawBars, DrawFailures, DrawScenarioRanges, DrawCompletion,
                 DrawTlsRanges, DrawTlsCompletion, DrawTlsBytes, DrawWorkload, Drawn, Kind
  <2>2. QED
    BY <2>1 DEF IInv, OnPaper
<1>12. CASE Ended \/ UNCHANGED vars
  BY <1>12 DEF Ended, vars, IInv, OnPaper
<1>13. QED
  BY <1>1, <1>2, <1>3, <1>4, <1>5, <1>6, <1>7, <1>8, <1>9, <1>10, <1>11, <1>12 DEF Next

LEMMA RowsThere ==
    ASSUME NEW family \in DOMAIN ProfileRows
    PROVE  ProfileRows[family] # {}
<1>1. "Sine" \in ProfileRows["baseline"] /\ "10 VUs" \in ProfileRows["race"]
      /\ "Fixed 100 VUs" \in ProfileRows["linear"]
  BY DEF ProfileRows
<1>2. QED
  BY <1>1, Families

LEMMA StepTypes ==
    ASSUME IInv, Types, [Next]_vars
    PROVE  Types'
<1>1. CASE QueryRows \/ TakeExecutions \/ QueryWindows \/ LoadTable
  BY <1>1 DEF QueryRows, TakeExecutions, QueryWindows, LoadTable, Types
<1>2. CASE ParseTimeline
  BY <1>2, ValuesThere DEF ParseTimeline, Parsed
<1>3. CASE ParseExecutions
  BY <1>3, ValuesThere DEF ParseExecutions, Parsed
<1>4. CASE ParsePools
  BY <1>4, ValuesThere DEF ParsePools, Parsed
<1>5. CASE ParseCompletions
  BY <1>5, ValuesThere DEF ParseCompletions, Parsed
<1>6. CASE ParseBytes
  BY <1>6, ValuesThere DEF ParseBytes, Parsed
<1>7. CASE ParseTable
  BY <1>7, ValuesThere DEF ParseTable, Parsed
<1>8. CASE DrawTimeline
  <2> DEFINE r == IF asked.panels THEN SmallMultiples(values) ELSE TimeSeries(values, asked.mode)
  <2>1. phase = "parsed" /\ Drawn({r})
    BY <1>8 DEF DrawTimeline, Kind
  <2>2. r = None \/ Proper(r)
    BY ChartsProper
  <2> HIDE DEF r
  <2>3. QED
    BY <2>1, <2>2, PagesProper DEF Drawn
<1>9. CASE DrawBars
  <2> DEFINE R == {Bars(p, asked.stacks, values, asked.mode) : p \in ProfileRows[asked.family]}
  <2>1. phase = "parsed" /\ Drawn(R) /\ asked.kind = "bars"
    BY <1>9 DEF DrawBars, Kind
  <2>2. ProfileRows[asked.family] # {}
    BY <2>1, AskedAssumption, RowsThere DEF IInv
  <2>3. R # {} /\ \A r \in R : r = None \/ Proper(r)
    BY <2>2, ChartsProper
  <2> HIDE DEF R
  <2>4. QED
    BY <2>1, <2>3, PagesProper DEF Drawn
<1>10. CASE DrawFailures
  <2> DEFINE R == {FailureBars(p, asked.stacks, values) : p \in ProfileRows[asked.family]}
  <2>1. phase = "parsed" /\ Drawn(R) /\ asked.kind = "failures"
    BY <1>10 DEF DrawFailures, Kind
  <2>2. ProfileRows[asked.family] # {}
    BY <2>1, AskedAssumption, RowsThere DEF IInv
  <2>3. R # {} /\ \A r \in R : r = None \/ Proper(r)
    BY <2>2, ChartsProper
  <2> HIDE DEF R
  <2>4. QED
    BY <2>1, <2>3, PagesProper DEF Drawn
<1>11. CASE DrawScenarioRanges
  <2> DEFINE r == ScenarioRanges(Cardinality(asked.expected), values, asked.mode)
  <2>1. phase = "parsed" /\ Drawn({r})
    BY <1>11 DEF DrawScenarioRanges, Kind
  <2>2. r = None \/ Proper(r)
    BY ChartsProper
  <2> HIDE DEF r
  <2>3. QED
    BY <2>1, <2>2, PagesProper DEF Drawn
<1>12. CASE DrawCompletion
  <2> DEFINE R == {CompletionBars(p, asked.rows, values, ValuesOf(values)) : p \in ProfileRows["race"]}
  <2>1. phase = "parsed" /\ Drawn(R)
    BY <1>12 DEF DrawCompletion, Kind
  <2>2. ProfileRows["race"] # {}
    BY DEF ProfileRows
  <2>3. R # {} /\ \A r \in R : r = None \/ Proper(r)
    BY <2>2, ChartsProper
  <2> HIDE DEF R
  <2>4. QED
    BY <2>1, <2>3, PagesProper DEF Drawn
<1>13. CASE DrawTlsRanges
  <2> DEFINE r == TlsChart("tls", "percentiles", asked.labels, asked.expected, values, {}, asked.mode)
  <2>1. phase = "parsed" /\ Drawn({r})
    BY <1>13 DEF DrawTlsRanges, Kind
  <2>2. r = None \/ Proper(r)
    BY ChartsProper
  <2> HIDE DEF r
  <2>3. QED
    BY <2>1, <2>2, PagesProper DEF Drawn
<1>14. CASE DrawTlsCompletion
  <2> DEFINE chart(p) == TlsChart(p, "completion", asked.labels, {k[2] : k \in asked.expected}, OfProfile(p),
                                  ValuesOf(values), "linear")
             R == {chart(p) : p \in ProfileRows["race"]}
  <2>1. phase = "parsed" /\ Drawn(R)
    BY <1>14 DEF DrawTlsCompletion, Kind
  <2>2. ProfileRows["race"] # {}
    BY DEF ProfileRows
  <2>3. \A p : chart(p) = None \/ Proper(chart(p))
    BY ChartsProper
  <2> HIDE DEF chart
  <2>4. R # {} /\ \A r \in R : r = None \/ Proper(r)
    BY <2>2, <2>3
  <2> HIDE DEF R
  <2>5. QED
    BY <2>1, <2>4, PagesProper DEF Drawn
<1>15. CASE DrawTlsBytes
  <2> DEFINE r == TlsChart("tls", "bytes", asked.labels, asked.expected, values, ValuesOf(values), "linear")
  <2>1. phase = "parsed" /\ Drawn({r})
    BY <1>15 DEF DrawTlsBytes, Kind
  <2>2. r = None \/ Proper(r)
    BY ChartsProper
  <2> HIDE DEF r
  <2>3. QED
    BY <2>1, <2>2, PagesProper DEF Drawn
<1>16. CASE DrawWorkload
  <2> DEFINE r == Workload(asked.family, values)
  <2>1. phase = "parsed" /\ Drawn({r})
    BY <1>16 DEF DrawWorkload, Kind
  <2>2. r = None \/ Proper(r)
    BY ChartsProper
  <2> HIDE DEF r
  <2>3. QED
    BY <2>1, <2>2, PagesProper DEF Drawn
<1>17. CASE Ended \/ UNCHANGED vars
  BY <1>17 DEF Ended, vars, Types
<1>18. QED
  BY <1>1, <1>2, <1>3, <1>4, <1>5, <1>6, <1>7, <1>8, <1>9, <1>10, <1>11, <1>12, <1>13, <1>14, <1>15,
     <1>16, <1>17 DEF Next

----------------------------------------------------------------------------
(* What was asked, read, parsed and drawn belongs together: rows of the    *)
(* chart's own query, values of those rows, pages of those values.         *)
ByQuery == asked.kind \notin FromSummary \cup {"timeline", "workload"}
Cells(table) == {row \in table : row.value # None}

Answers ==
    /\ ByQuery => rows = OfSummary(asked)
    /\ asked.kind \in FromSummary => rows = asked.stored
    /\ asked.kind = "workload" => rows = Cells(asked.stored)

ByteValues(counters, expected) ==
    LET of(k) == [r \in Repeats |-> CHOOSE row \in counters : row.of = k /\ row.repeat = r]
        bytes == [k \in expected |-> BytesPerRequest(of(k))]
    IN  IF \E k \in expected : bytes[k] = None THEN None
        ELSE [k \in {<<k, "bytes">> : k \in expected} |-> bytes[k[1]]]

Results ==
    /\ asked.kind = "timeline" => values # {}
    /\ asked.kind = "bars" => values = Percentiles(OfSummary(asked), asked.family, ToSet(asked.stacks))
    /\ asked.kind = "failures" =>
            values = FailureRates(OfSummary(asked), asked.family, ToSet(asked.stacks))
    /\ asked.kind \in {"scenario ranges", "tls ranges"} =>
            values = PooledPercentiles(OfSummary(asked), asked.expected)
    /\ asked.kind \in {"completion", "tls completion"} =>
            values = Completions(asked.stored, asked.expected)
    /\ asked.kind = "tls bytes" => values = ByteValues(asked.stored, asked.expected)
    /\ asked.kind = "workload" => values = Cells(asked.stored)

ProfileValues(f, p) ==
    [k \in {<<k[2], k[3]>> : k \in {k \in DOMAIN f : k[1] = p}} |-> f[<<p, k[1], k[2]>>]]

Pictures ==
    \/ asked.kind = "timeline"
       /\ pages = {IF asked.panels THEN SmallMultiples(values) ELSE TimeSeries(values, asked.mode)}
    \/ asked.kind = "bars"
       /\ pages = {Bars(p, asked.stacks, values, asked.mode) : p \in ProfileRows[asked.family]}
    \/ asked.kind = "failures"
       /\ pages = {FailureBars(p, asked.stacks, values) : p \in ProfileRows[asked.family]}
    \/ asked.kind = "scenario ranges"
       /\ pages = {ScenarioRanges(Cardinality(asked.expected), values, asked.mode)}
    \/ asked.kind = "completion"
       /\ pages = {CompletionBars(p, asked.rows, values, ValuesOf(values)) : p \in ProfileRows["race"]}
    \/ asked.kind = "tls ranges"
       /\ pages = {TlsChart("tls", "percentiles", asked.labels, asked.expected, values, {}, asked.mode)}
    \/ asked.kind = "tls completion"
       /\ pages = {TlsChart(p, "completion", asked.labels, {k[2] : k \in asked.expected},
                            ProfileValues(values, p), ValuesOf(values), "linear") : p \in ProfileRows["race"]}
    \/ asked.kind = "tls bytes"
       /\ pages = {TlsChart("tls", "bytes", asked.labels, asked.expected, values, ValuesOf(values), "linear")}
    \/ asked.kind = "workload" /\ pages = {Workload(asked.family, values)}

Filed ==
    /\ phase = "answered" => Answers
    /\ phase \in {"parsed", "drawn"} => Results
    /\ phase = "drawn" => None \notin pages /\ Pictures

LEMMA InitFiled ==
    ASSUME Init
    PROVE  Filed
BY DEF Init, Filed

LEMMA FiledAnswer ==
    ASSUME phase' = "answered", Answers'
    PROVE  Filed'
BY DEF Filed

LEMMA FiledResult ==
    ASSUME NEW R, Parsed(R), R # None => Results'
    PROVE  Filed'
BY DEF Filed, Parsed

LEMMA FiledPicture ==
    ASSUME Filed, phase = "parsed", NEW R, Drawn(R), None \notin R => Pictures'
    PROVE  Filed'
<1>1. Results
  BY DEF Filed
<1>2. UNCHANGED <<asked, rows, values>>
  BY DEF Drawn
<1>3. Results'
  BY <1>1, <1>2 DEF Results
<1>4. /\ pages' = (IF None \in R THEN {} ELSE R)
      /\ phase' = (IF None \in R THEN "refused" ELSE "drawn")
  BY DEF Drawn
<1>5. QED
  BY <1>3, <1>4 DEF Filed

LEMMA StepFiled ==
    ASSUME Filed, [Next]_vars
    PROVE  Filed'
<1>1. CASE QueryRows
  <2>1. phase' = "answered" /\ UNCHANGED asked /\ ByQuery /\ rows' = OfSummary(asked)
    BY <1>1 DEF QueryRows, ByQuery, OfSummary
  <2>2. Answers'
    BY <2>1 DEF Answers, ByQuery, FromSummary
  <2>3. QED
    BY <2>1, <2>2, FiledAnswer
<1>2. CASE TakeExecutions
  <2>1. phase' = "answered" /\ UNCHANGED asked /\ asked.kind \in FromSummary /\ rows' = asked.stored
    BY <1>2 DEF TakeExecutions
  <2>2. Answers'
    BY <2>1 DEF Answers, ByQuery, FromSummary
  <2>3. QED
    BY <2>1, <2>2, FiledAnswer
<1>3. CASE QueryWindows
  <2>1. phase' = "answered" /\ UNCHANGED asked /\ asked.kind = "timeline"
    BY <1>3 DEF QueryWindows
  <2>2. Answers'
    BY <2>1 DEF Answers, ByQuery, FromSummary
  <2>3. QED
    BY <2>1, <2>2, FiledAnswer
<1>4. CASE LoadTable
  <2>1. phase' = "answered" /\ UNCHANGED asked /\ asked.kind = "workload" /\ rows' = Cells(asked.stored)
    BY <1>4 DEF LoadTable, Cells
  <2>2. Answers'
    BY <2>1 DEF Answers, ByQuery, FromSummary
  <2>3. QED
    BY <2>1, <2>2, FiledAnswer
<1>5. CASE ParseTimeline
  <2> DEFINE points == Timeline(rows, asked.origins, asked.family, asked.profile)
             r == IF points = {} THEN None ELSE points
  <2>1. Parsed(r) /\ asked.kind = "timeline" /\ (r # None => r # {})
    BY <1>5 DEF ParseTimeline
  <2> HIDE DEF r
  <2>2. UNCHANGED asked /\ values' = r
    BY <2>1 DEF Parsed
  <2>3. r # None => Results'
    BY <2>1, <2>2 DEF Results
  <2>4. QED
    BY <2>1, <2>3, FiledResult
<1>6. CASE ParseExecutions
  <2> DEFINE r == IF asked.kind = "bars" THEN Percentiles(rows, asked.family, ToSet(asked.stacks))
                  ELSE FailureRates(rows, asked.family, ToSet(asked.stacks))
  <2>1. Parsed(r) /\ asked.kind \in {"bars", "failures"} /\ phase = "answered"
    BY <1>6 DEF ParseExecutions
  <2>2. rows = OfSummary(asked)
    BY <2>1 DEF Filed, Answers, ByQuery, FromSummary
  <2>3. UNCHANGED asked /\ values' = r
    BY <2>1 DEF Parsed
  <2>4. Results'
    BY <2>1, <2>2, <2>3 DEF Results
  <2> HIDE DEF r
  <2>5. QED
    BY <2>1, <2>4, FiledResult
<1>7. CASE ParsePools
  <2> DEFINE r == PooledPercentiles(rows, asked.expected)
  <2>1. Parsed(r) /\ asked.kind \in {"scenario ranges", "tls ranges"} /\ phase = "answered"
    BY <1>7 DEF ParsePools
  <2>2. rows = OfSummary(asked)
    BY <2>1 DEF Filed, Answers, ByQuery, FromSummary
  <2>3. UNCHANGED asked /\ values' = r
    BY <2>1 DEF Parsed
  <2>4. Results'
    BY <2>1, <2>2, <2>3 DEF Results
  <2> HIDE DEF r
  <2>5. QED
    BY <2>1, <2>4, FiledResult
<1>8. CASE ParseCompletions
  <2> DEFINE r == Completions(rows, asked.expected)
  <2>1. Parsed(r) /\ asked.kind \in {"completion", "tls completion"} /\ phase = "answered"
    BY <1>8 DEF ParseCompletions
  <2>2. rows = asked.stored
    BY <2>1 DEF Filed, Answers, FromSummary
  <2>3. UNCHANGED asked /\ values' = r
    BY <2>1 DEF Parsed
  <2>4. Results'
    BY <2>1, <2>2, <2>3 DEF Results
  <2> HIDE DEF r
  <2>5. QED
    BY <2>1, <2>4, FiledResult
<1>9. CASE ParseBytes
  <2> DEFINE r == ByteValues(rows, asked.expected)
  <2>1. Parsed(r) /\ asked.kind = "tls bytes" /\ phase = "answered"
    BY <1>9, Zenon DEF ParseBytes, ByteValues
  <2>2. rows = asked.stored
    BY <2>1 DEF Filed, Answers, FromSummary
  <2>3. UNCHANGED asked /\ values' = r
    BY <2>1 DEF Parsed
  <2>4. Results'
    BY <2>1, <2>2, <2>3 DEF Results
  <2> HIDE DEF r
  <2>5. QED
    BY <2>1, <2>4, FiledResult
<1>10. CASE ParseTable
  <2> DEFINE r == IF rows # {} /\ {row.execution : row \in rows} = {row.execution : row \in asked.stored}
                  THEN rows ELSE None
  <2>1. Parsed(r) /\ asked.kind = "workload" /\ phase = "answered"
    BY <1>10 DEF ParseTable
  <2>2. rows = Cells(asked.stored) /\ (r # None => r = rows)
    BY <2>1 DEF Filed, Answers
  <2> HIDE DEF r
  <2>3. UNCHANGED asked /\ values' = r
    BY <2>1 DEF Parsed
  <2>4. r # None => Results'
    BY <2>1, <2>2, <2>3 DEF Results
  <2>5. QED
    BY <2>1, <2>4, FiledResult
<1>11. CASE DrawTimeline
  BY <1>11, FiledPicture DEF DrawTimeline, Kind, Drawn, Pictures
<1>12. CASE DrawBars
  BY <1>12, FiledPicture DEF DrawBars, Kind, Drawn, Pictures
<1>13. CASE DrawFailures
  BY <1>13, FiledPicture DEF DrawFailures, Kind, Drawn, Pictures
<1>14. CASE DrawScenarioRanges
  BY <1>14, FiledPicture DEF DrawScenarioRanges, Kind, Drawn, Pictures
<1>15. CASE DrawCompletion
  BY <1>15, FiledPicture DEF DrawCompletion, Kind, Drawn, Pictures
<1>16. CASE DrawTlsRanges
  BY <1>16, FiledPicture DEF DrawTlsRanges, Kind, Drawn, Pictures
<1>17. CASE DrawTlsCompletion
  <2> DEFINE r == {TlsChart(p, "completion", asked.labels, {k[2] : k \in asked.expected},
                            ProfileValues(values, p), ValuesOf(values), "linear") : p \in ProfileRows["race"]}
  <2>1. \A p : OfProfile(p) = ProfileValues(values, p)
    BY Zenon DEF OfProfile, ProfileValues
  <2>2. phase = "parsed" /\ asked.kind = "tls completion" /\ Drawn(r)
    BY <1>17, <2>1 DEF DrawTlsCompletion, Kind
  <2>3. None \notin r => Pictures'
    BY <2>2 DEF Drawn, Pictures
  <2>4. QED
    BY <2>2, <2>3, FiledPicture
<1>18. CASE DrawTlsBytes
  BY <1>18, FiledPicture DEF DrawTlsBytes, Kind, Drawn, Pictures
<1>19. CASE DrawWorkload
  BY <1>19, FiledPicture DEF DrawWorkload, Kind, Drawn, Pictures
<1>20. CASE Ended \/ UNCHANGED vars
  <2>1. UNCHANGED <<asked, rows, values, pages, phase>>
    BY <1>20 DEF Ended, vars
  <2>2. Answers => Answers'
    BY <2>1 DEF Answers, ByQuery
  <2>3. Results => Results'
    BY <2>1 DEF Results
  <2>4. Pictures => Pictures'
    BY <2>1 DEF Pictures
  <2>5. QED
    BY <2>1, <2>2, <2>3, <2>4 DEF Filed
<1>21. QED
  BY <1>1, <1>2, <1>3, <1>4, <1>5, <1>6, <1>7, <1>8, <1>9, <1>10, <1>11, <1>12, <1>13, <1>14, <1>15,
     <1>16, <1>17, <1>18, <1>19, <1>20 DEF Next

----------------------------------------------------------------------------
(* Pages that are read together, and what LongerMeansLarger says of them.  *)
OneAxis == asked.kind \in {"bars", "completion", "tls completion"}

LEMMA ReadingTells ==
    ASSUME NEW S, NEW upright, NEW stub, NEW ranges, Reading(S, upright, stub, ranges)
    PROVE  /\ \A p, q \in S : \A d \in Drawings(p), e \in Drawings(q) :
                (d[2].value <= e[2].value /\ ~(stub /\ PassesFor(p.axis, d[2].value, e[2].value)))
                    => Length(upright, ranges, d) <= Length(upright, ranges, e)
           /\ \A page \in S :
                /\ page.axis.mode = "linear" => Ticks(page.axis) \in 4 .. 7
                /\ page.axis.mode = "logarithmic" =>
                    /\ 2 <= Ticks(page.axis)
                    /\ \A d, e \in Drawings(page) :
                        (/\ d[2].value < e[2].value /\ 2 * d[2].value <= e[2].value
                         /\ ranges => e[2].value <= ClipAt)
                            => Length(upright, ranges, d) < Length(upright, ranges, e)
<1>1. PICK axis, V, R : /\ V \subseteq Nat
                        /\ \A page \in S : Measures(page, axis, upright, ranges, V, R)
                        /\ Tells(axis, V, R, stub, ranges)
  BY Zenon DEF Reading
<1>2. ASSUME NEW page \in S, NEW d \in Drawings(page)
      PROVE  d[2].value \in V /\ Length(upright, ranges, d) = R[d[2].value]
  BY <1>1, Zenon DEF Measures
<1>3. \A page \in S : page.axis = axis
  BY <1>1, Zenon DEF Measures
<1>4. /\ \A v, w \in V : (v <= w /\ ~(stub /\ PassesFor(axis, v, w))) => R[v] <= R[w]
      /\ axis.mode = "linear" => Ticks(axis) \in 4 .. 7
      /\ axis.mode = "logarithmic" =>
            /\ 2 <= Ticks(axis)
            /\ \A v, w \in V : (v < w /\ 2 * v <= w /\ (ranges => w <= ClipAt)) => R[v] < R[w]
  BY <1>1, Zenon DEF Tells
<1>5. ASSUME NEW p \in S, NEW q \in S, NEW d \in Drawings(p), NEW e \in Drawings(q),
             d[2].value <= e[2].value, ~(stub /\ PassesFor(p.axis, d[2].value, e[2].value))
      PROVE  Length(upright, ranges, d) <= Length(upright, ranges, e)
  <2>1. ~(stub /\ PassesFor(axis, d[2].value, e[2].value))
    BY <1>3, <1>5
  <2>2. R[d[2].value] <= R[e[2].value]
    BY <1>2, <1>4, <1>5, <2>1
  <2>3. QED
    BY <1>2, <2>2
<1>6. ASSUME NEW page \in S
      PROVE  /\ page.axis.mode = "linear" => Ticks(page.axis) \in 4 .. 7
             /\ page.axis.mode = "logarithmic" =>
                    /\ 2 <= Ticks(page.axis)
                    /\ \A d, e \in Drawings(page) :
                        (/\ d[2].value < e[2].value /\ 2 * d[2].value <= e[2].value
                         /\ ranges => e[2].value <= ClipAt)
                            => Length(upright, ranges, d) < Length(upright, ranges, e)
  BY <1>2, <1>3, <1>4
<1>7. QED
  BY <1>5, <1>6

(* A chart is in order when each page can be read, and all of them         *)
(* together where they share an axis, and what belongs on it is in place.  *)
Readable ==
    /\ \A page \in pages : Reading({page}, Upright, Stubs, Ranges)
    /\ OneAxis => Reading(pages, Upright, Stubs, Ranges)

InOrderAll ==
    /\ Readable
    /\ asked.kind # "workload" => \A page \in pages : Tidy(page, Ranges)
    /\ asked.kind = "workload" =>
            \A page \in pages : ShowsUpTo(page, WorkloadMaximum[asked.family])

LEMMA OneOfAll ==
    ASSUME NEW S, NEW upright, NEW stub, NEW ranges, Reading(S, upright, stub, ranges), NEW page \in S
    PROVE  Reading({page}, upright, stub, ranges)
<1>1. PICK axis, V, R : /\ V \subseteq Nat
                        /\ \A q \in S : Measures(q, axis, upright, ranges, V, R)
                        /\ Tells(axis, V, R, stub, ranges)
  BY Zenon DEF Reading
<1>2. QED
  BY <1>1, ReadingOne, Zenon

LEMMA AllClear ==
    ASSUME Clear(pages, Upright, Stubs, Ranges), asked.kind # "workload"
    PROVE  InOrderAll
<1>1. (\A page \in pages : Tidy(page, Ranges)) /\ Reading(pages, Upright, Stubs, Ranges)
  BY Zenon DEF Clear
<1>2. Readable
  BY <1>1, OneOfAll, Zenon DEF Readable
<1>3. QED
  BY <1>1, <1>2, Zenon DEF InOrderAll

LEMMA EachClear ==
    ASSUME \A page \in pages : Clear({page}, Upright, Stubs, Ranges), ~OneAxis, asked.kind # "workload"
    PROVE  InOrderAll
<1>1. ASSUME NEW page \in pages
      PROVE  Tidy(page, Ranges) /\ Reading({page}, Upright, Stubs, Ranges)
  <2>1. Clear({page}, Upright, Stubs, Ranges) /\ page \in {page}
    OBVIOUS
  <2>2. QED
    BY <2>1, Zenon DEF Clear
<1>2. Readable
  BY <1>1, Zenon DEF Readable
<1>3. QED
  BY <1>1, <1>2, Zenon DEF InOrderAll

LEMMA OrderIsLonger ==
    ASSUME Readable
    PROVE  LongerMeansLarger
<1>1. \A d : Reach(d) = Length(Upright, Ranges, d)
  BY DEF Reach, Length
<1>2. ASSUME NEW p \in pages, NEW q \in pages, Compared(p, q)
      PROVE  \E S : Reading(S, Upright, Stubs, Ranges) /\ p \in S /\ q \in S
  <2>1. CASE OneAxis
    BY <2>1 DEF Readable
  <2>2. CASE ~OneAxis
    <3>1. p = q
      BY <1>2, <2>2 DEF Compared, OneAxis
    <3>2. Reading({p}, Upright, Stubs, Ranges) /\ p \in {p} /\ q \in {p}
      BY <3>1 DEF Readable
    <3>3. QED
      BY <3>2
  <2>3. QED
    BY <2>1, <2>2
<1>3. ASSUME NEW p \in pages, NEW q \in pages, Compared(p, q),
             NEW d \in Drawings(p), NEW e \in Drawings(q),
             d[2].value <= e[2].value, ~(Stubs /\ PassesFor(p.axis, d[2].value, e[2].value))
      PROVE  Reach(d) <= Reach(e)
  <2>1. PICK S : Reading(S, Upright, Stubs, Ranges) /\ p \in S /\ q \in S
    BY <1>2, <1>3
  <2>2. Length(Upright, Ranges, d) <= Length(Upright, Ranges, e)
    BY <1>3, <2>1, ReadingTells
  <2>3. QED
    BY <1>1, <2>2
<1>4. ASSUME NEW page \in pages
      PROVE  /\ page.axis.mode = "linear" => Ticks(page.axis) \in 4 .. 7
             /\ page.axis.mode = "logarithmic" =>
                    /\ 2 <= Ticks(page.axis)
                    /\ \A d, e \in Drawings(page) :
                        (/\ d[2].value < e[2].value /\ 2 * d[2].value <= e[2].value
                         /\ Ranges => e[2].value <= ClipAt)
                            => Length(Upright, Ranges, d) < Length(Upright, Ranges, e)
  <2>1. Reading({page}, Upright, Stubs, Ranges) /\ page \in {page}
    BY DEF Readable
  <2>2. QED
    BY <2>1, ReadingTells
<1>5. ASSUME NEW page \in pages
      PROVE  IF page.axis.mode = "logarithmic"
             THEN /\ 2 <= Ticks(page.axis)
                  /\ \A d, e \in Drawings(page) :
                       (/\ d[2].value < e[2].value /\ 2 * d[2].value <= e[2].value
                        /\ ~Ranges \/ e[2].value <= ClipAt)
                       => Reach(d) < Reach(e)
             ELSE page.axis.mode = "linear" => Ticks(page.axis) \in 4 .. 7
  BY <1>1, <1>4, Zenon
<1>6. QED
  BY <1>3, <1>5 DEF LongerMeansLarger

----------------------------------------------------------------------------
(* What the parsers return.                                                *)
LEMMA DivUpTo ==
    ASSUME NEW a \in Nat, NEW d \in Nat \ {0}, NEW q \in Nat, a <= q * d
    PROVE  a \div d \in 0 .. q
BY SMT

Read(some, keyOf, expected) == {row \in some : keyOf[row] \in expected}

Kept(r, keyOf, expected, read) ==
    /\ DOMAIN r = expected
    /\ \A row \in read : keyOf[row] \in expected /\ r[keyOf[row]] = row.value
    /\ \A k \in expected : \E row \in read : keyOf[row] = k /\ r[k] = row.value

LEMMA ExactIs ==
    ASSUME NEW some, NEW keyOf, NEW expected, NEW r, r = Exact(some, keyOf, expected), r # None
    PROVE  Kept(r, keyOf, expected, Read(some, keyOf, expected))
<1> DEFINE read == Read(some, keyOf, expected)
           of(k) == CHOOSE row \in read : keyOf[row] = k
<1>1. /\ {keyOf[row] : row \in read} = expected
      /\ \A x, y \in read : keyOf[x] = keyOf[y] => x = y
      /\ r = [k \in expected |-> of(k).value]
  BY DEF Exact, Read
<1>2. \A row \in read : keyOf[row] \in expected
  BY DEF Read
<1> HIDE DEF read
<1>3. ASSUME NEW k \in expected
      PROVE  of(k) \in read /\ keyOf[of(k)] = k /\ r[k] = of(k).value
  <2>1. \E row \in read : keyOf[row] = k
    BY <1>1
  <2>2. of(k) \in read /\ keyOf[of(k)] = k
    BY <2>1
  <2> HIDE DEF of
  <2>3. QED
    BY <1>1, <2>2
<1> HIDE DEF of
<1>4. ASSUME NEW row \in read
      PROVE  keyOf[row] \in expected /\ r[keyOf[row]] = row.value
  <2>1. keyOf[row] \in expected
    BY <1>2
  <2>2. of(keyOf[row]) = row
    BY <1>1, <1>3, <2>1
  <2>3. QED
    BY <1>3, <2>1, <2>2
<1>5. QED
  BY <1>1, <1>3, <1>4 DEF read, Kept

FromRows(r, expected, read) == {r[k] : k \in expected} = {row.value : row \in read}

LEMMA RowByRow ==
    ASSUME NEW r, NEW expected, NEW read,
           \A k \in expected : \E row \in read : r[k] = row.value,
           \A row \in read : \E k \in expected : r[k] = row.value
    PROVE  FromRows(r, expected, read)
<1>1. ASSUME NEW v
      PROVE  v \in {r[k] : k \in expected} <=> v \in {row.value : row \in read}
  OBVIOUS
<1>2. QED
  BY <1>1 DEF FromRows

LEMMA ExactValues ==
    ASSUME NEW some, NEW keyOf, NEW expected, NEW r, r = Exact(some, keyOf, expected), r # None,
           \A row \in some : row.value \in 0 .. Highest
    PROVE  /\ DOMAIN r = expected /\ \A k \in expected : r[k] \in 0 .. Highest
           /\ FromRows(r, expected, Read(some, keyOf, expected))
<1> DEFINE read == Read(some, keyOf, expected)
<1>1. /\ DOMAIN r = expected
      /\ \A row \in read : keyOf[row] \in expected /\ r[keyOf[row]] = row.value
      /\ \A k \in expected : \E row \in read : keyOf[row] = k /\ r[k] = row.value
  <2>1. Kept(r, keyOf, expected, read)
    BY ExactIs
  <2> HIDE DEF read
  <2>2. QED
    BY <2>1, Zenon DEF Kept
<1>2. \A row \in read : row.value \in 0 .. Highest
  BY DEF Read
<1> HIDE DEF read
<1>3. \A k \in expected : r[k] \in 0 .. Highest
  BY <1>1, <1>2
<1>4. {r[k] : k \in expected} = {row.value : row \in read}
  BY <1>1
<1>5. QED
  BY <1>1, <1>3, <1>4 DEF read, FromRows

(* Every row of an execution of the workload has a place of its own.       *)
LEMMA SlotIn ==
    ASSUME NEW family \in DOMAIN ProfileRows, NEW e \in ExpectedExecutions(family)
    PROVE  ProfileSlot(family, e)[1] \in ProfileRows[family] /\ ProfileSlot(family, e)[2] \in Repeats
<1>1. PICK p \in Profiles(family), k \in Repeats : e = ExecutionOf(family, p, k)
  BY ExecutionsAre
<1>2. ProfileSlot(family, e) = <<NameOf(family, p), k>>
  BY <1>1, Slots
<1>3. NameOf(family, p) \in ProfileRows[family]
  <2>1. CASE family = "baseline"
    BY <2>1 DEF NameOf, ProfileRows
  <2>2. CASE family = "linear"
    BY <2>2 DEF NameOf, ProfileRows
  <2>3. CASE family = "race"
    BY <2>3 DEF NameOf, ProfileRows
  <2>4. QED
    BY <2>1, <2>2, <2>3, Families
<1>4. QED
  BY <1>2, <1>3

LEMMA StacksAre ==
    ASSUME asked \in Asked, asked.kind \in {"bars", "failures"}
    PROVE  /\ asked.stacks \in Seq(ToSet(asked.stacks)) /\ ToSet(asked.stacks) # {}
           /\ asked.family \in DOMAIN ProfileRows /\ ProfileRows[asked.family] # {}
<1>1. /\ StackData(asked) /\ asked.family \in DOMAIN ProfileRows
  BY AskedAssumption
<1>2. ProfileRows[asked.family] # {}
  BY <1>1, RowsThere
<1> DEFINE stacks == asked.stacks
           S == ToSet(stacks)
<1>3. stacks \in Seq(S) /\ stacks # <<>>
  BY <1>1 DEF StackData
<1>4. S # {}
  <2>1. \E i : i \in DOMAIN stacks
    <3> HIDE DEF S, stacks
    <3>1. Len(stacks) \in Nat /\ Len(stacks) # 0 /\ DOMAIN stacks = 1 .. Len(stacks)
      BY <1>3, LenProperties, EmptySeq
    <3>2. QED
      BY <3>1
  <2>2. QED
    BY <2>1 DEF ToSet
<1>5. QED
  BY <1>1, <1>2, <1>3, <1>4

(* The values of a bar chart are those of its rows.                        *)
LEMMA BarValuesAre ==
    ASSUME asked \in Asked, asked.kind = "bars", values # None,
           values = Percentiles(OfSummary(asked), asked.family, ToSet(asked.stacks))
    PROVE  LET keys == BarKeys(ProfileRows[asked.family], asked.stacks)
           IN  /\ DOMAIN values = keys /\ keys # {} /\ \A k \in keys : values[k] \in 0 .. Highest
               /\ {values[k] : k \in keys} = {row.value : row \in Answered}
<1> DEFINE P == ProfileRows[asked.family]
           keys == BarKeys(P, asked.stacks)
           some == OfSummary(asked)
           keyOf == [row \in some |-> <<Slot(asked.family, row)[1], row.statistic, row.stack,
                                        Slot(asked.family, row)[2]>>]
<1>1. BarData(asked) /\ asked.family \in DOMAIN ProfileRows
  BY AskedAssumption
<1>2. values = Exact(some, keyOf, keys)
  BY Zenon DEF Percentiles, BarKeys
<1>3. ASSUME NEW row \in some
      PROVE  row.value \in 0 .. Highest /\ keyOf[row] \in keys
  <2>1. /\ row.execution \in ExpectedExecutions(asked.family) /\ row.stack \in ToSet(asked.stacks)
        /\ row.statistic \in ToSet(Statistics) /\ row.value \in 0 .. Highest
    BY <1>1 DEF BarData
  <2>2. Slot(asked.family, row)[1] \in P /\ Slot(asked.family, row)[2] \in Repeats
    BY <1>1, <2>1, SlotIn DEF Slot
  <2>3. row.statistic \in {Statistics[i] : i \in 1 .. 4}
    BY <2>1 DEF ToSet, Statistics
  <2>4. QED
    BY <2>1, <2>2, <2>3 DEF BarKeys
<1>4. Read(some, keyOf, keys) = some
  BY <1>3 DEF Read
<1>5. keys # {}
  <2>1. PICK p \in P, t \in ToSet(asked.stacks) : TRUE
    BY StacksAre
  <2>2. 0 \in Repeats /\ Statistics[1] \in {Statistics[i] : i \in 1 .. 4}
    BY DEF Repeats
  <2>3. <<p, Statistics[1], t, 0>> \in keys
    BY <2>1, <2>2 DEF BarKeys
  <2>4. QED
    BY <2>3
<1> HIDE DEF keys, some, keyOf
<1>6. /\ DOMAIN values = keys /\ \A k \in keys : values[k] \in 0 .. Highest
      /\ FromRows(values, keys, Read(some, keyOf, keys))
  <2>1. \A row \in some : row.value \in 0 .. Highest
    BY <1>3
  <2>2. QED
    BY <1>2, <2>1, ExactValues, Zenon
<1>7. {values[k] : k \in keys} = {row.value : row \in some}
  BY <1>4, <1>6, Zenon DEF FromRows
<1>8. /\ DOMAIN values = keys /\ keys # {} /\ \A k \in keys : values[k] \in 0 .. Highest
      /\ {values[k] : k \in keys} = {row.value : row \in some}
  BY <1>5, <1>6, <1>7, Zenon
<1>9. QED
  BY <1>8, Zenon DEF keys, some, Answered

(* A failure rate is no more than a hundred percent.                       *)
LEMMA RatesAre ==
    ASSUME asked \in Asked, asked.kind = "failures", values # None,
           values = FailureRates(OfSummary(asked), asked.family, ToSet(asked.stacks))
    PROVE  LET keys == FailureKeys(ProfileRows[asked.family], asked.stacks)
           IN  DOMAIN values = keys /\ \A k \in keys : values[k] \in 0 .. Highest
<1> DEFINE P == ProfileRows[asked.family]
           keys == FailureKeys(P, asked.stacks)
           some == OfSummary(asked)
           keyOf == [row \in some |-> <<Slot(asked.family, row)[1], row.stack, Slot(asked.family, row)[2]>>]
           counts == Exact(some, keyOf, keys)
<1>1. /\ counts # None
      /\ \A k \in DOMAIN counts : ~(counts[k].requests = 0 \/ counts[k].failed > counts[k].requests)
      /\ values = [k \in DOMAIN counts |-> (counts[k].failed * 10000) \div counts[k].requests]
  <2> DEFINE bad == \E k \in DOMAIN counts : counts[k].requests = 0 \/ counts[k].failed > counts[k].requests
             rates == [k \in DOMAIN counts |-> (counts[k].failed * 10000) \div counts[k].requests]
  <2>1. values = IF counts = None THEN None ELSE IF bad THEN None ELSE rates
    BY Zenon DEF FailureRates, FailureKeys
  <2>2. counts # None /\ ~bad /\ values = rates
    <3> HIDE DEF counts, bad, rates
    <3>1. QED
      BY <2>1, Zenon
  <2> HIDE DEF counts
  <2>3. QED
    BY <2>2
<1>2. \A row \in some : row.value.failed \in Nat /\ row.value.requests \in Nat
  BY AskedAssumption DEF FailureData
<1> HIDE DEF keys, some, keyOf
<1>3. /\ DOMAIN counts = keys
      /\ \A k \in keys : \E row \in Read(some, keyOf, keys) : keyOf[row] = k /\ counts[k] = row.value
  <2> DEFINE r == counts
  <2>1. r = Exact(some, keyOf, keys) /\ r # None
    BY <1>1
  <2> HIDE DEF r
  <2>2. Kept(r, keyOf, keys, Read(some, keyOf, keys))
    BY <2>1, ExactIs
  <2>3. /\ DOMAIN r = keys
        /\ \A k \in keys : \E row \in Read(some, keyOf, keys) : keyOf[row] = k /\ r[k] = row.value
    BY <2>2, Zenon DEF Kept
  <2>4. QED
    BY <2>3 DEF r
<1> HIDE DEF counts
<1>4. ASSUME NEW k \in keys
      PROVE  values[k] \in 0 .. Highest
  <2>1. PICK row \in some : counts[k] = row.value
    BY <1>3 DEF Read
  <2> DEFINE failed == counts[k].failed
             requests == counts[k].requests
  <2>2. failed \in Nat /\ requests \in Nat /\ requests # 0 /\ ~(failed > requests)
    BY <1>1, <1>2, <1>3, <2>1
  <2> DEFINE rate == (failed * 10000) \div requests
  <2>3. values[k] = rate
    BY <1>1, <1>3
  <2> HIDE DEF failed, requests
  <2>4. failed * 10000 \in Nat /\ failed * 10000 <= 10000 * requests
    BY <2>2
  <2>5. rate \in 0 .. 10000
    BY <2>2, <2>4, DivUpTo
  <2>6. 10000 <= Highest /\ Highest \in Nat
    BY HighestIs
  <2> HIDE DEF rate
  <2>7. QED
    BY <2>3, <2>5, <2>6
<1>5. QED
  BY <1>1, <1>3, <1>4 DEF keys

(* The pooled percentiles, all of which are drawn.                         *)
LEMMA PoolsAre ==
    ASSUME asked \in Asked, asked.kind \in {"scenario ranges", "tls ranges"}, values # None,
           values = PooledPercentiles(OfSummary(asked), asked.expected)
    PROVE  /\ \A k \in asked.expected \X Pooled : values[k] \in 0 .. Highest
           /\ FromRows(values, asked.expected \X Pooled, {row \in Answered : row.statistic \in Pooled})
<1> DEFINE some == {row \in OfSummary(asked) : row.statistic \in Pooled}
           keyOf == [row \in some |-> <<row.of, row.statistic>>]
           keys == asked.expected \X Pooled
<1>1. values = Exact(some, keyOf, keys)
  BY Zenon DEF PooledPercentiles
<1>2. ASSUME NEW row \in OfSummary(asked)
      PROVE  row.of \in asked.expected /\ row.value \in 0 .. Highest
  BY AskedAssumption DEF PoolData
<1>3. ASSUME NEW row \in some
      PROVE  keyOf[row] \in keys /\ row.value \in 0 .. Highest
  BY <1>2
<1>4. Read(some, keyOf, keys) = some
  BY <1>3 DEF Read
<1>5. some = {row \in Answered : row.statistic \in Pooled}
  BY DEF Answered
<1> HIDE DEF some, keyOf, keys
<1>6. /\ \A row \in some : values[keyOf[row]] = row.value
      /\ \A k \in keys : \E row \in some : keyOf[row] = k /\ values[k] = row.value
  <2>1. Kept(values, keyOf, keys, some)
    BY <1>1, <1>4, ExactIs
  <2>2. QED
    BY <2>1, Zenon DEF Kept
<1>7. \A k \in keys : values[k] \in 0 .. Highest
  BY <1>3, <1>6
<1>8. /\ \A k \in keys : \E row \in some : values[k] = row.value
      /\ \A row \in some : \E k \in keys : values[k] = row.value
  BY <1>3, <1>6
<1>9. FromRows(values, keys, some)
  BY <1>8, RowByRow, Zenon
<1>10. QED
  BY <1>5, <1>7, <1>9 DEF keys

LEMMA CompletionsAre ==
    ASSUME asked \in Asked, asked.kind \in {"completion", "tls completion"}, values # None,
           values = Completions(asked.stored, asked.expected)
    PROVE  /\ DOMAIN values = asked.expected /\ \A k \in asked.expected : values[k] \in 0 .. Highest
           /\ {values[k] : k \in asked.expected} = {row.value : row \in Answered}
<1> DEFINE some == asked.stored
           keyOf == [row \in some |-> row.of]
           keys == asked.expected
<1>1. values = Exact(some, keyOf, keys)
  BY DEF Completions
<1>2. \A row \in some : row.tags = "summary" /\ row.of \in keys /\ row.value \in 0 .. Highest
  BY AskedAssumption DEF CompletionData
<1>3. Read(some, keyOf, keys) = some /\ Answered = some
  BY <1>2 DEF Read, Answered, OfSummary
<1> HIDE DEF some, keyOf, keys
<1>4. /\ DOMAIN values = keys /\ \A k \in keys : values[k] \in 0 .. Highest
      /\ FromRows(values, keys, Read(some, keyOf, keys))
  <2>1. \A row \in some : row.value \in 0 .. Highest
    BY <1>2
  <2>2. QED
    BY <1>1, <2>1, ExactValues, Zenon
<1>5. {values[k] : k \in keys} = {row.value : row \in Answered}
  BY <1>3, <1>4, Zenon DEF FromRows
<1>6. QED
  BY <1>4, <1>5 DEF keys

(* A point of a timeline is within the axis of seconds, and no higher than *)
(* a window that holds all samples.                                        *)
LEMMA StartIsSome ==
    ASSUME TimelineAsked, NEW s \in asked.samples
    PROVE  s.time <= Start(s) + Highest \div 10
<1>1. TimelineData(asked)
  BY TimelineFacts
<1>2. \E e \in DOMAIN asked.origins : FirstOf(asked.origins) = asked.origins[e]
  <2> DEFINE S == {asked.origins[e] : e \in DOMAIN asked.origins}
  <2>1. S \subseteq Nat /\ S # {}
    BY <1>1 DEF TimelineData
  <2> HIDE DEF S
  <2>2. Min(S) \in S
    BY <2>1, LeastNatural
  <2>3. QED
    BY <2>2 DEF S, FirstOf
<1>3. \E e \in DOMAIN asked.origins : Start(s) = asked.origins[e]
  <2>1. s.execution \in DOMAIN asked.origins
    BY <1>1 DEF TimelineData
  <2>2. QED
    BY <1>2, <2>1 DEF Start
<1>4. \A e \in DOMAIN asked.origins : s.time <= asked.origins[e] + Highest \div 10
  BY <1>1 DEF TimelineData
<1>5. QED
  BY <1>3, <1>4

LEMMA SecondFits ==
    ASSUME TimelineAsked, NEW s \in Marked
    PROVE  At(s) \in 0 .. Highest \div 10
<1> DEFINE end == Highest \div 10
           d == s.time - Start(s)
           e == d \div Second
<1>1. end \in Nat /\ 2 <= end
  BY SMT DEF Highest
<1>2. s \in asked.samples /\ At(s) \in Int /\ At(s) >= 0
  BY SecondsOf DEF Marked
<1>3. s.time \in Nat /\ Start(s) \in Nat /\ s.time <= Start(s) + end
  BY <1>2, TimelineFacts, StartIsSome
<1> HIDE DEF end
<1>4. CASE s.time < Start(s)
  BY <1>1, <1>2, <1>4, SecondsOf DEF end
<1>5. CASE s.time >= Start(s)
  <2>1. At(s) \in e .. e + (IF asked.aligned THEN 0 ELSE 1)
    BY <1>2, <1>5, SecondsOf
  <2>2. d \in Nat /\ d <= end
    BY <1>1, <1>3, <1>5
  <2>3. e \in Nat /\ e + 1 <= end
    <3> HIDE DEF d
    <3>1. QED
      BY <1>1, <2>2 DEF Second
  <2> HIDE DEF e
  <2>4. At(s) <= e + 1
    BY <2>1, <2>3
  <2>5. At(s) <= end
    BY <1>1, <1>2, <2>3, <2>4
  <2>6. QED
    BY <1>1, <1>2, <2>5 DEF end
<1>6. QED
  BY <1>3, <1>4, <1>5

(* Whatever a window shows is no more than all of its samples together.    *)
LEMMA WindowFits ==
    ASSUME TimelineAsked, NEW s \in asked.samples
    PROVE  WindowOf(s).value \in 0 .. Highest
<1> DEFINE T == Together(s)
           f == [t \in T |-> t.value]
           all == Cardinality(asked.samples)
           bound == Highest \div all
           n == Cardinality(T)
           total == SumOf(f, T)
<1>1. /\ IsFiniteSet(asked.samples) /\ \A t \in asked.samples : t.value \in 0 .. bound
      /\ asked.aggregate \in {"sum", "mean", "max"}
  BY TimelineFacts DEF TimelineData
<1>2. T \subseteq asked.samples /\ s \in T
  BY DEF Together
<1>3. IsFiniteSet(T) /\ n \in Nat /\ n <= all /\ all \in Nat /\ n # 0
  BY <1>1, <1>2, FS_Subset, FS_CardinalityType, FS_EmptySet
<1>4. WindowOf(s).value = Aggregate(asked.aggregate, T)
  BY DEF WindowOf
<1>5. Highest \in Nat
  BY HighestIs
<1> HIDE DEF T, n, all
<1>6. bound \in Nat /\ bound <= Highest /\ all * bound <= Highest
  BY <1>3, <1>5, SMT
<1>7. \A t \in T : f[t] \in 0 .. bound /\ f[t] = t.value
  BY <1>1, <1>2
<1> HIDE DEF bound, f
<1>8. total \in 0 .. n * bound
  BY <1>3, <1>6, <1>7, SumWithin DEF n
<1>9. total \in 0 .. Highest
  <2> DEFINE u == n * bound
             v == all * bound
  <2>1. u \in Nat /\ v \in Nat /\ u <= v
    BY <1>3, <1>6, SMT
  <2>2. v <= Highest /\ total \in 0 .. u
    BY <1>6, <1>8
  <2> HIDE DEF u, v, total
  <2>3. QED
    BY <1>5, <2>1, <2>2
<1>10. CASE asked.aggregate = "sum"
  <2>1. Aggregate(asked.aggregate, T) = total
    BY <1>10 DEF Aggregate, f
  <2>2. QED
    BY <1>4, <1>9, <2>1
<1>11. CASE asked.aggregate = "mean"
  <2>1. Aggregate(asked.aggregate, T) = total \div n
    BY <1>11 DEF Aggregate, f, n
  <2> HIDE DEF total
  <2>2. total \in Nat /\ total <= Highest /\ total <= Highest * n
    BY <1>3, <1>5, <1>9, SMT
  <2>3. total \div n \in 0 .. Highest
    BY <1>3, <1>5, <2>2, DivUpTo
  <2>4. QED
    BY <1>4, <2>1, <2>3
<1>12. CASE asked.aggregate = "max"
  <2> DEFINE V == {t.value : t \in T}
  <2>1. Aggregate(asked.aggregate, T) = Max(V)
    BY <1>12 DEF Aggregate
  <2>2. V \subseteq 0 .. bound /\ V # {}
    BY <1>2, <1>7
  <2> HIDE DEF V
  <2>3. Max(V) \in 0 .. bound
    BY <1>6, <2>2, GreatestNatural
  <2>4. QED
    BY <1>4, <1>5, <1>6, <2>1, <2>3
<1>13. QED
  BY <1>1, <1>10, <1>11, <1>12

LEMMA MeanFits ==
    ASSUME TimelineAsked, NEW s \in Marked
    PROVE  PointValue(PointFor(s)) \in 0 .. Highest
<1> DEFINE W == Merged(Line(s), At(s))
           f == [w \in W |-> w.value]
           c == Cardinality(W)
           sum == SumOf(f, W)
<1>1. IsFiniteSet(W) /\ W # {}
  <2> DEFINE M == {t \in Marked : Line(t) = Line(s) /\ At(t) = At(s)}
             g == [t \in M |-> WindowOf(t)]
  <2>1. M \subseteq asked.samples /\ s \in M
    BY DEF Marked
  <2>2. W = {WindowOf(t) : t \in M}
    BY DEF Merged
  <2>3. IsFiniteSet(M)
    BY <2>1, TimelineFacts, FS_Subset DEF TimelineData
  <2> HIDE DEF M, W
  <2>4. g \in Surjection(M, W)
    BY <2>2, Zenon DEF Surjection
  <2>5. IsFiniteSet(W)
    BY <2>3, <2>4, FS_Surjection
  <2>6. QED
    BY <2>1, <2>2, <2>5
<1>2. ASSUME NEW w \in W
      PROVE  f[w] \in 0 .. Highest
  <2>1. PICK t \in Marked : w = WindowOf(t)
    BY DEF Merged
  <2>2. w.value \in 0 .. Highest
    BY <2>1, WindowFits DEF Marked
  <2>3. f[w] = w.value
    OBVIOUS
  <2>4. QED
    BY <2>2, <2>3
<1>3. c \in Nat \ {0}
  BY <1>1, FS_CardinalityType, FS_EmptySet
<1>4. PointValue(PointFor(s)) = sum \div c
  BY DEF PointValue, PointFor
<1>5. Highest \in Nat
  BY HighestIs
<1> HIDE DEF W, f
<1>6. sum \in 0 .. c * Highest
  BY <1>1, <1>2, <1>5, SumWithin
<1> HIDE DEF c, sum
<1>7. sum \in Nat /\ sum <= Highest * c
  BY <1>3, <1>5, <1>6
<1>8. sum \div c \in 0 .. Highest
  BY <1>3, <1>5, <1>7, DivUpTo
<1>9. QED
  BY <1>4, <1>8

LEMMA TimelineFits ==
    ASSUME IInv, OnPaper, values # {}
    PROVE  PointsFit(values)
<1>1. TimelineAsked /\ values = {PointFor(s) : s \in Marked}
  BY Timelines
<1>2. ASSUME NEW q \in values
      PROVE  q.second \in 0 .. Highest \div 10 /\ PointValue(q) \in 0 .. Highest
  <2>1. PICK s \in Marked : q = PointFor(s)
    BY <1>1
  <2>2. q.second = At(s)
    BY <2>1 DEF PointFor
  <2>3. QED
    BY <1>1, <2>1, <2>2, SecondFits, MeanFits
<1>3. QED
  BY <1>2 DEF PointsFit

(* Bytes of a request: no more than a megabyte each, over as many requests *)
(* or one.                                                                 *)
LEMMA RepeatsAre == IsFiniteSet(Repeats) /\ Cardinality(Repeats) = 3
<1>1. IsFiniteSet({0}) /\ Cardinality({0}) = 1
  BY FS_Singleton
<1>2. IsFiniteSet({0, 1}) /\ Cardinality({0, 1}) = 2
  <2>1. {0, 1} = {0} \cup {1} /\ 1 \notin {0}
    OBVIOUS
  <2>2. QED
    BY <1>1, <2>1, FS_AddElement
<1>3. Repeats = {0, 1} \cup {2} /\ 2 \notin {0, 1}
  BY DEF Repeats
<1>4. QED
  BY <1>2, <1>3, FS_AddElement

LEMMA ByteRatio ==
    ASSUME NEW bytes \in Nat, NEW requests \in Nat, requests # 0,
           bytes <= 1000000 * requests + 3 * 1000000
    PROVE  (bytes * 100) \div requests \in 0 .. Highest
<1>1. bytes * 100 \in Nat /\ bytes * 100 <= 400000000 * requests
  OBVIOUS
<1> DEFINE top == bytes * 100
           most == 400000000
<1>2. top \in Nat /\ top <= most * requests /\ most \in Nat /\ requests \in Nat \ {0}
  BY <1>1
<1>3. most = Highest
  BY DEF Highest
<1> HIDE DEF top, most
<1>4. top \div requests \in 0 .. most
  BY <1>2, DivUpTo
<1>5. QED
  BY <1>3, <1>4 DEF top

LEMMA RatioFits ==
    ASSUME NEW counters, \A r \in Repeats : Counted(counters[r]),
           BytesPerRequest(counters) # None
    PROVE  BytesPerRequest(counters) \in 0 .. Highest
<1> DEFINE f == [r \in Repeats |-> counters[r]["bytes"]]
           g == [r \in Repeats |-> counters[r]["requests"]]
           most == 1000000
<1>1. ASSUME NEW r \in Repeats
      PROVE  f[r] \in Nat /\ g[r] \in Nat /\ f[r] <= most * g[r] + most
  <2> DEFINE n == counters[r].requests
             m == Max({n, 1})
             b == counters[r].bytes
  <2>1. n \in Nat /\ b \in Nat /\ b <= most * m
    BY DEF Counted
  <2>2. f[r] = b /\ g[r] = n
    OBVIOUS
  <2> HIDE DEF n, f, g, b
  <2>3. {n, 1} \subseteq 0 .. n + 1 /\ {n, 1} # {} /\ n + 1 \in Nat
    BY <2>1
  <2>4. m \in {n, 1}
    BY <2>3, GreatestNatural
  <2> HIDE DEF m
  <2>5. m \in Nat /\ m <= n + 1
    BY <2>1, <2>4
  <2>6. most * m <= most * n + most
    BY <2>1, <2>5
  <2>7. QED
    BY <2>1, <2>2, <2>5, <2>6
<1> DEFINE bytes == SumOf(f, Repeats)
           requests == SumOf(g, Repeats)
<1>2. BytesPerRequest(counters) = IF requests = 0 THEN None ELSE (bytes * 100) \div requests
  BY DEF BytesPerRequest
<1> HIDE DEF f, g
<1>3. bytes \in Nat /\ requests \in Nat /\ bytes <= most * requests + 3 * most
  <2> HIDE DEF most, bytes, requests
  <2>1. most \in Nat
    BY DEF most
  <2>2. SumOf(f, Repeats) \in Nat /\ SumOf(g, Repeats) \in Nat
        /\ SumOf(f, Repeats) <= most * SumOf(g, Repeats) + Cardinality(Repeats) * most
    BY <1>1, <2>1, RepeatsAre, SumInProportion
  <2>3. QED
    BY <2>2, RepeatsAre DEF bytes, requests
<1> HIDE DEF bytes, requests
<1>4. requests # 0 /\ BytesPerRequest(counters) = (bytes * 100) \div requests
  BY <1>2
<1>5. bytes <= 1000000 * requests + 3 * 1000000
  BY <1>3
<1>6. (bytes * 100) \div requests \in 0 .. Highest
  <2> HIDE DEF most
  <2>1. QED
    BY <1>3, <1>4, <1>5, ByteRatio
<1>7. QED
  BY <1>4, <1>6

LEMMA Paired ==
    ASSUME NEW A, NEW b
    PROVE  {<<e, b>> : e \in A} = A \X {b}
<1> DEFINE B == {b}
<1>1. \A c : c \in B <=> c = b
  OBVIOUS
<1> HIDE DEF B
<1>2. ASSUME NEW k \in A \X B
      PROVE  k \in {<<e, b>> : e \in A}
  <2>1. PICK e \in A, c \in B : k = <<e, c>>
    OBVIOUS
  <2>2. c = b
    BY <1>1
  <2>3. QED
    BY <2>1, <2>2
<1>3. ASSUME NEW e \in A
      PROVE  <<e, b>> \in A \X B
  BY <1>1
<1>4. {<<e, b>> : e \in A} = A \X B
  BY <1>2, <1>3, Zenon
<1>5. QED
  BY <1>4 DEF B

LEMMA BytesAre ==
    ASSUME asked \in Asked, asked.kind = "tls bytes", values # None,
           values = ByteValues(asked.stored, asked.expected)
    PROVE  LET keys == asked.expected \X {"bytes"}
           IN  DOMAIN values = keys /\ \A k \in keys : values[k] \in 0 .. Highest
<1> DEFINE of(k) == [r \in Repeats |-> CHOOSE row \in asked.stored : row.of = k /\ row.repeat = r]
           bytes == [k \in asked.expected |-> BytesPerRequest(of(k))]
           keys == {<<k, "bytes">> : k \in asked.expected}
<1>1. BytesData(asked)
  BY AskedAssumption
<1>2. ASSUME NEW k \in asked.expected, NEW r \in Repeats
      PROVE  Counted(of(k)[r])
  <2>1. /\ \E row \in asked.stored : row.of = k /\ row.repeat = r
        /\ \A row \in asked.stored : (row.of = k /\ row.repeat = r) => Counted(row)
    BY <1>1, Zenon DEF BytesData
  <2> DEFINE row == CHOOSE row \in asked.stored : row.of = k /\ row.repeat = r
  <2>2. row \in asked.stored /\ row.of = k /\ row.repeat = r
    BY <2>1, Zenon
  <2>3. of(k)[r] = row
    BY Zenon
  <2> HIDE DEF row, of
  <2>4. QED
    BY <2>1, <2>2, <2>3, Zenon
<1>3. /\ \A k \in asked.expected : bytes[k] # None
      /\ values = [k \in keys |-> bytes[k[1]]]
  <2>1. values = IF \E k \in asked.expected : bytes[k] = None THEN None ELSE [k \in keys |-> bytes[k[1]]]
    BY Zenon DEF ByteValues
  <2> HIDE DEF bytes, keys
  <2>2. QED
    BY <2>1, Zenon
<1>4. \A k \in asked.expected : bytes[k] = BytesPerRequest(of(k))
  BY Zenon
<1> HIDE DEF of, bytes
<1>5. ASSUME NEW k \in asked.expected
      PROVE  bytes[k] \in 0 .. Highest
  <2> DEFINE counters == of(k)
  <2>1. \A r \in Repeats : Counted(counters[r])
    BY <1>2, Zenon
  <2>2. bytes[k] = BytesPerRequest(counters) /\ bytes[k] # None
    BY <1>3, <1>4, Zenon
  <2> HIDE DEF counters
  <2>3. QED
    BY <2>1, <2>2, RatioFits, Zenon
<1>6. keys = asked.expected \X {"bytes"}
  BY Paired
<1>7. ASSUME NEW k \in keys
      PROVE  values[k] \in 0 .. Highest
  <2>1. PICK e \in asked.expected : k = <<e, "bytes">>
    OBVIOUS
  <2>2. values[k] = bytes[e]
    BY <1>3, <2>1
  <2>3. QED
    BY <1>5, <2>2
<1>8. DOMAIN values = keys
  BY <1>3
<1>9. QED
  BY <1>6, <1>7, <1>8

----------------------------------------------------------------------------
(* The values on the pages.                                                *)
LEMMA ShownOnPages ==
    ASSUME NEW J,
           \A page \in pages : \A m \in MarksOf(page) : m.value \in J,
           \A v \in J : \E page \in pages : \E m \in MarksOf(page) : m.value = v
    PROVE  ShownValues = J
<1> DEFINE marks == UNION {plot.marks : plot \in UNION {page.plots : page \in pages}}
<1>1. \A m : m \in marks <=> \E page \in pages : m \in MarksOf(page)
  BY DEF MarksOf
<1>2. ShownValues = {m.value : m \in marks}
  BY DEF ShownValues
<1> HIDE DEF marks
<1>3. \A m \in marks : m.value \in J
  BY <1>1
<1>4. \A v \in J : \E m \in marks : m.value = v
  BY <1>1
<1>5. {m.value : m \in marks} = J
  BY <1>3, <1>4
<1>6. QED
  BY <1>2, <1>5

ValuesShown(f, keys) == ShownValues = {f[k] : k \in keys}

LEMMA OneShown ==
    ASSUME NEW page, NEW f, NEW keys, pages = {page}, StandFor(MarksOf(page), f, keys)
    PROVE  ValuesShown(f, keys)
<1> DEFINE J == {f[k] : k \in keys}
<1>1. {m.value : m \in MarksOf(page)} = J
  BY Zenon DEF StandFor
<1> HIDE DEF J
<1>2. \A q \in pages : \A m \in MarksOf(q) : m.value \in J
  BY <1>1
<1>3. \A v \in J : \E q \in pages : \E m \in MarksOf(q) : m.value = v
  BY <1>1
<1>4. ShownValues = J
  BY <1>2, <1>3, ShownOnPages
<1>5. QED
  BY <1>4, Zenon DEF J, ValuesShown

InParts(P, G, keys, f) ==
    /\ \A k \in keys : k[1] \in P
    /\ \A p \in P : StandFor(MarksOf(G[p]), f, PartOf(keys, p))

LEMMA PartsShown ==
    ASSUME NEW P, NEW G, NEW keys, NEW f, pages = {G[p] : p \in P}, InParts(P, G, keys, f)
    PROVE  ValuesShown(f, keys)
<1> DEFINE J == {f[k] : k \in keys}
           own(p) == {f[k] : k \in PartOf(keys, p)}
<1>1. ASSUME NEW p \in P
      PROVE  {m.value : m \in MarksOf(G[p])} = own(p)
  BY Zenon DEF InParts, StandFor
<1>2. ASSUME NEW page \in pages, NEW m \in MarksOf(page)
      PROVE  m.value \in J
  <2>1. PICK p \in P : page = G[p]
    OBVIOUS
  <2>2. m.value \in own(p)
    <3>1. m.value \in {n.value : n \in MarksOf(G[p])}
      BY <2>1
    <3>2. QED
      BY <1>1, <3>1
  <2>3. QED
    BY <2>2 DEF PartOf
<1>3. ASSUME NEW v \in J
      PROVE  \E page \in pages : \E m \in MarksOf(page) : m.value = v
  <2>1. PICK k \in keys : v = f[k]
    OBVIOUS
  <2> DEFINE p == k[1]
             page == G[p]
  <2>2. p \in P /\ k \in PartOf(keys, p)
    BY DEF PartOf, InParts
  <2>3. page \in pages
    BY <2>2
  <2>4. v \in own(p)
    BY <2>1, <2>2
  <2>5. v \in {m.value : m \in MarksOf(page)}
    BY <1>1, <2>2, <2>4
  <2> HIDE DEF p, page
  <2>6. \E m \in MarksOf(page) : m.value = v
    BY <2>5
  <2>7. QED
    BY <2>3, <2>6
<1> HIDE DEF J
<1>4. ShownValues = J
  BY <1>2, <1>3, ShownOnPages
<1>5. QED
  BY <1>4, Zenon DEF J, ValuesShown

AllShown ==
    /\ OneAxis => ShownValues = {row.value : row \in Answered}
    /\ Ranges => ShownValues = {row.value : row \in {row \in Answered : row.statistic \in Pooled}}

(* What a chart that was drawn is made of.                                 *)
Finished(kind) ==
    /\ asked \in Asked /\ asked.kind = kind /\ values # None /\ None \notin pages
    /\ Results /\ Pictures

LEMMA MannersAre == Upright \in BOOLEAN /\ Stubs \in BOOLEAN /\ Ranges \in BOOLEAN
BY DEF Upright, Stubs, Ranges

LEMMA BarsInOrder ==
    ASSUME Finished("bars")
    PROVE  InOrderAll /\ AllShown
<1> DEFINE P == ProfileRows[asked.family]
           stacks == asked.stacks
           S == ToSet(stacks)
           keys == BarKeys(P, stacks)
           mode == asked.mode
           G == [p \in P |-> Bars(p, stacks, values, mode)]
           all == {Bars(p, stacks, values, mode) : p \in P}
<1>1. /\ asked \in Asked /\ asked.kind = "bars" /\ values # None
      /\ values = Percentiles(OfSummary(asked), asked.family, ToSet(asked.stacks))
      /\ pages = all
  BY DEF Finished, Results, Pictures
<1>2. stacks \in Seq(S) /\ mode \in {"linear", "logarithmic"}
  BY <1>1, StacksAre, AskedAssumption DEF BarData, Modes
<1>3. /\ DOMAIN values = keys /\ keys # {} /\ \A k \in keys : values[k] \in 0 .. Highest
      /\ {values[k] : k \in keys} = {row.value : row \in Answered}
  BY <1>1, BarValuesAre
<1>4. pages = {G[p] : p \in P}
  BY <1>1
<1>5. Upright = FALSE /\ Stubs = TRUE /\ Ranges = FALSE /\ OneAxis
  BY <1>1 DEF Upright, Stubs, Ranges, OneAxis
<1>6. \A k \in keys : k[1] \in P
  BY DEF BarKeys
<1> HIDE DEF P, S, stacks, mode
<1>7. BarsFit(P, S, stacks, values, mode)
  BY <1>2, <1>3, Zenon DEF BarsFit
<1>8. BarsDrawn(P, stacks, values, mode)
  BY <1>7, BarsAre
<1>9. Clear(all, FALSE, TRUE, FALSE)
  BY <1>8, Zenon DEF BarsDrawn
<1>10. \A p \in P : StandFor(MarksOf(G[p]), values, PartOf(keys, p))
  <2>1. \A p \in P : G[p] = Bars(p, stacks, values, mode)
    OBVIOUS
  <2>2. \A p \in P : StandFor(MarksOf(Bars(p, stacks, values, mode)), values, PartOf(keys, p))
    BY <1>8, Zenon DEF BarsDrawn
  <2> HIDE DEF G, keys
  <2>3. QED
    BY <2>1, <2>2
<1> HIDE DEF G, all, keys
<1>11. InParts(P, G, keys, values)
  BY <1>6, <1>10, Zenon DEF InParts
<1>12. ValuesShown(values, keys)
  BY <1>4, <1>11, PartsShown
<1>13. Clear(pages, Upright, Stubs, Ranges)
  BY <1>1, <1>5, <1>9
<1>14. InOrderAll
  BY <1>1, <1>13, AllClear
<1>15. AllShown
  <2>1. ShownValues = {row.value : row \in Answered}
    BY <1>3, <1>12, Zenon DEF ValuesShown
  <2>2. QED
    BY <1>5, <2>1, Zenon DEF AllShown
<1>16. QED
  BY <1>14, <1>15

LEMMA FailuresInOrder ==
    ASSUME Finished("failures")
    PROVE  InOrderAll /\ AllShown
<1> DEFINE P == ProfileRows[asked.family]
           stacks == asked.stacks
           S == ToSet(stacks)
           keys == FailureKeys(P, stacks)
<1>1. /\ asked \in Asked /\ asked.kind = "failures" /\ values # None
      /\ values = FailureRates(OfSummary(asked), asked.family, ToSet(asked.stacks))
      /\ pages = {FailureBars(p, stacks, values) : p \in P}
  BY DEF Finished, Results, Pictures
<1>2. stacks \in Seq(S) /\ S # {}
  BY <1>1, StacksAre
<1>3. DOMAIN values = keys /\ \A k \in keys : values[k] \in 0 .. Highest
  BY <1>1, RatesAre
<1>4. Upright = FALSE /\ Stubs = TRUE /\ Ranges = FALSE /\ ~OneAxis
  BY <1>1 DEF Upright, Stubs, Ranges, OneAxis
<1>5. FailureBarsFit(P, S, stacks, values)
  BY <1>2, <1>3, Zenon DEF FailureBarsFit
<1>6. ASSUME NEW page \in pages
      PROVE  Clear({page}, FALSE, TRUE, FALSE)
  <2>1. PICK p \in P : page = FailureBars(p, stacks, values)
    BY <1>1
  <2> HIDE DEF P, S, stacks
  <2>2. QED
    BY <1>5, <2>1, FailureBarsAre
<1>7. InOrderAll
  <2>1. \A page \in pages : Clear({page}, Upright, Stubs, Ranges)
    BY <1>4, <1>6
  <2>2. QED
    BY <1>1, <1>4, <2>1, EachClear
<1>8. QED
  BY <1>4, <1>7 DEF AllShown

LEMMA CompletionsInOrder ==
    ASSUME Finished("completion")
    PROVE  InOrderAll /\ AllShown
<1> DEFINE P == ProfileRows["race"]
           n == asked.rows
           V == ValuesOf(values)
           keys == CompletionKeys(P, n)
           G == [p \in P |-> CompletionBars(p, n, values, V)]
           all == {CompletionBars(p, n, values, V) : p \in P}
<1>1. /\ asked \in Asked /\ asked.kind = "completion" /\ values # None
      /\ values = Completions(asked.stored, asked.expected)
      /\ pages = all
  BY DEF Finished, Results, Pictures
<1>2. n \in Nat \ {0} /\ asked.expected = RaceExecutions(0 .. n - 1)
  BY <1>1, AskedAssumption
<1>3. asked.expected = keys
  BY <1>2 DEF RaceExecutions, CompletionKeys
<1>4. /\ DOMAIN values = keys /\ \A k \in keys : values[k] \in 0 .. Highest
      /\ {values[k] : k \in keys} = {row.value : row \in Answered}
  <2>1. /\ DOMAIN values = asked.expected /\ \A k \in asked.expected : values[k] \in 0 .. Highest
        /\ {values[k] : k \in asked.expected} = {row.value : row \in Answered}
    BY <1>1, CompletionsAre
  <2> HIDE DEF keys
  <2>2. QED
    BY <1>3, <2>1
<1>5. pages = {G[p] : p \in P}
  BY <1>1
<1>6. Upright = FALSE /\ Stubs = FALSE /\ Ranges = FALSE /\ OneAxis
  BY <1>1 DEF Upright, Stubs, Ranges, OneAxis
<1>7. \A k \in keys : k[1] \in P
  BY DEF CompletionKeys
<1>8. \E k : k \in keys
  <2>1. "10 VUs" \in P /\ 0 \in 0 .. n - 1 /\ 0 \in Repeats
    BY <1>2 DEF ProfileRows, Repeats
  <2> HIDE DEF P
  <2>2. <<"10 VUs", 0, 0>> \in keys
    BY <2>1 DEF CompletionKeys
  <2>3. QED
    BY <2>2
<1> HIDE DEF P, n
<1>9. CompletionsFit(P, n, values, V)
  <2>1. V = {values[k] : k \in keys}
    BY <1>4 DEF ValuesOf
  <2>2. V \subseteq 0 .. Highest /\ V # {}
    <3> HIDE DEF V, keys
    <3>1. QED
      BY <1>4, <1>8, <2>1
  <2>3. n \in Nat
    BY <1>2
  <2> HIDE DEF V
  <2>4. QED
    BY <1>4, <2>1, <2>2, <2>3, Zenon DEF CompletionsFit
<1>10. CompletionsDrawn(P, n, values, V)
  BY <1>9, CompletionBarsAre
<1> HIDE DEF V
<1>11. Clear(all, FALSE, FALSE, FALSE)
  BY <1>10, Zenon DEF CompletionsDrawn
<1>12. \A p \in P : StandFor(MarksOf(G[p]), values, PartOf(keys, p))
  <2>1. \A p \in P : G[p] = CompletionBars(p, n, values, V)
    OBVIOUS
  <2>2. \A p \in P : StandFor(MarksOf(CompletionBars(p, n, values, V)), values, PartOf(keys, p))
    BY <1>10, Zenon DEF CompletionsDrawn
  <2> HIDE DEF G, keys
  <2>3. QED
    BY <2>1, <2>2
<1> HIDE DEF G, all, keys
<1>13. InParts(P, G, keys, values)
  BY <1>7, <1>12, Zenon DEF InParts
<1>14. ValuesShown(values, keys)
  BY <1>5, <1>13, PartsShown
<1>15. Clear(pages, Upright, Stubs, Ranges)
  BY <1>1, <1>6, <1>11
<1>16. InOrderAll
  BY <1>1, <1>15, AllClear
<1>17. AllShown
  <2>1. ShownValues = {row.value : row \in Answered}
    BY <1>4, <1>14, Zenon DEF ValuesShown
  <2>2. QED
    BY <1>6, <2>1, Zenon DEF AllShown
<1>18. QED
  BY <1>16, <1>17

(* The charts of ranges have one page.                                     *)
LEMMA RangesInOrder ==
    ASSUME NEW page, pages = {page}, Clear({page}, FALSE, FALSE, TRUE),
           StandFor(MarksOf(page), values, asked.expected \X Pooled),
           asked \in Asked, asked.kind \in {"scenario ranges", "tls ranges"}, values # None,
           values = PooledPercentiles(OfSummary(asked), asked.expected)
    PROVE  InOrderAll /\ AllShown
<1> DEFINE keys == asked.expected \X Pooled
           drawn == {row \in Answered : row.statistic \in Pooled}
<1>1. Upright = FALSE /\ Stubs = FALSE /\ Ranges = TRUE /\ ~OneAxis
  <2>1. ~Upright /\ ~Stubs /\ Ranges /\ ~OneAxis
    BY DEF Upright, Stubs, Ranges, OneAxis
  <2>2. QED
    BY <2>1, MannersAre
<1>2. InOrderAll
  <2>1. ASSUME NEW q \in pages
        PROVE  Clear({q}, Upright, Stubs, Ranges)
    <3>1. {q} = {page}
      OBVIOUS
    <3>2. QED
      BY <1>1, <3>1
  <2>2. QED
    BY <1>1, <2>1, EachClear
<1>3. FromRows(values, keys, drawn)
  BY PoolsAre
<1> HIDE DEF keys
<1>4. ValuesShown(values, keys)
  <2>1. StandFor(MarksOf(page), values, keys)
    BY DEF keys
  <2>2. QED
    BY <2>1, OneShown
<1>5. ShownValues = {row.value : row \in drawn}
  <2> HIDE DEF drawn
  <2>1. QED
    BY <1>3, <1>4, Zenon DEF ValuesShown, FromRows
<1>6. AllShown
  BY <1>1, <1>5 DEF AllShown
<1>7. QED
  BY <1>2, <1>6

LEMMA ScenariosInOrder ==
    ASSUME Finished("scenario ranges")
    PROVE  InOrderAll /\ AllShown
<1> DEFINE n == Cardinality(asked.expected)
           mode == asked.mode
           page == ScenarioRanges(n, values, mode)
<1>1. /\ asked \in Asked /\ asked.kind = "scenario ranges" /\ values # None
      /\ values = PooledPercentiles(OfSummary(asked), asked.expected)
      /\ pages = {page} /\ page # None
  BY DEF Finished, Results, Pictures
<1>2. PoolData(asked) /\ Numbered(asked.expected)
  BY <1>1, AskedAssumption
<1>3. n \in Nat /\ asked.expected = 0 .. n - 1 /\ mode \in {"linear", "logarithmic"}
  BY <1>2 DEF Numbered, PoolData, Modes
<1>4. \A k \in asked.expected \X Pooled : values[k] \in 0 .. Highest
  BY <1>1, PoolsAre
<1> HIDE DEF n, mode
<1>5. ScenarioFits(n, values, mode)
  BY <1>1, <1>3, <1>4, Zenon DEF ScenarioFits
<1>6. ScenarioDrawn(n, values, mode)
  BY <1>5, ScenarioRangesAre
<1>7. Clear({page}, FALSE, FALSE, TRUE) /\ StandFor(MarksOf(page), values, asked.expected \X Pooled)
  BY <1>3, <1>6, Zenon DEF ScenarioDrawn
<1> HIDE DEF page
<1>8. QED
  BY <1>1, <1>7, RangesInOrder

LEMMA TlsRangesInOrder ==
    ASSUME Finished("tls ranges")
    PROVE  InOrderAll /\ AllShown
<1> DEFINE K == asked.expected
           labels == asked.labels
           mode == asked.mode
           page == TlsChart("tls", "percentiles", labels, K, values, {}, mode)
<1>1. /\ asked \in Asked /\ asked.kind = "tls ranges" /\ values # None
      /\ values = PooledPercentiles(OfSummary(asked), K)
      /\ pages = {page} /\ page # None
  BY DEF Finished, Results, Pictures
<1>2. PoolData(asked) /\ TlsRows(asked, K)
  BY <1>1, AskedAssumption
<1>3. labels \in Seq(Nat) /\ K \subseteq 0 .. 4 * Len(labels) - 1 /\ mode \in {"linear", "logarithmic"}
  BY <1>2 DEF TlsRows, PoolData, Modes
<1>4. \A k \in K \X Pooled : values[k] \in 0 .. Highest
  BY <1>1, PoolsAre
<1> DEFINE name == "tls"
           none == {}
<1> HIDE DEF K, labels, mode, name, none
<1>5. page = TlsChart(name, "percentiles", labels, K, values, none, mode)
  BY DEF name, none
<1>6. TlsRangesFit(name, labels, K, values, none, mode)
  BY <1>1, <1>3, <1>4, <1>5, Zenon DEF TlsRangesFit
<1>7. TlsRangesDrawn(name, labels, K, values, none, mode)
  BY <1>6, TlsRangesAre
<1>8. Clear({page}, FALSE, FALSE, TRUE) /\ StandFor(MarksOf(page), values, K \X Pooled)
  BY <1>5, <1>7, Zenon DEF TlsRangesDrawn
<1> HIDE DEF page
<1>9. QED
  BY <1>1, <1>8, RangesInOrder DEF K

LEMMA PairIs ==
    ASSUME NEW A, NEW B, NEW j \in A \X B
    PROVE  \E a \in A, b \in B : j = <<a, b>>
OBVIOUS

LEMMA TripleIs ==
    ASSUME NEW A, NEW B, NEW C, NEW k \in A \X B \X C
    PROVE  \E a \in A, b \in B, c \in C : k = <<a, b, c>>
OBVIOUS

(* One profile's completions out of all.                                   *)
OfRace(P, S, f) == DOMAIN f = P \X S \X Repeats

OwnValue(P, S, f, p, s, r) ==
    /\ <<p, s, r>> \in PartOf(P \X S \X Repeats, p) /\ <<p, s, r>> \in P \X S \X Repeats
    /\ ProfileValues(f, p)[<<s, r>>] = f[<<p, s, r>>]

LEMMA OwnValues ==
    ASSUME NEW P, NEW S, NEW f, OfRace(P, S, f), NEW p \in P, NEW s \in S, NEW r \in Repeats
    PROVE  OwnValue(P, S, f, p, s, r)
<1> DEFINE keys == P \X S \X Repeats
           some == {k \in DOMAIN f : k[1] = p}
           places == {<<k[2], k[3]>> : k \in some}
           triple == <<p, s, r>>
           place == <<s, r>>
<1>1. triple \in keys /\ triple[1] = p /\ triple[2] = s /\ triple[3] = r
  OBVIOUS
<1>2. triple \in some
  BY <1>1 DEF OfRace
<1>3. place \in places
  <2> HIDE DEF some
  <2>1. <<triple[2], triple[3]>> = place
    BY <1>1
  <2> HIDE DEF triple, place
  <2>2. QED
    BY <1>2, <2>1
<1>4. ProfileValues(f, p) = [k \in places |-> f[<<p, k[1], k[2]>>]]
  BY Zenon DEF ProfileValues
<1>5. ProfileValues(f, p)[place] = f[<<p, place[1], place[2]>>]
  <2> HIDE DEF places, place
  <2>1. QED
    BY <1>3, <1>4
<1>6. QED
  BY <1>1, <1>5 DEF PartOf, OwnValue

OwnAmong(P, S, f, p) ==
    \A j \in S \X Repeats : ProfileValues(f, p)[j] \in {f[k] : k \in P \X S \X Repeats}

LEMMA OwnIn ==
    ASSUME NEW P, NEW S, NEW f, OfRace(P, S, f), NEW p \in P
    PROVE  OwnAmong(P, S, f, p)
<1>1. ASSUME NEW j \in S \X Repeats
      PROVE  ProfileValues(f, p)[j] \in {f[k] : k \in P \X S \X Repeats}
  <2>1. PICK s \in S, r \in Repeats : j = <<s, r>>
    BY PairIs
  <2>2. OwnValue(P, S, f, p, s, r)
    BY OwnValues
  <2>3. <<p, s, r>> \in P \X S \X Repeats /\ ProfileValues(f, p)[j] = f[<<p, s, r>>]
    BY <2>1, <2>2, Zenon DEF OwnValue
  <2>4. QED
    BY <2>3, Zenon
<1>2. QED
  BY <1>1 DEF OwnAmong

LEMMA OwnMarks ==
    ASSUME NEW P, NEW S, NEW f, OfRace(P, S, f), NEW p \in P,
           NEW marks, StandFor(marks, ProfileValues(f, p), S \X Repeats)
    PROVE  StandFor(marks, f, PartOf(P \X S \X Repeats, p))
<1> DEFINE g == ProfileValues(f, p)
           places == S \X Repeats
           own == PartOf(P \X S \X Repeats, p)
<1>1. {m.value : m \in marks} = {g[j] : j \in places}
  BY Zenon DEF StandFor
<1>2. ASSUME NEW j \in places
      PROVE  \E k \in own : g[j] = f[k]
  <2>1. PICK s \in S, r \in Repeats : j = <<s, r>>
    BY PairIs
  <2>2. OwnValue(P, S, f, p, s, r)
    BY OwnValues
  <2>3. <<p, s, r>> \in own /\ g[<<s, r>>] = f[<<p, s, r>>]
    BY <2>2, Zenon DEF OwnValue
  <2> HIDE DEF own, g
  <2>4. QED
    BY <2>1, <2>3
<1>3. ASSUME NEW k \in own
      PROVE  \E j \in places : f[k] = g[j]
  <2>1. PICK q \in P, s \in S, r \in Repeats : k = <<q, s, r>>
    <3>1. k \in P \X S \X Repeats
      BY DEF PartOf
    <3>2. QED
      BY <3>1, TripleIs
  <2>2. k[1] = p
    BY DEF PartOf
  <2>3. q = p
    BY <2>1, <2>2
  <2>4. OwnValue(P, S, f, p, s, r)
    BY OwnValues
  <2>5. g[<<s, r>>] = f[<<p, s, r>>]
    BY <2>4, Zenon DEF OwnValue
  <2>6. <<s, r>> \in places
    OBVIOUS
  <2> HIDE DEF g, places
  <2>7. QED
    BY <2>1, <2>3, <2>5, <2>6
<1> HIDE DEF g, places, own
<1>4. {g[j] : j \in places} = {f[k] : k \in own}
  BY <1>2, <1>3
<1>5. QED
  BY <1>1, <1>4, Zenon DEF StandFor, own

LEMMA TlsCompletionsInOrder ==
    ASSUME Finished("tls completion")
    PROVE  InOrderAll /\ AllShown
<1> DEFINE P == ProfileRows["race"]
           S == {k[2] : k \in asked.expected}
           labels == asked.labels
           V == ValuesOf(values)
           keys == P \X S \X Repeats
           own == [p \in P |-> ProfileValues(values, p)]
           form == "completion"
           mode == "linear"
           G == [p \in P |-> TlsChart(p, form, labels, S, own[p], V, mode)]
           all == {TlsChart(p, form, labels, S, own[p], V, mode) : p \in P}
<1>1. /\ asked \in Asked /\ asked.kind = "tls completion" /\ values # None
      /\ values = Completions(asked.stored, asked.expected)
      /\ pages = {TlsChart(p, form, labels, S, ProfileValues(values, p), V, mode) : p \in P}
  BY DEF Finished, Results, Pictures
<1>2. TlsRows(asked, S) /\ asked.expected = RaceExecutions(S)
  BY <1>1, AskedAssumption, Zenon
<1> HIDE DEF S
<1>3. labels \in Seq(Nat) /\ S # {} /\ S \subseteq 0 .. 4 * Len(labels) - 1 /\ asked.expected = keys
  BY <1>2 DEF TlsRows, RaceExecutions
<1>4. /\ DOMAIN values = keys /\ \A k \in keys : values[k] \in 0 .. Highest
      /\ {values[k] : k \in keys} = {row.value : row \in Answered}
  <2>1. /\ DOMAIN values = asked.expected /\ \A k \in asked.expected : values[k] \in 0 .. Highest
        /\ {values[k] : k \in asked.expected} = {row.value : row \in Answered}
    BY <1>1, CompletionsAre
  <2> HIDE DEF keys
  <2>2. QED
    BY <1>3, <2>1
<1>5. pages = all /\ pages = {G[p] : p \in P}
  <2>1. \A p \in P : own[p] = ProfileValues(values, p)
    OBVIOUS
  <2> HIDE DEF own, V, P, form, mode, labels
  <2>2. pages = all
    BY <1>1, <2>1
  <2>3. QED
    BY <2>2
<1>6. Upright = FALSE /\ Stubs = FALSE /\ Ranges = FALSE /\ OneAxis
  <2>1. ~Upright /\ ~Stubs /\ ~Ranges /\ OneAxis
    BY <1>1 DEF Upright, Stubs, Ranges, OneAxis
  <2>2. QED
    BY <2>1, MannersAre
<1>7. \A k \in keys : k[1] \in P
  OBVIOUS
<1>8. \E k : k \in keys
  <2>1. "10 VUs" \in P /\ 0 \in Repeats
    BY DEF ProfileRows, Repeats
  <2>2. PICK s : s \in S
    BY <1>3
  <2> HIDE DEF P
  <2>3. <<"10 VUs", s, 0>> \in keys
    BY <2>1, <2>2
  <2>4. QED
    BY <2>3
<1>9. V = {values[k] : k \in keys}
  BY <1>4 DEF ValuesOf
<1>10. V \subseteq 0 .. Highest /\ V # {}
  <2> HIDE DEF V, keys
  <2>1. QED
    BY <1>4, <1>8, <1>9
<1> HIDE DEF P, labels, V
<1>11. TlsBarsFit(P, form, labels, S, own, V)
  <2>1. ASSUME NEW p \in P, NEW j \in S \X Repeats
        PROVE  own[p][j] \in V
    <3>1. OfRace(P, S, values) /\ OwnAmong(P, S, values, p)
      BY <1>4, OwnIn DEF OfRace
    <3>2. ProfileValues(values, p)[j] \in V
      BY <1>9, <3>1, Zenon DEF OwnAmong
    <3>3. own[p] = ProfileValues(values, p)
      OBVIOUS
    <3> HIDE DEF own
    <3>4. QED
      BY <3>2, <3>3
  <2>2. form \in {"completion", "bytes"} /\ S \X TlsParts(form) = S \X Repeats
    BY DEF TlsParts
  <2> HIDE DEF own, form
  <2>3. \A p \in P : \A k \in S \X TlsParts(form) : own[p][k] \in V
    BY <2>1, <2>2
  <2>4. QED
    BY <1>3, <1>10, <2>2, <2>3, Zenon DEF TlsBarsFit
<1>12. TlsBarsDrawn(P, form, labels, S, own, V, mode)
  <2> HIDE DEF own, form, mode
  <2>1. QED
    BY <1>11, TlsBarsAre
<1>13. Clear(all, FALSE, FALSE, FALSE)
  <2> HIDE DEF own, form, mode
  <2>1. QED
    BY <1>12, Zenon DEF TlsBarsDrawn
<1>14. ASSUME NEW p \in P
       PROVE  StandFor(MarksOf(G[p]), values, PartOf(keys, p))
  <2>1. own[p] = ProfileValues(values, p) /\ S \X TlsParts(form) = S \X Repeats
    BY DEF TlsParts
  <2>2. G[p] = TlsChart(p, form, labels, S, own[p], V, mode)
    BY Zenon
  <2> HIDE DEF own, G, form, mode
  <2>3. StandFor(MarksOf(G[p]), own[p], S \X TlsParts(form))
    BY <1>12, <2>2, Zenon DEF TlsBarsDrawn
  <2>4. StandFor(MarksOf(G[p]), ProfileValues(values, p), S \X Repeats)
    BY <2>1, <2>3
  <2> DEFINE marks == MarksOf(G[p])
  <2>5. StandFor(marks, ProfileValues(values, p), S \X Repeats) /\ OfRace(P, S, values)
    BY <1>4, <2>4 DEF OfRace
  <2> HIDE DEF marks
  <2>6. StandFor(marks, values, PartOf(P \X S \X Repeats, p))
    BY <2>5, OwnMarks
  <2>7. QED
    BY <2>6 DEF marks
<1> HIDE DEF G, all, keys
<1>15. InParts(P, G, keys, values)
  BY <1>7, <1>14, Zenon DEF InParts
<1>16. ValuesShown(values, keys)
  BY <1>5, <1>15, PartsShown
<1>17. Clear(pages, Upright, Stubs, Ranges)
  BY <1>5, <1>6, <1>13
<1>18. InOrderAll
  BY <1>1, <1>17, AllClear
<1>19. AllShown
  <2>1. ShownValues = {row.value : row \in Answered}
    BY <1>4, <1>16, Zenon DEF ValuesShown
  <2>2. QED
    BY <1>6, <2>1, Zenon DEF AllShown
<1>20. QED
  BY <1>18, <1>19

LEMMA TlsBytesInOrder ==
    ASSUME Finished("tls bytes")
    PROVE  InOrderAll /\ AllShown
<1> DEFINE P == {"tls"}
           S == asked.expected
           labels == asked.labels
           V == ValuesOf(values)
           keys == S \X {"bytes"}
           own == [p \in P |-> values]
           form == "bytes"
           mode == "linear"
           all == {TlsChart(p, form, labels, S, own[p], V, mode) : p \in P}
<1>1. /\ asked \in Asked /\ asked.kind = "tls bytes" /\ values # None
      /\ values = ByteValues(asked.stored, asked.expected)
      /\ pages = {TlsChart("tls", form, labels, S, values, V, mode)}
  BY DEF Finished, Results, Pictures
<1>2. TlsRows(asked, S)
  BY <1>1, AskedAssumption
<1>3. labels \in Seq(Nat) /\ S # {} /\ S \subseteq 0 .. 4 * Len(labels) - 1
  BY <1>2 DEF TlsRows
<1>4. DOMAIN values = keys /\ \A k \in keys : values[k] \in 0 .. Highest
  BY <1>1, BytesAre
<1>5. pages = all
  <2>1. own["tls"] = values /\ "tls" \in P /\ \A p \in P : p = "tls"
    OBVIOUS
  <2> HIDE DEF own, V, P, S, form, mode, labels
  <2>2. all = {TlsChart("tls", form, labels, S, values, V, mode)}
    BY <2>1
  <2>3. QED
    BY <1>1, <2>2
<1>6. Upright = FALSE /\ Stubs = FALSE /\ Ranges = FALSE /\ ~OneAxis
  <2>1. ~Upright /\ ~Stubs /\ ~Ranges /\ ~OneAxis
    BY <1>1 DEF Upright, Stubs, Ranges, OneAxis
  <2>2. QED
    BY <2>1, MannersAre
<1>7. \E k : k \in keys
  <2>1. PICK s : s \in S
    BY <1>3
  <2>2. <<s, "bytes">> \in keys
    BY <2>1
  <2>3. QED
    BY <2>2
<1>8. V = {values[k] : k \in keys}
  BY <1>4 DEF ValuesOf
<1>9. V \subseteq 0 .. Highest /\ V # {}
  <2> HIDE DEF V, keys
  <2>1. QED
    BY <1>4, <1>7, <1>8
<1> HIDE DEF labels, V, S
<1>10. TlsBarsFit(P, form, labels, S, own, V)
  <2>1. ASSUME NEW p \in P, NEW j \in S \X TlsParts(form)
        PROVE  own[p][j] \in V
    <3>1. S \X TlsParts(form) = keys
      BY DEF TlsParts
    <3>2. own[p] = values
      OBVIOUS
    <3> HIDE DEF own, keys, form
    <3>3. QED
      BY <1>8, <3>1, <3>2
  <2>2. form \in {"completion", "bytes"}
    OBVIOUS
  <2> HIDE DEF own, form
  <2>3. QED
    BY <1>3, <1>9, <2>1, <2>2, Zenon DEF TlsBarsFit
<1>11. Clear(all, FALSE, FALSE, FALSE)
  <2> HIDE DEF own, form, mode, P
  <2>1. TlsBarsDrawn(P, form, labels, S, own, V, mode)
    BY <1>10, TlsBarsAre
  <2>2. QED
    BY <2>1, Zenon DEF TlsBarsDrawn
<1> HIDE DEF all
<1>12. Clear(pages, Upright, Stubs, Ranges)
  BY <1>5, <1>6, <1>11
<1>13. InOrderAll
  BY <1>1, <1>12, AllClear
<1>14. QED
  BY <1>6, <1>13 DEF AllShown

LEMMA TimelineInOrder ==
    ASSUME Finished("timeline"), IInv, phase = "drawn"
    PROVE  InOrderAll /\ AllShown
<1> DEFINE mode == asked.mode
           page == IF asked.panels THEN SmallMultiples(values) ELSE TimeSeries(values, mode)
<1>1. /\ asked \in Asked /\ asked.kind = "timeline" /\ values # {} /\ pages = {page} /\ page # None
  BY DEF Finished, Results, Pictures
<1>2. PointsFit(values)
  BY <1>1, TimelineFits DEF OnPaper
<1>3. mode \in {"linear", "logarithmic"}
  BY <1>1, AskedAssumption DEF TimelineData, Modes
<1>4. Upright = TRUE /\ Stubs = FALSE /\ Ranges = FALSE /\ ~OneAxis
  <2>1. Upright /\ ~Stubs /\ ~Ranges /\ ~OneAxis
    BY <1>1 DEF Upright, Stubs, Ranges, OneAxis
  <2>2. QED
    BY <2>1, MannersAre
<1> HIDE DEF mode
<1>5. Clear({page}, TRUE, FALSE, FALSE)
  <2>1. CASE asked.panels
    <3>1. page = SmallMultiples(values)
      BY <2>1
    <3>2. SmallMultiples(values) # None
      BY <1>1, <3>1
    <3>3. Clear({SmallMultiples(values)}, TRUE, FALSE, FALSE)
      BY <1>2, <3>2, SmallMultiplesIs
    <3> HIDE DEF page
    <3>4. QED
      BY <3>1, <3>3
  <2>2. CASE ~asked.panels
    <3>1. page = TimeSeries(values, mode)
      BY <2>2
    <3>2. Clear({TimeSeries(values, mode)}, TRUE, FALSE, FALSE)
      BY <1>2, <1>3, TimeSeriesIs
    <3> HIDE DEF page
    <3>3. QED
      BY <3>1, <3>2
  <2>3. QED
    BY <2>1, <2>2
<1> HIDE DEF page
<1>6. Clear(pages, Upright, Stubs, Ranges)
  BY <1>1, <1>4, <1>5
<1>7. InOrderAll
  BY <1>1, <1>6, AllClear
<1>8. QED
  BY <1>4, <1>7 DEF AllShown

LEMMA WorkloadInOrder ==
    ASSUME Finished("workload"), IInv, phase = "drawn"
    PROVE  InOrderAll /\ AllShown
<1> DEFINE family == asked.family
           page == Workload(family, values)
<1>1. /\ asked \in Asked /\ asked.kind = "workload" /\ values = Cells(asked.stored)
      /\ pages = {page} /\ page # None
  BY DEF Finished, Results, Pictures
<1>2. TableData(asked) /\ family \in DOMAIN ProfileRows
  BY <1>1, AskedAssumption
<1>3. family \in {"baseline", "linear", "race"}
  BY <1>2, Families
<1>4. values # {}
  BY <1>1 DEF IInv
<1>5. \A p \in values : p.time \in 0 .. Highest /\ p.value \in 0 .. Highest
  BY <1>1, <1>2 DEF Cells, TableData
<1>6. Upright = TRUE /\ Stubs = FALSE /\ Ranges = FALSE /\ ~OneAxis
  <2>1. Upright /\ ~Stubs /\ ~Ranges /\ ~OneAxis
    BY <1>1 DEF Upright, Stubs, Ranges, OneAxis
  <2>2. QED
    BY <2>1, MannersAre
<1> HIDE DEF family
<1>7. WorkloadFits(family, values)
  BY <1>1, <1>3, <1>4, <1>5, Zenon DEF WorkloadFits
<1>8. Reading({page}, TRUE, FALSE, FALSE) /\ ShowsUpTo(page, WorkloadMaximum[family])
  BY <1>7, WorkloadIs
<1> HIDE DEF page
<1>9. Readable
  <2>1. ASSUME NEW q \in pages
        PROVE  Reading({q}, Upright, Stubs, Ranges)
    <3>1. {q} = {page}
      BY <1>1
    <3>2. QED
      BY <1>6, <1>8, <3>1
  <2>2. QED
    BY <1>6, <2>1 DEF Readable
<1>10. \A q \in pages : ShowsUpTo(q, WorkloadMaximum[asked.family])
  BY <1>1, <1>8 DEF family
<1>11. InOrderAll
  BY <1>1, <1>9, <1>10, Zenon DEF InOrderAll
<1>12. QED
  BY <1>6, <1>11 DEF AllShown

(* Whatever is drawn is in order, and shows what was measured.             *)
LEMMA DrawnInOrder ==
    ASSUME IInv, Types, Filed, phase = "drawn"
    PROVE  InOrderAll /\ AllShown
<1>1. asked \in Asked /\ values # None /\ None \notin pages /\ Results /\ Pictures
  BY DEF IInv, Types, Filed
<1>2. asked.kind \in {"timeline", "bars", "failures", "scenario ranges", "completion", "tls ranges",
                      "tls completion", "tls bytes", "workload"}
  BY <1>1, Zenon DEF Pictures
<1>3. Finished(asked.kind)
  BY <1>1, Zenon DEF Finished
<1>4. QED
  BY <1>2, <1>3, TimelineInOrder, BarsInOrder, FailuresInOrder, ScenariosInOrder, CompletionsInOrder,
     TlsRangesInOrder, TlsCompletionsInOrder, TlsBytesInOrder, WorkloadInOrder

(* What a chart is made of in each phase: a timeline of the windows of its *)
(* own samples (aggregate_time_series_query()), a workload of a column per *)
(* execution (load()), and pages only of what was drawn.                   *)
THEOREM DrawingInvariant == Spec => [](IInv /\ Types /\ Filed)
<1>1. Init => IInv /\ Types /\ Filed
  BY InitIInv, InitFiled
<1>2. IInv /\ Types /\ Filed /\ [Next]_vars => (IInv /\ Types /\ Filed)'
  BY StepIInv, StepTypes, StepFiled
<1>3. QED
  BY <1>1, <1>2, PTL DEF Spec

(* datasets.py, svg.py: no point before the start, only what adds up is    *)
(* parsed, and pages once everything is drawn.                             *)
THEOREM TypeCorrect == Spec => []TypeOK
<1>1. IInv /\ Types => TypeOK
  BY PointsTyped DEF Types, Proper, OnPaper, TypeOK
<1>2. QED
  BY <1>1, DrawingInvariant, PTL

(* aggregate_time_series_query() and parse_aggregate_rows(): of any        *)
(* samples, each is in one point of its own line and in its own second, or *)
(* in the next where the database rounded; none from before the start is   *)
(* in a later second, and after the first second no two windows of an      *)
(* execution share a point.                                                *)
THEOREM SamplesKeepTheirSecond == Spec => []SamplesInTheirSecond
<1>1. IInv => SamplesInTheirSecond
  BY Timelines, SamplesShown DEF SamplesInTheirSecond
<1>2. QED
  BY <1>1, DrawingInvariant, PTL

(* parse_aggregate_rows(): of any samples, those within a minute are       *)
(* joined, and a gap of more than a minute breaks the line.                *)
THEOREM LinesAreWhole == Spec => []LinesBreakAtGaps
<1>1. IInv => LinesBreakAtGaps
  BY Timelines, LinesShown DEF LinesBreakAtGaps
<1>2. QED
  BY <1>1, DrawingInvariant, PTL

(* legend_order(), profile_color() and profile_slot() number the           *)
(* executions of each workload in the same way: colours tell, whatever     *)
(* executions the dashboard's table has, and places when it has them all.  *)
THEOREM LegendsAgree == Spec => []LegendAgreesWithSlots
<1>1. IInv => LegendAgreesWithSlots
  <2> SUFFICES ASSUME IInv, phase = "drawn", asked.kind = "workload"
               PROVE  LegendAgreesWithSlots
    BY DEF LegendAgreesWithSlots
  <2>1. Executions \subseteq ExpectedExecutions(asked.family)
    BY DEF IInv, Executions
  <2>2. asked.family \in DOMAIN ProfileRows
    BY AskedAssumption DEF IInv
  <2>3. QED
    BY <2>1, <2>2, LegendTells
<1>2. QED
  BY <1>1, DrawingInvariant, PTL

(* The axes and scales of svg.py, bars.py and tls_charts.py: of any        *)
(* values up to Highest, on either scale, the larger is never drawn        *)
(* shorter - but for a zero on a linear scale, whose stub (bars.py:122)    *)
(* may be longer than a bar for less than a twenty-fifth of the axis -,    *)
(* twice as much on a logarithmic axis is drawn longer, and every axis has *)
(* a readable number of ticks.                                             *)
THEOREM LongerIsLarger == Spec => []LongerMeansLarger
<1>1. IInv /\ Types /\ Filed => LongerMeansLarger
  <2> SUFFICES ASSUME IInv, Types, Filed, phase = "drawn"
               PROVE  LongerMeansLarger
    BY DEF LongerMeansLarger
  <2>1. Readable
    BY DrawnInOrder DEF InOrderAll
  <2>2. QED
    BY <2>1, OrderIsLonger
<1>2. QED
  BY <1>1, DrawingInvariant, PTL

(* The layouts of svg.py, bars.py, tls_charts.py and the others: of any    *)
(* number of stacks, scenarios and TLS cells, every mark lies inside its   *)
(* plot, a percentile dot with its centre, and covers no other, and the    *)
(* marks are the values the summary's executions measured, no more and no  *)
(* fewer.  A chart of a dashboard shows inside its plot just the values    *)
(* that are no larger than the end of its axis.                            *)
THEOREM ValuesKeepTheirPlace == Spec => []ValuesInPlace
<1>1. IInv /\ Types /\ Filed => ValuesInPlace
  <2> SUFFICES ASSUME IInv, Types, Filed, phase = "drawn"
               PROVE  ValuesInPlace
    BY DEF ValuesInPlace
  <2>1. /\ asked.kind # "workload" => \A page \in pages : Tidy(page, Ranges)
        /\ asked.kind = "workload" =>
                \A page \in pages : ShowsUpTo(page, WorkloadMaximum[asked.family])
        /\ AllShown
    BY DrawnInOrder DEF InOrderAll
  <2>2. asked.kind = "workload" =>
            \A page \in pages : \A d \in Drawings(page) :
                Within(d[2].box, d[1].box) <=> d[2].value <= WorkloadMaximum[asked.family]
    BY <2>1, Zenon DEF ShowsUpTo
  <2>3. QED
    BY <2>1, <2>2, Zenon DEF ValuesInPlace, AllShown, OneAxis
<1>2. QED
  BY <1>1, DrawingInvariant, PTL

=============================================================================
