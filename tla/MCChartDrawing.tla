--------------------------- MODULE MCChartDrawing ---------------------------
(* Charts of every kind, from what InfluxDB holds after a complete import   *)
(* and after one that left something out or stored it under other tags.     *)
EXTENDS ChartDrawing

CONSTANTS usual, without, amid   \* complete, a row missing, foreign rows among them

(* Zero, a single step, decades and what lies off the scale, in turn.      *)
Value(i) == (<<0, 3, 100, 2300, 100000, 150000>>)[(i % 6) + 1]
Spread == {"same", "turning", "rising", "all zero"}
Measured(spread, i) ==
    IF spread = "same" THEN 2300
    ELSE IF spread = "turning" THEN Value(i)
    ELSE IF spread = "rising" THEN 130 + 77 * i
    ELSE 0

States == {usual, without, amid}
Stored(S, state) ==
    IF state = without THEN S \ {CHOOSE row \in S : TRUE}
    ELSE IF state = amid THEN S \cup {[row EXCEPT !.tags = "other", !.value = 4242] : row \in S}
    ELSE S

----------------------------------------------------------------------------
(* The seconds of a run, in half seconds from a start on or between two    *)
(* seconds: within the first seconds, and about a minute after the start.  *)
(* The second execution begins later, or in the second the first one ends. *)
TimesAfter(o) == {o, o + 1, o + 2, o + 119, o + 120, o + 121, o + 122, o + 123}

(* None, or some, in hundredths.                                           *)
SampleValue(t) == (<<0, 100, 2500, 7, 30>>)[(t % 5) + 1]
Samples(execution, times) ==
    {[execution |-> execution, time |-> t, value |-> SampleValue(t)] : t \in times}

WholeRuns ==
    {[kind |-> "timeline", family |-> "baseline", profile |-> None, panels |-> FALSE,
      aligned |-> x.aligned, mode |-> IF x.aligned THEN x.mode ELSE "linear",
      aggregate |-> IF x.aligned THEN "mean" ELSE IF x.origin = 10 THEN "sum" ELSE "max",
      origins |-> [e \in {<<"linear", 1>>, <<"flat", 2>>} |->
                      x.origin + (IF e[2] = 1 THEN 0 ELSE IF 123 \in x.after THEN 123 ELSE 260)],
      samples |-> Samples(<<"linear", 1>>, x.times \cup x.early)
                  \cup Samples(<<"flat", 2>>, {x.origin + d : d \in x.after})] :
        x \in {x \in UNION {[origin : {o}, aligned : BOOLEAN, mode : {"linear", "logarithmic"},
                             times : SUBSET TimesAfter(o), early : {{}, {o - 1, o - 5}},
                             after : {{}, {260, 261}, {123, 124}}] : o \in {10, 11}} :
                 /\ x.aligned => x.early = {}
                 /\ x.times \cup x.early \cup x.after # {}}}

RaceTimes(o) == {{}, {o}, {o, o + 1, o + 121}, {o + 2, o + 122, o + 243}}
RaceOrigins == [e \in {<<"race", n>> : n \in {1, 2, 4, 7}} |-> 300 * e[2] + (e[2] % 2)]

RaceRuns ==
    {[kind |-> "timeline", family |-> "race", profile |-> "10 VUs", aligned |-> FALSE,
      panels |-> x.panels, mode |-> IF x.panels THEN "linear" ELSE x.mode, origins |-> RaceOrigins,
      aggregate |-> IF x.panels THEN "sum" ELSE "mean",
      samples |-> Samples(<<"race", 1>>, x.first) \cup Samples(<<"race", 4>>, x.second)
                  \cup Samples(<<"race", 7>>, x.third) \cup Samples(<<"race", 2>>, {600, 601})] :
        x \in [panels : BOOLEAN, mode : {"linear", "logarithmic"},
               first : RaceTimes(301), second : RaceTimes(1200), third : RaceTimes(2101)]}

----------------------------------------------------------------------------
BarRows(family, stacks, spread) ==
    {[tags |-> "summary", stack |-> stacks[i], execution |-> e, statistic |-> Statistics[j],
      value |-> Measured(spread, e[2] + 2 * i + j)] :
        i \in DOMAIN stacks, e \in ExpectedExecutions(family), j \in 1 .. 4}

BarCharts ==
    {[kind |-> "bars", family |-> x.family, stacks |-> x.stacks, mode |-> x.mode,
      stored |-> Stored(BarRows(x.family, x.stacks, x.spread), x.state)] :
        x \in [family : {"linear", "race"}, stacks : {<<"java">>, <<"go", "java">>},
               mode : {"linear", "logarithmic"}, spread : Spread, state : States]}

(* Failed of completed requests; none completed, or more failed than that. *)
Counts == <<[failed |-> 0, requests |-> 50], [failed |-> 1, requests |-> 4000],
            [failed |-> 7, requests |-> 7], [failed |-> 33, requests |-> 100]>>
Impossible == {[failed |-> 0, requests |-> 0], [failed |-> 8, requests |-> 7]}

FailureRows(family, counts) ==
    {[tags |-> "summary", stack |-> "java", execution |-> e, value |-> counts[e[2]]] :
        e \in ExpectedExecutions(family)}

FailureCharts ==
    {[kind |-> "failures", family |-> x.family, stacks |-> <<"java">>,
      stored |-> FailureRows(x.family, [n \in 1 .. 9 |->
                     IF n = 3 THEN x.third ELSE Counts[((n * x.turn) % 4) + 1]])] :
        x \in [family : {"baseline", "linear"}, turn : 0 .. 3,
               third : {Counts[i] : i \in 1 .. 4} \cup Impossible]}

PoolRows(expected, spread, orderly) ==
    {[tags |-> "summary", of |-> k, statistic |-> s,
      value |-> LET v == Measured(spread, k)
                    up == [P50 |-> v, P90 |-> v + 90, P99 |-> 2 * v + 90]
                IN  IF orderly THEN up[s] ELSE up[[P50 |-> "P90", P90 |-> "P50", P99 |-> "P99"][s]]] :
        k \in expected, s \in Pooled}

ScenarioCharts ==
    {[kind |-> "scenario ranges", expected |-> x.expected, mode |-> x.mode,
      stored |-> Stored(PoolRows(x.expected, x.spread, x.orderly), x.state)] :
        x \in [expected : {0 .. 1, 0 .. 3, 0 .. 5}, mode : {"linear", "logarithmic"}, spread : Spread,
               orderly : BOOLEAN, state : States]}

Completed(expected, spread) ==
    {[tags |-> "summary", of |-> k,
      value |-> Measured(spread, k[2] + 2 * k[3] + (IF k[1] = "10 VUs" THEN 3 ELSE 0))] : k \in expected}

CompletionCharts ==
    {[kind |-> "completion", rows |-> x.rows,
      expected |-> ProfileRows["race"] \X (0 .. x.rows - 1) \X Repeats,
      stored |-> Stored(Completed(ProfileRows["race"] \X (0 .. x.rows - 1) \X Repeats, x.spread), x.state)] :
        x \in [rows : {2, 3}, spread : Spread, state : {usual, without}]}

(* Scenarios and stacks whose labels take one line or two, each with some  *)
(* or all of the four TLS configurations.                                  *)
Labels == {<<1>>, <<2, 1>>, <<1, 2, 1>>}
TlsRowsOf(labels) == {S \in {0 .. 4 * Len(labels) - 1, {0}, {0, 3}, {1, 2, 5}} : S \subseteq 0 .. 4 * Len(labels) - 1}

TlsChartsOf(labels, available) ==
    LET runs == ProfileRows["race"] \X available \X Repeats
    IN  {[kind |-> "tls ranges", labels |-> labels, expected |-> available, mode |-> x.mode,
          stored |-> Stored(PoolRows(available, x.spread, x.orderly), x.state)] :
            x \in [mode : {"linear", "logarithmic"}, spread : Spread, orderly : BOOLEAN, state : States]}
        \cup
        {[kind |-> "tls completion", labels |-> labels, expected |-> runs,
          stored |-> Stored(Completed(runs, x.spread), x.state)] : x \in [spread : Spread, state : {usual, without}]}
        \cup
        {[kind |-> "tls bytes", labels |-> labels, expected |-> available,
          stored |-> {[tags |-> "summary", of |-> k, repeat |-> r, bytes |-> 10 * k + 100 * r + 70,
                       requests |-> requests] : k \in available, r \in Repeats}] : requests \in {0, 1, 3}}

TlsCharts == UNION {UNION {TlsChartsOf(l, S) : S \in TlsRowsOf(l)} : l \in Labels}

----------------------------------------------------------------------------
(* A dashboard table: a column for all or some executions, some of its     *)
(* cells empty, with values below the end of the axis and beyond it.       *)
Table(family, executions, unit, lull, silent) ==
    {[execution |-> e, time |-> 20 * e[2] + t,
      value |-> IF e[2] = silent \/ (t = 2 /\ lull) THEN None ELSE unit * ((e[2] + t) % 9)] :
        e \in executions, t \in 0 .. 3}

SomeExecutions(family) ==
    {{e \in ExpectedExecutions(family) : e[2] \notin absent} : absent \in {{}, {2}, {1, 4, 5}, 1 .. 9}}

WorkloadCharts ==
    UNION {{[kind |-> "workload", family |-> x.family,
             stored |-> Table(x.family, executions, x.unit, x.lull, x.silent)] :
               executions \in SomeExecutions(x.family)} :
        x \in [family : {"baseline", "linear", "race"}, unit : {350, 950}, lull : BOOLEAN, silent : {0, 6}]}

MCAsked ==
    WholeRuns \cup RaceRuns \cup BarCharts \cup FailureCharts \cup ScenarioCharts
    \cup CompletionCharts \cup TlsCharts \cup WorkloadCharts
=============================================================================
