---------------------------- MODULE ChartDrawing ----------------------------
(***************************************************************************)
(* A chart on its way from the database to the page: its query, what is    *)
(* made of the answer, and the marks.  Whatever does not add up refuses    *)
(* the chart, and with it the export.                                      *)
(***************************************************************************)
EXTENDS ChartLayout

CONSTANT Asked   \* charts to be drawn, each with what InfluxDB holds for it

Modes == {"linear", "logarithmic"}
OfSummary(a) == {row \in a.stored : row.tags = "summary"}

(* What a chart is asked from: times and starts on the clock, a sample only *)
(* from an execution whose start the summary has, executions of one profile *)
(* kept apart in the query, windows that start with the run for the mean of *)
(* a whole run ...                                                          *)
TimelineData(a) ==
    /\ a.mode \in Modes /\ a.panels \in BOOLEAN
    /\ a.aggregate \in {"sum", "mean", "max"}
    /\ a.aligned \in BOOLEAN /\ (a.aligned <=> a.aggregate = "mean" /\ a.profile = None)
    /\ DOMAIN a.origins # {} /\ \A e \in DOMAIN a.origins : a.origins[e] \in Nat
    /\ IsFiniteSet(a.samples)
    /\ \A s \in a.samples : s.value \in 0 .. (Highest \div Cardinality(a.samples))
    /\ \A s \in a.samples : s.time \in Nat /\ s.execution \in DOMAIN a.origins
    /\ \A s \in a.samples, e \in DOMAIN a.origins : s.time <= a.origins[e] + Highest \div 10
    /\ a.profile # None => DOMAIN a.origins \subseteq ExpectedExecutions(a.family)

(* ... rows of the executions and stacks that are drawn, each stack once ... *)
StackData(a) ==
    /\ a.stacks # <<>>
    /\ a.stacks \in Seq(ToSet(a.stacks)) /\ IsInjective(a.stacks)

BarData(a) ==
    /\ a.mode \in Modes
    /\ \A row \in OfSummary(a) :
        /\ row.execution \in ExpectedExecutions(a.family) /\ row.stack \in ToSet(a.stacks)
        /\ row.statistic \in ToSet(Statistics) /\ row.value \in 0 .. Highest

FailureData(a) == \A row \in OfSummary(a) : row.value.failed \in Nat /\ row.value.requests \in Nat

(* ... of the pools or executions that are expected ...                     *)
PoolData(a) ==
    /\ a.mode \in Modes
    /\ \A row \in OfSummary(a) : row.of \in a.expected /\ row.value \in 0 .. Highest

CompletionData(a) ==
    \A row \in a.stored : row.tags = "summary" /\ row.of \in a.expected /\ row.value \in 0 .. Highest

(* (no more than a megabyte a request)                                      *)
Counted(row) ==
    /\ row.bytes \in Nat /\ row.requests \in Nat
    /\ row.bytes <= 1000000 * Max({row.requests, 1})

BytesData(a) ==
    \A k \in a.expected, r \in Repeats :
        /\ \E row \in a.stored : row.of = k /\ row.repeat = r
        /\ \A row \in a.stored : (row.of = k /\ row.repeat = r) => Counted(row)

Numbered(S) == Cardinality(S) \in Nat \ {0} /\ S = 0 .. Cardinality(S) - 1
TlsRows(a, S) == a.labels \in Seq(Nat) /\ S # {} /\ S \subseteq 0 .. 4 * Len(a.labels) - 1
RaceExecutions(S) == ProfileRows["race"] \X S \X Repeats

(* ... and of a dashboard panel, a column for some executions of the plan.  *)
TableData(a) ==
    \A row \in a.stored :
        /\ row.execution \in ExpectedExecutions(a.family)
        /\ row.time \in 0 .. Highest
        /\ row.value # None => row.value \in 0 .. Highest

ASSUME AskedAssumption ==
    \A a \in Asked :
        /\ a.kind \in {"timeline", "bars", "failures", "workload"} => a.family \in DOMAIN ProfileRows
        /\ a.kind = "timeline" => TimelineData(a)
        /\ a.kind \in {"bars", "failures"} => StackData(a)
        /\ a.kind = "bars" => BarData(a)
        /\ a.kind = "failures" => FailureData(a)
        /\ a.kind \in {"scenario ranges", "tls ranges"} => PoolData(a)
        /\ a.kind = "scenario ranges" => Numbered(a.expected)
        /\ a.kind \in {"completion", "tls completion"} => CompletionData(a)
        /\ a.kind = "completion" => a.rows \in Nat \ {0} /\ a.expected = RaceExecutions(0 .. a.rows - 1)
        /\ a.kind = "tls completion" =>
                LET S == {k[2] : k \in a.expected} IN TlsRows(a, S) /\ a.expected = RaceExecutions(S)
        /\ a.kind \in {"tls ranges", "tls bytes"} => TlsRows(a, a.expected)
        /\ a.kind = "tls bytes" => BytesData(a)
        /\ a.kind = "workload" => TableData(a)

VARIABLES
    asked,    \* the one of Asked that is at hand
    rows,     \* the answer to its query
    values,   \* what is to be drawn
    pages,    \* the pages, one per profile
    phase

vars == <<asked, rows, values, pages, phase>>

Init ==
    /\ asked \in Asked
    /\ rows = {} /\ values = None /\ pages = {}
    /\ phase = "asked"

FromSummary == {"completion", "tls completion", "tls bytes"}

(* exact_run_filter(), supplied_execution_filter(): rows that were stored  *)
(* under other tags than the summary's do not answer.                      *)
QueryRows ==
    /\ phase = "asked" /\ asked.kind \notin FromSummary \cup {"timeline", "workload"}
    /\ rows' = {row \in asked.stored : row.tags = "summary"}
    /\ phase' = "answered"
    /\ UNCHANGED <<asked, values, pages>>

(* cell_executions(): elapsed times and byte counters were read with the   *)
(* summary metadata.                                                       *)
TakeExecutions ==
    /\ phase = "asked" /\ asked.kind \in FromSummary
    /\ rows' = asked.stored
    /\ phase' = "answered"
    /\ UNCHANGED <<asked, values, pages>>

QueryWindows ==
    /\ phase = "asked" /\ asked.kind = "timeline"
    /\ rows' = Windows(asked.samples, asked.origins, asked.aligned, asked.aggregate)
    /\ phase' = "answered"
    /\ UNCHANGED <<asked, values, pages>>

(* The export of a dashboard panel instead of a query (load()): the cells  *)
(* without samples are left out, and neither the table nor a column of it  *)
(* must be empty.                                                          *)
LoadTable ==
    /\ phase = "asked" /\ asked.kind = "workload"
    /\ rows' = {row \in asked.stored : row.value # None}
    /\ phase' = "answered"
    /\ UNCHANGED <<asked, values, pages>>

Parsed(result) ==
    /\ values' = result
    /\ phase' = IF result = None THEN "refused" ELSE "parsed"
    /\ UNCHANGED <<asked, rows, pages>>

ParseTimeline ==
    /\ phase = "answered" /\ asked.kind = "timeline"
    /\ LET points == Timeline(rows, asked.origins, asked.family, asked.profile)
       IN  Parsed(IF points = {} THEN None ELSE points)

ParseExecutions ==
    /\ phase = "answered" /\ asked.kind \in {"bars", "failures"}
    /\ LET stacks == ToSet(asked.stacks)
       IN  Parsed(IF asked.kind = "bars" THEN Percentiles(rows, asked.family, stacks)
                  ELSE FailureRates(rows, asked.family, stacks))

ParsePools ==
    /\ phase = "answered" /\ asked.kind \in {"scenario ranges", "tls ranges"}
    /\ Parsed(PooledPercentiles(rows, asked.expected))

ParseCompletions ==
    /\ phase = "answered" /\ asked.kind \in {"completion", "tls completion"}
    /\ Parsed(Completions(rows, asked.expected))

ParseBytes ==
    /\ phase = "answered" /\ asked.kind = "tls bytes"
    /\ LET counters(k) == [r \in Repeats |-> CHOOSE row \in rows : row.of = k /\ row.repeat = r]
           bytes == [k \in asked.expected |-> BytesPerRequest(counters(k))]
       IN  Parsed(IF \E k \in asked.expected : bytes[k] = None THEN None
                  ELSE [k \in {<<k, "bytes">> : k \in asked.expected} |-> bytes[k[1]]])

ParseTable ==
    /\ phase = "answered" /\ asked.kind = "workload"
    /\ Parsed(IF rows # {} /\ {row.execution : row \in rows} = {row.execution : row \in asked.stored}
              THEN rows ELSE None)

----------------------------------------------------------------------------
Drawn(result) ==
    /\ pages' = IF None \in result THEN {} ELSE result
    /\ phase' = IF None \in result THEN "refused" ELSE "drawn"
    /\ UNCHANGED <<asked, rows, values>>

Kind(kinds) == phase = "parsed" /\ asked.kind \in kinds
ValuesOf(f) == {f[k] : k \in DOMAIN f}
OfProfile(p) == [k \in {<<k[2], k[3]>> : k \in {k \in DOMAIN values : k[1] = p}} |-> values[<<p, k[1], k[2]>>]]

DrawTimeline ==
    /\ Kind({"timeline"})
    /\ Drawn({IF asked.panels THEN SmallMultiples(values) ELSE TimeSeries(values, asked.mode)})

DrawBars ==
    /\ Kind({"bars"})
    /\ Drawn({Bars(p, asked.stacks, values, asked.mode) : p \in ProfileRows[asked.family]})

DrawFailures ==
    /\ Kind({"failures"})
    /\ Drawn({FailureBars(p, asked.stacks, values) : p \in ProfileRows[asked.family]})

DrawScenarioRanges ==
    /\ Kind({"scenario ranges"})
    /\ Drawn({ScenarioRanges(Cardinality(asked.expected), values, asked.mode)})

(* The axis of one profile's own completions.                              *)
DrawCompletionAlone ==
    /\ Kind({"completion"})
    /\ Drawn({CompletionBars(p, asked.rows, values, ValuesOf(OfProfile(p))) : p \in ProfileRows["race"]})

DrawCompletion ==
    /\ Kind({"completion"})
    /\ Drawn({CompletionBars(p, asked.rows, values, ValuesOf(values)) : p \in ProfileRows["race"]})

DrawTlsRanges ==
    /\ Kind({"tls ranges"})
    /\ Drawn({TlsChart("tls", "percentiles", asked.labels, asked.expected, values, {}, asked.mode)})

DrawTlsCompletion ==
    /\ Kind({"tls completion"})
    /\ Drawn({TlsChart(p, "completion", asked.labels, {k[2] : k \in asked.expected}, OfProfile(p),
                       ValuesOf(values), "linear") : p \in ProfileRows["race"]})

DrawTlsBytes ==
    /\ Kind({"tls bytes"})
    /\ Drawn({TlsChart("tls", "bytes", asked.labels, asked.expected, values, ValuesOf(values), "linear")})

DrawWorkload ==
    /\ Kind({"workload"})
    /\ Drawn({Workload(asked.family, values)})

Ended ==
    /\ phase \in {"drawn", "refused"}
    /\ UNCHANGED vars

Next ==
    \/ QueryRows \/ TakeExecutions \/ QueryWindows \/ LoadTable
    \/ ParseTimeline \/ ParseExecutions \/ ParsePools \/ ParseCompletions \/ ParseBytes \/ ParseTable
    \/ DrawTimeline \/ DrawBars \/ DrawFailures
    \/ DrawScenarioRanges \/ DrawCompletion
    \/ DrawTlsRanges \/ DrawTlsCompletion \/ DrawTlsBytes \/ DrawWorkload
    \/ Ended

Spec == Init /\ [][Next]_vars

----------------------------------------------------------------------------
(* Type invariant of a drawing (datasets.py, svg.py): only what adds up is  *)
(* parsed, no point lies before the start, and the pages are there once     *)
(* everything is drawn.                                                    *)
TypeOK ==
    /\ phase \in {"asked", "answered", "parsed", "drawn", "refused"}
    /\ phase = "asked" => rows = {}
    /\ phase \in {"parsed", "drawn"} => values # None
    /\ (phase \in {"parsed", "drawn"} /\ asked.kind = "timeline") =>
            \A q \in values : q.second \in Nat /\ q.segment \in Nat /\ q.windows # {}
    /\ phase = "drawn" <=> pages # {}
    /\ \A page \in pages : page.axis.mode \in {"linear", "logarithmic", "empty"} /\ page.plots # {}

(* Timelines, in terms of the samples they stand for.                      *)
OnPaper == phase \in {"parsed", "drawn"} /\ asked.kind = "timeline"
Shown(s) == asked.profile = None \/ ProfileSlot(asked.family, s.execution)[1] = asked.profile
Line(s) == IF asked.profile = None THEN None ELSE ProfileSlot(asked.family, s.execution)[2]
Start(s) == IF asked.profile = None THEN FirstOf(asked.origins) ELSE asked.origins[s.execution]
PointsOf(s) == {q \in values : \E w \in q.windows : s \in w.samples}

(* A sample is shown once, on the line of its Profile Run, in the second   *)
(* after the start it was taken in (elapsed_bucket_ns() truncates what     *)
(* aggregateWindow() has already rounded): to the second in the mean of a  *)
(* whole run, else at most one late.  What was sampled before the start    *)
(* never passes for a later second, and after the first second a point has *)
(* no more than one window of an execution in its mean.                    *)
SamplesInTheirSecond ==
    OnPaper =>
        /\ \A s \in asked.samples :
            LET elapsed == (s.time - Start(s)) \div Second
            IN  IF ~Shown(s) THEN PointsOf(s) = {}
                ELSE IF s.time < Start(s) THEN \A q \in PointsOf(s) : q.second = 0
                ELSE /\ Cardinality(PointsOf(s)) = 1
                     /\ \A q \in PointsOf(s) :
                          /\ q.repeat = Line(s)
                          /\ q.second \in elapsed .. elapsed + (IF asked.aligned THEN 0 ELSE 1)
        /\ \A q \in values : q.second > 0 =>
                \A v, w \in q.windows : v.series = w.series => v = w

(* A line runs on over everything that was seen within a minute and stops  *)
(* where more than a minute passed without a sample: what a chart shows as *)
(* running was running (the segments of parse_aggregate_rows()).           *)
LinesBreakAtGaps ==
    OnPaper =>
        \A s, t \in {s \in asked.samples : Shown(s) /\ s.time >= Start(s)} :
            (Line(s) = Line(t) /\ s.time < t.time) =>
                \A p \in PointsOf(s), q \in PointsOf(t) :
                    /\ t.time - s.time <= 60 * Second => p.segment = q.segment
                    /\ (/\ t.time - s.time >= 61 * Second
                        /\ ~\E u \in asked.samples :
                             Shown(u) /\ Line(u) = Line(s) /\ s.time < u.time /\ u.time < t.time)
                       => p.segment < q.segment

----------------------------------------------------------------------------
ShownValues == {m.value : m \in UNION {plot.marks : plot \in UNION {page.plots : page \in pages}}}
Answered == OfSummary(asked)

Upright == asked.kind \in {"timeline", "workload"}
Ranges == asked.kind \in {"scenario ranges", "tls ranges"}

(* What the summary's executions measured, and only that, has its mark     *)
(* inside the plot - a percentile dot its centre -, and no mark covers     *)
(* that of another: the heights of sections, headers and rows, which each  *)
(* renderer adds up on its own, agree.  A dashboard chart, whose axis ends *)
(* where CHARTS says, shows in its plot what is no larger, and only that.  *)
ValuesInPlace ==
    phase = "drawn" =>
        /\ asked.kind # "workload" => \A page \in pages : Tidy(page, Ranges)
        /\ asked.kind = "workload" =>
                \A page \in pages : \A d \in Drawings(page) :
                    Within(d[2].box, d[1].box) <=> d[2].value <= WorkloadMaximum[asked.family]
        /\ asked.kind \in {"bars", "completion", "tls completion"} =>
                ShownValues = {row.value : row \in Answered}
        /\ Ranges => ShownValues = {row.value : row \in {row \in Answered : row.statistic \in Pooled}}

(* How far a mark reaches from the zero of its axis, a dot by its centre.  *)
Reach(d) ==
    IF Upright THEN d[1].box.y2 - d[2].box.y1
    ELSE IF Ranges THEN (d[2].box.x1 + d[2].box.x2) \div 2 - d[1].box.x1
    ELSE d[2].box.x2 - d[1].box.x1

(* Pages a reader compares: a page with itself, and those of one chart     *)
(* where the renderer is given the values of all.                          *)
Compared(p, q) == p = q \/ asked.kind \in {"bars", "completion", "tls completion"}

(* Zero is drawn as a stub (render_bars()) or a stroke.                    *)
Stubs == asked.kind \in {"bars", "failures"}

(* The larger value is never drawn shorter, on either scale: only a zero   *)
(* on a linear scale may be longer than a value, and then one that is less *)
(* than a twenty-fifth of the axis.  Twice the value is visibly more on a  *)
(* logarithmic axis, unless both are off the scale; and an axis has a      *)
(* readable number of ticks.                                               *)
LongerMeansLarger ==
    phase = "drawn" =>
        /\ \A p, q \in pages : Compared(p, q) =>
              \A d \in Drawings(p), e \in Drawings(q) :
                (/\ d[2].value <= e[2].value
                 /\ ~(Stubs /\ PassesFor(p.axis, d[2].value, e[2].value)))
                => Reach(d) <= Reach(e)
        /\ \A page \in pages :
            IF page.axis.mode = "logarithmic"
            THEN /\ 2 <= Ticks(page.axis)
                 /\ \A d, e \in Drawings(page) :
                      (/\ d[2].value < e[2].value /\ 2 * d[2].value <= e[2].value
                       /\ ~Ranges \/ e[2].value <= ClipAt)
                      => Reach(d) < Reach(e)
            ELSE page.axis.mode = "linear" => Ticks(page.axis) \in 4 .. 7

(* The legend of a workload chart is laid out by one numbering of the      *)
(* executions (legend_order()), coloured by a second (profile_color()),    *)
(* and all other charts go by a third (profile_slot()): hue and shade tell *)
(* the profile and the Profile Run, and once no execution is missing, so   *)
(* do row and column.                                                      *)
LegendAgreesWithSlots ==
    (phase = "drawn" /\ asked.kind = "workload") =>
        LET entries == Legend(asked.family, {p.execution : p \in values})
            slot(e) == ProfileSlot(asked.family, e.execution)
            complete == {p.execution : p \in values} = ExpectedExecutions(asked.family)
        IN  \A e \in entries :
                /\ e.color[2] = slot(e)[2]
                /\ complete => e.column = slot(e)[2]
                /\ \A f \in entries :
                    /\ e.color[1] = f.color[1] <=> slot(e)[1] = slot(f)[1]
                    /\ complete => (e.row = f.row <=> slot(e)[1] = slot(f)[1])
=============================================================================
