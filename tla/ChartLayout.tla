----------------------------- MODULE ChartLayout -----------------------------
(***************************************************************************)
(* From values to marks on a page: the axes of svg.py and the layout of    *)
(* timelines.py, bars.py, scenario_tables.py, tls_charts.py and            *)
(* render-baseline-workload.py.  A mark is the rectangle a bar, a dot or a *)
(* point of a line takes up, in pixels from the top left corner; the line  *)
(* itself has no width.  Colour and text are left out, but for the place   *)
(* of a legend entry.                                                      *)
(***************************************************************************)
EXTENDS ChartData, SequencesExt

Resolution == 1000   \* steps an axis is divided into
ClipAt == 100000     \* SCENARIO_PERCENTILE_MAX_MS, 1000 ms
Highest == 400000000 \* what the nine decades of FloorLog are enough for

(* The axes.                                                               *)
CeilDiv(a, b) == (a + b - 1) \div b

(* The largest e with 10^e <= num / den, the smallest with 10^e >= v, of   *)
(* what is no less than one.                                               *)
FloorLog(num, den) == CHOOSE e \in 0 .. 8 : 10^e * den <= num /\ num \div 10 < 10^e * den
CeilLog(v) == IF v = 10^FloorLog(v, 1) THEN FloorLog(v, 1) ELSE FloorLog(v, 1) + 1

NiceStep(num, den) ==
    LET unit == 10^FloorLog(num, den)
    IN  unit * (IF num <= unit * den THEN 1
                ELSE IF num <= 2 * unit * den THEN 2
                ELSE IF num <= 5 * unit * den THEN 5 ELSE 10)

(* scale(): a linear axis is kept in tenths, so that the least maximum has *)
(* a whole step.                                                           *)
LinearAxis(max) ==
    IF max = 0 THEN [mode |-> "linear", step |-> 200, upper |-> 1000]
    ELSE LET step == NiceStep(10 * max, 6)
         IN  [mode |-> "linear", step |-> step, upper |-> CeilDiv(10 * max, step) * step]

(* value_axis(): zero stands apart on a logarithmic axis, which begins     *)
(* some decades below the least value (pad_lower_decade: one, or none).    *)
LogAxis(values, decades) ==
    LET positive == values \ {0}
        lower == FloorLog(Min(positive), 1) - decades
        upper == CeilLog(Max(positive))
    IN  [mode |-> "logarithmic", lower |-> lower,
         upper |-> IF upper <= lower THEN lower + 1 ELSE upper,
         gap |-> IF 0 \in values THEN 80 ELSE 0]

ValueAxis(values, mode, decades) ==
    IF mode = "linear" THEN LinearAxis(Max(values))
    ELSE IF values = {0} THEN [mode |-> "empty"] ELSE LogAxis(values, decades)

(* Between two powers of ten the logarithm is replaced by a straight line: *)
(* order and decades are those of the code, distances within one are not.  *)
LogPart(axis, v) ==
    LET e == FloorLog(v, 1)
    IN  ((e - axis.lower) * Resolution + ((v - 10^e) * Resolution) \div (9 * 10^e))
          \div (axis.upper - axis.lower)

Position(axis, v) ==
    IF axis.mode = "linear" THEN (10 * v * Resolution) \div axis.upper
    ELSE IF axis.mode = "empty" \/ v = 0 THEN 0
    ELSE axis.gap + ((Resolution - axis.gap) * LogPart(axis, v)) \div Resolution

Ticks(axis) ==
    IF axis.mode = "linear" THEN axis.upper \div axis.step + 1
    ELSE IF axis.mode = "empty" THEN 1
    ELSE axis.upper - axis.lower + 1 + (IF axis.gap > 0 THEN 1 ELSE 0)

Along(axis, v, left, width) == left + (Position(axis, v) * width) \div Resolution

----------------------------------------------------------------------------
Box(x1, x2, y1, y2) == [x1 |-> x1, x2 |-> x2, y1 |-> y1, y2 |-> y2]
Mark(of, value, box) == [of |-> of, value |-> value, box |-> box]

(* Marks lie in the plot of their own, plots on the page.                  *)
Page(name, width, height, axis, plots) ==
    [name |-> name, width |-> width, height |-> height, axis |-> axis, plots |-> plots]
Plot(box, marks) == [box |-> box, marks |-> marks]

(* All but the small multiples have one plot.                              *)
Sheet(name, width, height, axis, box, marks) == Page(name, width, height, axis, {Plot(box, marks)})

Place(seq, x) == (CHOOSE i \in DOMAIN seq : seq[i] = x) - 1

(* render_bars(): a section per statistic, within it a bar for each stack  *)
(* and Profile Run.  The axis is that of all profiles of the workload.     *)
Bars(profile, stacks, values, mode) ==
    LET section == 25 + Len(stacks) * 3 * 20
        height == 36 + 4 * section + 3 * 12
        axis == ValueAxis({values[k] : k \in DOMAIN values}, mode,
                          IF mode = "logarithmic" THEN 1 ELSE 0)
        width(v) == IF v = 0 THEN 52 ELSE (Position(axis, v) * 1410) \div Resolution
        top(k) == 155 + 36 + Place(Statistics, k[2]) * (section + 12) + 25
                  + (Place(stacks, k[3]) * 3 + k[4]) * 20
    IN  Sheet(profile, 1800, 155 + 55 + height, axis,
              Box(30, 1770, 155, 155 + height),
              {Mark(k, values[k], Box(350, 350 + width(values[k]), top(k), top(k) + 15)) :
                  k \in {k \in DOMAIN values : k[1] = profile}})

(* render_failure_bars(): a rate of zero is a stroke.                      *)
FailureBars(profile, stacks, rates) ==
    LET shown == {k \in DOMAIN rates : k[1] = profile}
        height == 38 + Len(stacks) * 3 * 24
        axis == LinearAxis(Max({rates[k] : k \in shown}))
        top(k) == 150 + 38 + (Place(stacks, k[2]) * 3 + k[3]) * 24
    IN  Sheet(profile, 1800, 150 + height + 55, axis,
              Box(30, 1770, 150, 150 + height),
              {Mark(k, rates[k],
                    IF rates[k] = 0 THEN Box(348, 352, top(k), top(k) + 18)
                    ELSE Box(350, Along(axis, rates[k], 350, 1410), top(k), top(k) + 18)) :
                  k \in shown})

(* render_race_completion_bars(): three bars per scenario and stack, on an *)
(* axis over all VU profiles, which must cover the values of this one.     *)
CompletionBars(profile, rows, seconds, axisValues) ==
    LET axis == LinearAxis(Max(axisValues))
        shown == {k \in DOMAIN seconds : k[1] = profile}
        top(k) == 125 + k[2] * 48 + 4 + k[3] * 13
    IN  IF \E k \in shown : seconds[k] \notin axisValues THEN None
        ELSE Sheet(profile, 1900, 125 + 55 + rows * 48, axis,
                   Box(320, 1550, 125, 125 + rows * 48),
                   {Mark(k, seconds[k],
                         Box(320, Along(axis, seconds[k], 320, 1230), top(k), top(k) + 9)) : k \in shown})

(* percentile_range_marks(): a dot for each percentile.  The lines between *)
(* them are no wider than the dots at their ends, and so are their caps.   *)
Clip(v) == IF v > ClipAt THEN ClipAt ELSE v

(* A range whose percentiles are not in order is refused.                  *)
InOrder(values, key) ==
    values[<<key, "P50">>] <= values[<<key, "P90">>] /\ values[<<key, "P90">>] <= values[<<key, "P99">>]

PercentileAxis(values, keys, mode) ==
    ValueAxis({Clip(values[k]) : k \in keys \X Pooled} \cup {ClipAt}
              \cup (IF mode = "logarithmic" THEN {100} ELSE {}), mode, 0)

Dot(x, y, r) == Box(x - r, x + r, y - r, y + r)
DotRadius(statistic) == IF statistic = "P50" THEN 6 ELSE 5

RangeMarks(axis, values, key, left, width, y) ==
    {Mark(key, values[<<key, s>>],
          Dot(Along(axis, Clip(values[<<key, s>>]), left, width), y, DotRadius(s))) : s \in Pooled}

(* render_scenario_percentile_ranges(): a row per scenario and stack.      *)
ScenarioRanges(rows, values, mode) ==
    LET axis == PercentileAxis(values, 0 .. rows - 1, mode)
        plotTop == 125 + 46
    IN  IF \E k \in 0 .. rows - 1 : ~InOrder(values, k) THEN None
        ELSE Sheet("scenario", 2200, 125 + 55 + 46 + rows * 36, axis,
                   Box(320, 1700, plotTop, plotTop + rows * 36),
                   UNION {RangeMarks(axis, values, k, 320, 1380, plotTop + k * 36 + 18) :
                             k \in 0 .. rows - 1})

----------------------------------------------------------------------------
(* render_tls_chart(): a block per scenario and stack, whose label takes   *)
(* some lines, with a row for each of the four TLS configurations.         *)
TlsRowHeightForRanges(form) == 32
TlsRowHeight(form) == IF form = "completion" THEN 48 ELSE 32

TlsHeader(lines) == lines * 20 + 14
TlsBlock(form, lines) == TlsHeader(lines) + 4 * TlsRowHeight(form) + 12
TlsBlocks(form, labels) == FoldLeft(LAMBDA sum, lines : TlsBlock(form, lines) + sum, 0, labels)

(* The rows come in the order of the pairs and of TLS_CONFIGURATIONS, else *)
(* the chart is refused; a row is that of its place in the list.           *)
TlsRowTop(form, labels, row) ==
    LET pair == row \div 4
    IN  120 + 46 + TlsBlocks(form, SubSeq(labels, 1, pair))
        + TlsHeader(labels[pair + 1]) + (row % 4) * TlsRowHeight(form)

TlsMarks(form, labels, axis, values, row) ==
    LET top == TlsRowTop(form, labels, row)
        middle == top + TlsRowHeight(form) \div 2
        x(v) == Along(axis, v, 310, 1170)
    IN  IF form = "percentiles" THEN RangeMarks(axis, values, row, 310, 1170, middle)
        ELSE IF form = "completion"
        THEN {Mark(<<row, r>>, values[<<row, r>>],
                   Box(310, x(values[<<row, r>>]), top + 5 + r * 13, top + 5 + r * 13 + 9)) : r \in Repeats}
        ELSE {Mark(<<row, "bytes">>, values[<<row, "bytes">>],
                   Box(310, x(values[<<row, "bytes">>]), middle - 7, middle + 7))}

TlsChart(name, form, labels, available, values, axisValues, mode) ==
    LET body == TlsBlocks(form, labels)
        axis == IF form = "percentiles" THEN PercentileAxis(values, available, mode)
                ELSE LinearAxis(Max(axisValues))
    IN  IF \/ form = "percentiles" /\ \E k \in available : ~InOrder(values, k)
           \/ form = "completion" /\ \E k \in available \X Repeats : values[k] \notin axisValues
        THEN None
        ELSE Sheet(name, 1900, 120 + 46 + body + 75, axis,
                   Box(310, 1480, 166, 166 + body),
                   UNION {TlsMarks(form, labels, axis, values, k) : k \in available})

----------------------------------------------------------------------------
(* The axis of elapsed seconds, in hundredths; a value is ten of them.     *)
TimeAxis(seconds) ==
    LET last == 100 * Max(seconds)
        step == NiceStep(Max({last, 100}), 8)
    IN  [mode |-> "linear", step |-> step, upper |-> Max({step, CeilDiv(last, step) * step})]

PointMark(q, times, axis, left, width, top, height) ==
    LET x == Along(times, 10 * q.second, left, width)
        y == top + ((Resolution - Position(axis, PointValue(q))) * height) \div Resolution
    IN  Mark(<<q.repeat, q.segment, q.second>>, PointValue(q), Box(x, x, y, y))

(* render_time_series()                                                    *)
TimeSeries(points, mode) ==
    LET axis == ValueAxis({PointValue(q) : q \in points}, mode, 0)
        times == TimeAxis({q.second : q \in points})
    IN  Sheet("timeline", 1800, 620, axis,
              Box(105, 1765, 92, 508),
              {PointMark(q, times, axis, 105, 1660, 92, 416) : q \in points})

(* render_race_rps_small_multiples(): a panel per Profile Run, none empty. *)
Panels(points, times, axis) ==
    LET top(r) == 105 + r * (285 + 55)
    IN  {Plot(Box(105, 1765, top(r), top(r) + 285),
              {PointMark(q, times, axis, 105, 1660, top(r), 285) : q \in {q \in points : q.repeat = r}}) :
            r \in Repeats}

SmallMultiples(points) ==
    LET axis == LinearAxis(Max({PointValue(q) : q \in points}))
        times == TimeAxis({q.second : q \in points})
    IN  IF {q.repeat : q \in points} # Repeats THEN None
        ELSE Page("race", 1800, 105 + 75 + 3 * 285 + 2 * 55, axis, Panels(points, times, axis))

----------------------------------------------------------------------------
(* render-baseline-workload.py: legend_order(), and profile_color(), which *)
(* takes the row for the hue and the column for the shade.                 *)
LegendOrder(family, execution) ==
    LET n == execution[2]
    IN  IF family = "baseline"
        THEN <<[linear |-> 0, flat |-> 1, sine |-> 2][execution[1]], (n - 1) \div 3>>
        ELSE IF family = "linear" THEN <<IF n % 2 = 1 THEN 0 ELSE 1, (n - 1) \div 2>>
        ELSE <<(n - 1) % 3, (n - 1) \div 3>>

ProfileColor(family, execution) ==
    LET n == execution[2]
    IN  IF family = "baseline" THEN <<execution[1], (n - 1) \div 3>>
        ELSE IF family = "linear"
        THEN <<IF n % 2 = 1 THEN "linear" ELSE "expandable", (n - 1) \div 2>>
        ELSE <<(<<"race-10", "race-100", "race-1000">>)[((n - 1) % 3) + 1], (n - 1) \div 3>>

(* The entries, sorted, fill rows of three under the plot.                 *)
Legend(family, executions) ==
    LET before(e, f) == \/ LegendOrder(family, e)[1] < LegendOrder(family, f)[1]
                        \/ /\ LegendOrder(family, e)[1] = LegendOrder(family, f)[1]
                           /\ LegendOrder(family, e)[2] < LegendOrder(family, f)[2]
        index(e) == Cardinality({f \in executions : before(f, e)})
    IN  {[execution |-> e, color |-> ProfileColor(family, e),
          row |-> index(e) \div 3, column |-> index(e) % 3,
          x |-> 92 + (index(e) % 3) * 547, y |-> 76 + 278 + 52 + (index(e) \div 3) * 24] :
            e \in executions}

(* render(): the axis ends where CHARTS says, not where the values do; the *)
(* times span the width, and there is no chart without a span.             *)
WorkloadMaximum == [baseline |-> 3200, linear |-> 6000, race |-> 6000]
WorkloadTick == [baseline |-> 500, linear |-> 1000, race |-> 1000]

Workload(family, points) ==
    LET first == Min({p.time : p \in points})
        span == Max({p.time : p \in points}) - first
        x(t) == 92 + ((t - first) * 1680) \div span
        y(v) == 76 + (278 * (WorkloadMaximum[family] - v)) \div WorkloadMaximum[family]
    IN  IF span = 0 THEN None
        ELSE Sheet("workload", 1800, 500,
                   [mode |-> "linear", upper |-> WorkloadMaximum[family], step |-> WorkloadTick[family]],
                   Box(92, 1772, 76, 354),
                   {Mark(<<p.execution, p.time>>, p.value, Box(x(p.time), x(p.time), y(p.value), y(p.value))) :
                       p \in points})

----------------------------------------------------------------------------
(* What is drawn on a page, and where.                                     *)
Drawings(page) == UNION {{<<plot, mark>> : mark \in plot.marks} : plot \in page.plots}
Within(inner, outer) ==
    /\ outer.x1 <= inner.x1 /\ inner.x1 <= inner.x2 /\ inner.x2 <= outer.x2
    /\ outer.y1 <= inner.y1 /\ inner.y1 <= inner.y2 /\ inner.y2 <= outer.y2
Overlap(a, b) == a.x1 < b.x2 /\ b.x1 < a.x2 /\ a.y1 < b.y2 /\ b.y1 < a.y2

(* Plots on the page, marks in their plots, and none over another.  A dot  *)
(* at either end of its axis reaches out of the plot, by its radius, and   *)
(* the dots of one row may cover each other.                               *)
Spill(ranges) == IF ranges THEN DotRadius("P50") ELSE 0
Room(box, spill) == Box(box.x1 - spill, box.x2 + spill, box.y1, box.y2)

Tidy(page, ranges) ==
    /\ \A plot \in page.plots :
        /\ Within(plot.box, Box(0, page.width, 0, page.height))
        /\ \A other \in page.plots \ {plot} : ~Overlap(plot.box, other.box)
    /\ \A d, e \in Drawings(page) :
        /\ Within(d[2].box, Room(d[1].box, Spill(ranges)))
        /\ d[2].of # e[2].of => ~Overlap(d[2].box, e[2].box)

(* What a bar that stands for zero may pass for where it is longer than a  *)
(* bar for a little: less than a twenty-fifth of a linear axis (in tenths).*)
PassesFor(axis, v, w) ==
    axis.mode = "linear" /\ v = 0 /\ w > 0 /\ 25 * (10 * w) < axis.upper
=============================================================================
