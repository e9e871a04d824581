------------------------------ MODULE ChartData ------------------------------
(***************************************************************************)
(* From samples in InfluxDB to what a chart shows: the queries of          *)
(* influx.py and the parsers of datasets.py.  Times are half seconds, the  *)
(* coarsest grid on which a run may begin within a second; values are      *)
(* hundredths of a millisecond, a second, a percent or a byte.             *)
(***************************************************************************)
EXTENDS Executions, Integers, FiniteSetsExt

CONSTANT None   \* no repeat, no execution, or no result

Second == 2

SumOf(f, S) == FoldSet(LAMBDA x, sum : f[x] + sum, 0, S)

----------------------------------------------------------------------------
(* aggregate_time_series_query(): the mean of a whole run is taken in      *)
(* windows that start with the run and go by their start ...               *)
StartLabelOfClock(time, origin) == (time \div Second) * Second

StartLabel(time, origin) ==
    LET offset == origin % Second
    IN  ((time - offset) \div Second) * Second + offset

(* ... everything else in seconds of the clock, which go by their end.     *)
StopLabel(time) == (time \div Second + 1) * Second

FirstOf(origins) == Min({origins[e] : e \in DOMAIN origins})

(* fn: of aggregateWindow().  Values are kept in hundredths.               *)
Aggregate(fn, samples) ==
    LET total == SumOf([s \in samples |-> s.value], samples)
    IN  IF fn = "sum" THEN total
        ELSE IF fn = "mean" THEN total \div Cardinality(samples)
        ELSE Max({s.value : s \in samples})

(* A window, with the samples it is computed from.                         *)
Windows(samples, origins, aligned, fn) ==
    LET label(s) == IF aligned THEN StartLabel(s.time, FirstOf(origins)) ELSE StopLabel(s.time)
        series(s) == IF aligned THEN None ELSE s.execution
        members(s) == {t \in samples : series(t) = series(s) /\ label(t) = label(s)}
    IN  {[series |-> series(s), time |-> label(s), samples |-> members(s),
          value |-> Aggregate(fn, members(s))] : s \in samples}

(* elapsed_bucket_ns(): rounded toward the origin.                         *)
ElapsedSecond(time, origin) ==
    IF time >= origin THEN (time - origin) \div Second
    ELSE -((origin - time) \div Second)

(* parse_aggregate_rows(): timelines of a race show the executions of one  *)
(* profile, each from its own start; the others the run as a whole.        *)
RepeatOf(w, family, profile) == IF profile = None THEN None ELSE ProfileSlot(family, w.series)[2]

OnTimeline(w, family, profile) == profile = None \/ ProfileSlot(family, w.series)[1] = profile

SecondOf(w, origins, profile) ==
    ElapsedSecond(w.time, IF profile = None THEN FirstOf(origins) ELSE origins[w.series])

PointsFromBefore(windows, origins, family, profile) ==
    LET shown == {w \in windows : OnTimeline(w, family, profile)}
        place(w) == <<RepeatOf(w, family, profile), SecondOf(w, origins, profile)>>
    IN  {[repeat |-> place(w)[1], second |-> place(w)[2],
          windows |-> {v \in shown : place(v) = place(w)}] : w \in shown}

Points(windows, origins, family, profile) ==
    LET shown == {w \in windows : /\ OnTimeline(w, family, profile)
                                  /\ SecondOf(w, origins, profile) >= 0}
        place(w) == <<RepeatOf(w, family, profile), SecondOf(w, origins, profile)>>
    IN  {[repeat |-> place(w)[1], second |-> place(w)[2],
          windows |-> {v \in shown : place(v) = place(w)}] : w \in shown}

(* The line is broken where nothing was seen for more than a minute.       *)
BreakAtMinute(p, q) == q.second - p.second >= 60
Break(p, q) == q.second - p.second > 60

Previous(q, points) ==
    LET before == {p \in points : p.repeat = q.repeat /\ p.second < q.second}
    IN  {p \in before : \A o \in before : o.second <= p.second}

Segment(q, points) ==
    Cardinality({o \in points : /\ o.repeat = q.repeat /\ o.second <= q.second
                                /\ \E p \in Previous(o, points) : Break(p, o)})

Timeline(windows, origins, family, profile) ==
    LET points == Points(windows, origins, family, profile)
    IN  {[repeat |-> q.repeat, second |-> q.second, windows |-> q.windows,
          segment |-> Segment(q, points)] : q \in points}

(* A point shows the mean of its windows.                                  *)
PointValue(q) == SumOf([w \in q.windows |-> w.value], q.windows) \div Cardinality(q.windows)

----------------------------------------------------------------------------
(* parse_percentiles(), parse_failure_rates(), parse_pooled_percentiles()  *)
(* take one row for each identity they expect and skip foreign ones.       *)
Exact(rows, keyOf, expected) ==
    LET read == {row \in rows : keyOf[row] \in expected}
    IN  IF {keyOf[row] : row \in read} # expected \/ \E x, y \in read : x # y /\ keyOf[x] = keyOf[y]
        THEN None
        ELSE [k \in expected |-> (CHOOSE row \in read : keyOf[row] = k).value]

ProfileRows ==
    [baseline |-> {"Linear", "Flat", "Sine"},
     linear   |-> {"Fixed 100 VUs", "Expandable to 1,000 VUs"},
     race     |-> {"10 VUs", "100 VUs", "1,000 VUs"}]

Statistics == <<"P01", "P50", "P90", "P99">>
Pooled == {"P50", "P90", "P99"}

(* percentile_query(): a row per execution of a run and statistic, of the  *)
(* executions that have samples.                                           *)
Slot(family, row) == ProfileSlot(family, row.execution)

Percentiles(rows, family, stacks) ==
    Exact(rows,
          [row \in rows |-> <<Slot(family, row)[1], row.statistic, row.stack, Slot(family, row)[2]>>],
          ProfileRows[family] \X {Statistics[i] : i \in 1 .. 4} \X stacks \X Repeats)

(* failure_rate_query(): failed and completed requests of each execution,  *)
(* a sum each; without completed requests there is no rate.                *)
FailureRates(rows, family, stacks) ==
    LET counts == Exact(rows,
                        [row \in rows |-> <<Slot(family, row)[1], row.stack, Slot(family, row)[2]>>],
                        ProfileRows[family] \X stacks \X Repeats)
    IN  IF counts = None THEN None
        ELSE IF \E k \in DOMAIN counts : counts[k].requests = 0 \/ counts[k].failed > counts[k].requests
        THEN None
        ELSE [k \in DOMAIN counts |-> (counts[k].failed * 10000) \div counts[k].requests]

(* pooled_percentile_query(): the three executions of a row as one pool.   *)
PooledPercentiles(rows, expected) ==
    LET read == {row \in rows : row.statistic \in Pooled}
    IN  Exact(read, [row \in read |-> <<row.of, row.statistic>>], expected \X Pooled)

(* execution_elapsed_seconds()                                             *)
Completions(rows, expected) ==
    LET seconds == Exact(rows, [row \in rows |-> row.of], expected)
    IN  IF seconds = None THEN None
        ELSE IF \E k \in expected : seconds[k] <= 0 THEN None ELSE seconds

(* pooled_byte_values(): the bytes of three executions over their requests. *)
BytesPerRequest(counters) ==
    LET total(field) == SumOf([k \in Repeats |-> counters[k][field]], Repeats)
    IN  IF total("requests") = 0 THEN None ELSE (total("bytes") * 100) \div total("requests")
=============================================================================
