# Where To TLS, in TLA+

Specifications, model-checking configurations and proofs for the program in
this repository: a benchmark of TLS servers in five languages, the harness that
measures them from a client VM, and the analysis that imports and charts the
results. Paths below are relative to the repository's root.

## The system

| Part | Code | State it keeps | Operations |
| --- | --- | --- | --- |
| Remote benchmark job | `scripts/bench-run.sh`, `bench-status.sh`, `bench-get.sh`; `iac/bootstrap/k6/bench-entry.sh`, `bench-publish.sh` | status file and log of a run in `/tmp`, lock file and pid file, `/etc/hosts`, artifact in the registry | launch, poll, fetch; lock, prepare the client, run, publish |
| Benchmark runner | `iac/bootstrap/k6/bench-runner.sh`, `main.js` | result directory of a run, `config.json` of k6 | compile the plan; per execution: preflight, k6, results |
| Benchmark preparation | `scripts/bench-prepare.sh` | resolved JSON of a run | read the deployed topology |
| Java server | `src/java-netty-server` | per channel: queue and set of request deadlines | read, write, time out, end of channel |
| Rust, Go, .NET 10, .NET Framework servers | `src/*-server` | listeners, connections | start, accept, handshake, request, shut down |
| Result importer | `analyze/files/import-results.sh`, `import-results.py` | InfluxDB bucket with import markers | resolve, pull, write summaries, write raw points, mark |
| Chart exporter | `analyze/exporting` | folders of SVG files, each with its sources in its metadata | select runs, query, reuse or draw and replace charts, remove obsolete ones |
| Node deployment | `iac/bootstrap/node`, `scripts/deploy-*.sh` | `config.json`, `deployment.json`, the running service | configure, pull, record, restart, health check |
| Cluster bootstrap | `iac/bootstrap/k8s`, `cloud`, `local` | join command in the key vault, cluster membership | initialise, publish, join |
| Diagnostics | `scripts/debug` | capture files, the client lock | capture, TLS shutdown test |
| Infrastructure | `iac/azure`, `charts`, dashboards | declarative | - |

How they interact. `make bench` runs preparation and launch on the workstation,
then polls. The launch leaves a detached wrapper on the client VM, which runs the
entry, which holds the client lock (shared with the TLS diagnostic) and runs the
runner and the publisher one after the other. The runner probes the target and
starts k6 against it; the servers answer it under their deadlines; somebody may
deploy the target anew at any moment. The publisher pushes the result directory to the
registry, from where `bench-get.sh` and the importer (an init container that is
restarted until it succeeds) take it. The exporter queries InfluxDB, into which
points may be imported anew meanwhile, and writes its files into folders whose readers do
not know whether it runs.

What is hard. Processes share files without a protocol of their own and may be
killed, or the VM restarted, between any two steps; a child survives the process
that started it; the poller sees only a status file, the age of a log and the
kernel log; the same run may be launched twice; a target changes between its
verification and its measurement; timers race with answers and with the end of a
channel; writes to InfluxDB and calls to Azure may take effect although they are
reported as failed. An export fails or is killed half way and is repeated; it reuses files,
shares answers of the database between charts, and receives rows in an order nobody chose.

What makes the parts correct, and where it is stated:

- Job: measurements exclude each other; only a whole, published run is reported;
  a run is published once; polling ends.
- Runner: load meets only a server that was verified to be pinned; no evidence
  and no result is taken for that of another execution; the plan is the matrix.
- Deadlines: each unanswered request has its own; no request and no timer
  outlives its time; an expiry ends its own channel only, and visibly.
- Importer: marked means complete, summaries precede raw points, the import
  converges.
- Exporter: an export that ends well leaves the charts asked for, of exactly the runs
  asked for; no reader sees half a chart; an obsolete file goes only after its successors are
  there; what may share a chart depends on the runs alone, not on any order; a sample is
  drawn in its second, a mark at its value, a gap as a gap.

## Modules

| Module | Models | Abstract specification | Proofs |
| --- | --- | --- | --- |
| `BenchJob` | remote benchmark job | `BenchOutcome` | `BenchJobProofs` |
| `BenchRunner` | runner, k6 | | `BenchRunnerProofs` |
| `RequestDeadline` | request deadline of the Java server | `RequestContract` | `RequestDeadlineProofs` |
| `ResultImport` | importer | | `ResultImportProofs` |
| `ChartPlan`, `ChartExport` | exporter: what a command has to draw; queries, files, failures and repetition | `ChartFolder` | `ChartExportProofs` |
| `Executions`, `RunSelection` | exporter: executions of a workload; which runs and rows may be drawn together | | `RunSelectionProofs` |
| `ChartData`, `ChartLayout`, `ChartDrawing` | exporter: queries and parsers; axes and marks; a chart from answer to page | | `ChartLayoutProofs`, `ChartDrawingProofs` |

`MC*` modules give the constants values for TLC. Operators whose comment says
what would go wrong with them (`HoldsLockEntryOnly`, `BusyTrapped`,
`PathUnindexed`, ...) are variants of the definition that follows, with a
plausible bug; they are not used by any specification and show that the
properties notice the bug.

### BenchJob

The constants are the launches (invocations of `bench-run.sh`), those of them
that poll, the run ids, and the number of cells (executions) in a plan. Two
launches may carry one run id. Each launch has four processes, one variable each:
`client` (workstation), `wrapper`, `entry`, and `child` (runner, then publisher).
`status`, `logAge` and `resultRef` are the files of a run in `/tmp`; `pidFile`,
`hosts`, `diagnostic` and `oomLogged` belong to the client VM; `results` and
`artifact` count the executions stored and published for a run.

An action is the code between two points where another process may see a
difference. The write of the exit code is two actions (`TruncateStatus`,
`WriteStatus`), because the redirection truncates first; the poll is two
(`PollRead` on the VM, `PollDecide` on the workstation); the publisher is two
(`Push`, `PrintReference`). The lock is not a variable: `HoldsLock` says who has
descriptor 9 open, which includes a runner or publisher whose entry was killed.
`KillEntry`, `KillWrapper`, `OomKillsK6` and `Reboot` may happen at any moment;
after a reboot `/tmp` may or may not be empty. The length of the log silence is
counted in ticks up to `StaleAfter + 1`; older logs are all alike.

Three simplifications. `results` counts the executions the runner has been through: one
that left no summary (`bench-runner.sh:374`) counts too, so `CompleteMeansPublished` says that the whole
plan ran, not that each execution left a record; `BenchRunner` has that case, and `ResultImport` what follows from it. When a second launch of a run truncates the log under a
process that is still writing to it, the file becomes sparse and `grep -o` may no
longer print the reference; the model keeps the reference readable, so `Fetch`
may happen more often than in reality. And the JSON file that all runs of a
workstation share (`BENCH_RUN_CONFIG`) is not modelled: a launch knows its run.

### BenchRunner

A matrix has combinations (endpoint, HTTP version, resumption, reuse), profiles, a
warm-up and repeats. Combinations and profiles are represented by what file names
show of them, which may be the same for two (`MatricesAssumption`). `Plan` is `execution_plan`:
the warm-ups, then profile by profile and repeat by repeat, flattened. The
loop is `NextExecution` (config.json and a new preflight), `Probe` (one connection
of `verify_tls_group`), `WriteVerified`, `StartLoad` (the gate in `main.js`),
`EndLoad` (raw points, `handleSummary`), `AppendRecord`. `Redeploy` changes the server
behind the target's address between any two steps; `stable` remembers whether
that has happened since the preflight of the current execution began. How a
server picks a group is `Negotiate`: pinned, preferring one, or following the
client. A missing summary (`EndLoad`, second disjunct) is passed over as in line 374.

### RequestDeadline

A channel is an HTTP/1 connection or one stream of an HTTP/2 connection;
`protocol` is chosen once, since all channels of an instance are of one kind.
A step is one task on the event loop. `awaiting`, `pending` and `armed` are
`awaitingResponse`, `pending` and the timers still scheduled; a deadline bears
the number of its request. `outbound` holds the writes whose promises are
incomplete: promises complete in order, successfully or not, before or after
the channel ends. Netty is modelled by what the handlers rely on: the
aggregator handles one request at a time and may answer `100 Continue` or 413
by itself; `SslHandler` goes on decrypting while the channel closes; closing a
stream omits RST_STREAM once END_STREAM was received and is queued.

### ResultImport

`pc` is where the importer is, `todo` what its loop has still to visit. `tag`
is the registry, `bucket` and `markers` are InfluxDB: a point is identified by
measurement, tags and time, so a repeated write changes nothing. `written` is the
number of writes done per cell; write 0 is the summary, the others are raw
batches. A write may be applied and reported as failed. An artifact may be bad in three ways: `BadRecords`, `BadRaw`, and
`NoRecord`, a raw file whose record is missing since the runner passed over a missing summary
(`bench-runner.sh:374`). The last is not missed when the summaries are written: it raises in the pool
(`import-results.py:227`) while the raw points of other cells are written. `Crash` loses all but the
bucket; `Redeploy` changes the image list and `IMPORT_SKIP_WARMUP`; `Retag` pushes
another artifact under a reference, at the places of the importer in `RetagAt`. Sources other than artifact images carry no
markers and are not modelled.

### ChartPlan, ChartExport

`ChartPlan` says what one command line has to draw. A request is mode, runs, charts,
types, scale and the switches; it falls into groups (one output folder each), a group into cells
(charts that are rendered together, with the files of earlier versions they replace). A
file name is the record of its parts. `Recorded` is what the metadata of a file names,
`Sources` the runs it is drawn from, `Matches` the test that lets `--skip-existing` reuse it.

`ChartExport` is the process. `phase` is where it is, `made` the charts written or found,
`fetched` the answers it keeps, each with the generation (`db`) of the points it shows. `Query` asks for
one run; `Render` makes all charts of a cell from answers that are complete; `OpenTemporary` and
`Replace` are the two halves of `write_svg`; `RemoveObsolete` comes after. `QueryFails` and `Kill`
end the process, `Import` replaces points of a run, `Retry` gives the same command again and
`Command` another. An import is one step here; its batches, and a bucket that holds only some of them, are
in `ResultImport`. An export that meets such a bucket is refused where rows of an execution are missing altogether
(`RunSelection`, `ChartDrawing`); of raw points that are yet to come it knows nothing. One process runs at a time: two would write the same temporary path,
which the code does not guard against and the model leaves out. `ChartFolder` is what
a reader may rely on: sound charts appear, and an obsolete file goes once the charts
that replace it are there.

### Executions, RunSelection

The rows of the supplied runs are read one by one, runs and rows in any order, and put into
cells; `agreed` is what was first said of a subject (the scenario of a run, the settings of a
chart) and is compared with whatever comes later. `Inputs` are sets of runs with their rows,
as imported or with one thing amiss with one run: a row missing, doubled, retagged,
unproven, without requests, without raw points. A verdict is accepted or rejected; in detailed mode it covers
all supplied runs at once, whereas `validate_sources` is called for one comparison right before its
export (`exporter.py:131`), so that charts of an earlier comparison may be there when a later one is refused.
`SelectionAssumption` says what the queries guarantee: finitely many rows, of the supplied
runs only.

### ChartData, ChartLayout, ChartDrawing

`ChartDrawing` has four steps: rows that answer the query, values made of them (or refusal),
marks, end. `ChartData` holds the windows of the Flux queries, the parsers that
align repeats by elapsed time and the statistics; `ChartLayout` holds the axes and, for each of
the chart forms, the rectangles that bars, percentile dots and points of a line take up. It is kept in
pixels, since what can go wrong there is a height added up in two ways or a stub longer than a bar.
A sample has a value, a window the sum, mean or maximum of its samples, and a point the mean of its windows.
Times are half seconds, values hundredths (means are cut off there) and linear axes tenths of these, so that the least
maximum still has whole steps; floating-point results are the exact
rationals they stand for; a logarithmic axis is exact at decades and linear between
them. Of the text on a page only the place of legend entries is modelled.

`AskedAssumption` says what a chart is asked from: a known workload, samples only of
executions whose start the summary has, executions of one profile told apart by the query,
and in a dashboard table columns for executions of the workload, for some or all; and, per chart form, which rows are
drawn, each from known executions, stacks, pools or cells. Some of its bounds are
of the model: values end at `Highest` (four million milliseconds, seconds, requests or bytes, in hundredths: the
nine decades of `FloorLog` reach no further), times at a tenth of it after each start, and a request has no
more than a megabyte on the wire. Values of a dashboard table may exceed the end that `CHARTS` in
`render-baseline-workload.py` sets for their axis, as nothing in the code keeps them below it.

What the properties say of the edges. A percentile dot at zero or at the clipping limit reaches five or
six pixels out of its plot (`Spill`), so `ValuesInPlace` asks for its centre to be inside, and for everything else
to be inside as a whole. `render_bars` draws zero as a stub of 52 px (`bars.py:122`), which on a linear axis is longer than
a bar for a small value. `LongerMeansLarger` excepts just that (`PassesFor`): a zero, on a linear axis, against a
positive value of less than a twenty-fifth of the axis, and so bounds what a stub can be taken for; on a
logarithmic axis, and between any other two values, there is no exception. A sample of a dashboard above
the end of the axis is drawn above the plot: the property says that this happens to those and to no others.
`LegendAgreesWithSlots` asks for colours whatever executions a table has, and for rows and columns when it has them
all: entries move up into the places of missing ones.

Where the mean of a whole run is asked
for, all executions share the windows; for a sum or a maximum each has windows of its own, labelled
by the clock, and two that meet in one elapsed second are averaged (`parse_aggregate_rows`).
`SamplesInTheirSecond` therefore speaks of the windows of one execution.

## Runs

| Run | Instance | States | Shows |
| --- | --- | --- | --- |
| `bench_job` | 2 launches, 2 runs, 2 cells, 1 poller | 3.4 M | `ExclusiveMeasurement`, `CompleteMeansPublished`, `LiveOwnerNamed` |
| `bench_poll` | 2 launches of 1 run, 1 cell | 0.5 M | `PollingEndsUnlessTorn`; refinement of `BenchOutcome` |
| `bench_runner` | 3 matrices, 4 targets, 8 deployments | 42 k | `LoadMeetsPinnedServer`, `FreshEvidence`, `ResultsPerExecution`, `JsonlInPlanOrder`, `PlanCoversMatrix` |
| `request_deadline` | 2 channels, 2 requests each, timeout 2 | 0.18 M | deadline invariants; refinement of `RequestContract` |
| `request_settle` | 1 channel, 3 requests | small | `RequestsSettle` |
| `result_import` | 2 images, 3 digests (1 malformed, 1 without a record), 2 cells (1 warm-up), 2 batches, 1 fault, retags between imports | 0.58 M | `MarkedIsComplete`, `SummariesComeFirst`, `BucketGrowsAsAsked`, `ImportConverges` |
| `chart_export` | 6 runs (2 scenarios, 2 TLS configurations, 2 workloads), 7 command lines, 2 commands, 1 fault, 1 import | 0.28 M | `DoneIsAsAsked`, `FreshUnlessSkipping`, `ObsoleteGoesLast`, `ExportConverges`; refinement of `ChartFolder` |
| `run_selection` | 11 runs, 78 inputs | 42 k | `OrderNeverMatters`, `EveryRowCounted`, `OnlyComparablePooled` |
| `chart_drawing` | 7,322 charts of all forms | 29 k | `SamplesInTheirSecond`, `LinesBreakAtGaps`, `ValuesInPlace`, `LongerMeansLarger`, `LegendAgreesWithSlots` |
| `bench_poll_torn` | 1 launch | | refutes `PollingEnds` |
| `bench_oom` | 2 launches, 2 runs | | refutes `OomVerdictTruthful` |
| `import_retag` | 1 image, 2 digests, retags at any time | | refutes `AlreadyImportedIsTrue` |

Bounds. Two launches are the least that can collide, and two runs the least whose
targets differ; the proofs cover any number. Two cells are the least plan that can be
left half executed. With `StaleAfter = 0` any tick without output is
already silence, the worst case for a poller. Two requests per connection are the least
that can be answered out of step (three where there is one channel), and a timeout of two ticks separates
"young", "due" and "overdue". The matrices hold two executions with the same name
but for the index, a race, and a warm-up. In the importer one digest is bad in two cells and one
lacks a record, and a fault comes on top of the failures these cause: imports fail, are repeated and fail again.

The command lines of `chart_export` are those that collide: every mode for a set of runs and
for another that shares files with it, on both scales, with and without `--skip-existing`,
over folders with a file of an earlier version. Two commands are the least where one meets files of
another, one fault the least that leaves work half done. In `run_selection` each input differs from
a drawable one in one respect, so that no second fault masks the first; the rows of a run
are read in every order. `chart_drawing` takes samples on, before and after a
boundary of a second, at the start of a run and about the minute that breaks a line, for starts
on and between seconds, with a second execution that begins later or in the very second the
first one ends, samples of nothing and of less than one, values on both sides of zero, of a decade and of
the clipping limit, bars of which some are zero and some small, and dashboard tables that lack
executions or go beyond their axis.

Symmetry is used where constants are interchangeable and no liveness property is
checked: runs in `bench_job`, channels in `request_deadline`.

Deadlock. It is checked in `bench_runner`, `run_selection` and `chart_drawing`, where only a
verdict or a finished page may be final (a stuttering step stands for it). The other models may
stop, since processes end, peers leave and faults run out; `CHECK_DEADLOCK` is off in those.

Fairness. `BenchJob`: the poll loop and the clock go on, nothing else; nothing
obliges a process on the VM to make progress. `RequestDeadline`: the clock, the event loop for
timers that are due, and the transport that completes a close (`SslHandler` bounds
its close_notify); the peer owes nothing. `ResultImport`: the kubelet restarts the
init container and the importer proceeds; faults are finite. `ChartExport`: the process
goes on, and a command that failed or was killed is repeated (`Retry`): that is what an
operator does who wants the charts; nothing in the code does it. Faults are finite.

### What the refuted properties show

- `PollingEnds`: a wrapper that dies between truncating and writing the status
  file (`bench-run.sh:39`) leaves it empty. The remote script does not look at
  the log then, and `bench-status.sh:55` takes the empty answer for RUNNING, so
  the poll never ends. `PollingEndsUnlessTorn` shows that this is the only way.
- `OomVerdictTruthful`: `bench-status.sh:33` searches all of dmesg, so the OOM kill
  of an earlier run makes a later, silent run "killed by the kernel OOM killer".
- `AlreadyImportedIsTrue`: the importer resolves a digest, pulls the reference and
  marks the digest. If the reference is pushed again in between, the old digest counts
  as imported although its points are not there.

## Proofs

There are eight proof modules: one per component, and `ChartLayoutProofs`, the lemmas about axes and
layouts that `ChartDrawingProofs` rests on. They hold for every value of the constants that satisfies the
assumptions named in the module they are about, and rest on nothing else but the library. Each of the first seven gives an
inductive invariant `IInv`, lemmas about its parts (one proof step per action of
`Next`), `Invariance == Spec => []IInv`, and the properties as consequences.

`BenchJobProofs`: any sets of launches and runs, any number of cells. The
properties of the `bench_job` run are not inductive: they speak of a child and
of results, while what permits a child to act is the lock of its entry. `IInv` adds

- `LockInv`: at most one launch holds the lock, through its entry or through a child that
  survived it, and none while the diagnostic runs;
- `StageInv`: how far wrapper, entry and child of a launch can be apart; no child before
  `Transform`, an exit code once the entry has ended;
- `MeasureInv`: while a runner lives, `/etc/hosts` is of its run and the run's directory
  holds exactly the cells this runner has done;
- `PublishInv`: whatever reports success (a pushed child, an exit code, a status file, an
  answer, a printed reference, a fetched result) does so of a whole artifact.

`Implementation` uses the same invariant: `Push` is `Publish`, the poller's
decisions are verdicts, all else stutters (`OutcomeStep`).

`RequestDeadlineProofs`: any channels, requests per channel and timeout, HTTP/1 and
HTTP/2. That an answer cancels the deadline of its own request, and no other,
hangs on the order of the queue and on what the promises carry:

- `QueueInv`: requests are read in order, only one waits for its body, and
  `awaitingResponse` holds the deadline of that one or nothing;
- `WriteInv`: a final response in flight carries the deadline of the request it
  answers, and no two answer the same one; an informational one carries none;
- `ArmedInv`, `AgeInv`, `CauseInv`: timers, ages and causes in step with the requests.

`ReadHeadEffect`, `ReadLastEffect`, `WriteCompletesEffect` say what the three actions that
touch the queue come down to under `IInv`, and `Refinement` maps reading a head to
`Arrive`, a settling promise to `Answer`, a deadline to `Expire` (or to nothing, when
the channel has a cause already), the end of a channel to `Drop`.

`BenchRunnerProofs`: any matrices, targets and deployments. What the preflight learns is
true only while the target stays (`stable`), and `config.json` is one file for all
executions, so the invariant follows both through the loop:

- `PinInv`: which handshakes have been answered at each probe, as long as nothing was deployed;
  the three answers together leave only a pinned policy, which is the heart of
  `LoadIsPinned`;
- `EvidenceInv`: what `config.json` and the evidence are at each place, in particular that
  no evidence of the execution before is left when a preflight begins;
- `FileInv`, `JsonlInv`: files bear the number of their execution, `raw.jsonl` lists none
  twice and none before its turn. `PathInjective` is why names that look alike do not collide;
- `PlanInv`: the plan is that of the matrix.

`PlanIsTheMatrix` is about the plan as a sequence, built by flattening twice. What
`FlattenSeq` makes of blocks of any number and length is by induction, which is done
once: the library's induction theorems take an operator, so `SetInduction` states
induction as a fact about sets (the set of lengths for which a claim holds), from the
well-foundedness of the naturals, and `FlattenSeqFlattens` concludes that every place of every
block appears once, in order. `WarmupsListed` and `MeasuredListed` apply it to the two parts.

`ResultImportProofs`: any images, digests, cells, batches and faults. `PhaseInv` says what the
importer works on at each place, `WriteInv` (`SummaryInv`, `RawInv`, `RecordInv`) that what
it counts as written is in the bucket: without it nothing ties the marker, which is
written last, to the writes before. `MarkedComplete` needs one assumption more,
`QuietWhilePulling`: no reference is pushed again between resolution and pull. The
run `import_retag` shows what happens otherwise, `result_import` checks under it.

`ChartExportProofs`: any runs, profiles, command lines, initial folders, commands, faults and
imports. Lemmas about the plan come first: groups differ in their folders (`PlanShape`), charts
that share an answer have the same sources (`SharedAnswer`), what a file records determines its
sources (`RecordedSources`), and what a cell retires is replaced by its charts
(`PlanObsolete`). The invariant then has

- `FolderInv`, `MadeInv`, `SettledInv`: every file is sound or obsolete; what counts as made is in
  place as asked for; and stays so while later groups are exported;
- `CellsInv`: each cell is done, at hand or still to come;
- `AnswerInv`, `ContentsInv`: answers are of the runs their charts are drawn from, no older than
  the command, and complete but for the queries still to be made; so what is rendered is.

`FolderImplemented` maps `Replace` to `Publish`, `RemoveObsolete` to `Retire`, all else to a stutter.

`TypeCorrect` of this module needs no more than that files, answers and the chart in the temporary
file name supplied runs and imports.

`RunSelectionProofs`: any runs, stacks, configurations and rows, complete or not, in every
order of reading. The properties compare a verdict with what the data deserve as a whole, while
the code reads row by row and compares each with what was said first. `IInv` closes that gap:
what is placed is what the rows read so far say (`SeatsTaken`, `RowsTaken`); each subject of `agreed` was said by a row that
was read, and all rows read agree with it; every cell that is no longer waited for is complete.
Once everything is read this is a statement about sets, in which no order is left
(`VerdictByDataAlone`); that no row is passed over is a count (`NothingPassedOver`: as many places
as rows, by the cardinality of images). `PooledIsComparable` rests, in scenario mode,
on `TaggedOnce`, which the property names: the rows of a run bear one set of tags. The other modes
test it; scenario mode does not (see the end of this file).

`ChartDrawingProofs`: any charts within `AskedAssumption`: any number of samples at any time,
before or after the start, with windows by the clock or by the run, and any values on any number of stacks,
scenarios and TLS cells. `DrawingInvariant` has three parts. `IInv` says that a timeline is
made of the windows of its own samples and that a workload chart has samples, of known executions only; `Types` what
holds by the phase; `Filed` that answers are those of the chart's own query, values those of these rows, and pages
drawn from these values by the renderer of its kind.

On timelines (`SamplesKeepTheirSecond`, `LinesAreWhole`) and legends (`LegendsAgree`) the rest is about the operators:

- `TimelineIs`: the points of a timeline are the `PointFor` of its samples, so what holds of a
  window holds of each sample in it (`WindowTells`, `PointOfSample`);
- `SecondsOf`, `SecondsSteady`, `SecondsTell`: arithmetic of rounding twice, first by the
  database and then from the start. A point is late by one second at most, the later of
  two samples is never shown earlier, and after the first second a window is told by its second;
- `RunsOn`, `StopsAtGap`: within a minute the set of gaps before a point stays the same; over a
  gap it grows by the point itself, so the segment (a cardinality) is larger;
- `Slots`, `SlotsApart`, `OrdersAndColors`, `Indexes`: each execution of each workload has a profile
  and a repeat, and the three numberings agree on them (`ColoursAre`, `PlacesAre`). The index of a legend entry, which the model
  counts, is the place given by a bijection.

On axes and layouts (`LongerIsLarger`, `ValuesKeepTheirPlace`) two notions carry the argument. Pages are a `Reading`
when the length of each mark is a function of its value (`Measures`) that keeps the order of values, but for the stubs, and, on a
logarithmic axis, tells a value from its double (`Tells`); and they are `Clear` when besides all marks lie in their plots and
apart (`Tidy`). `ReadingTells` and `OrderIsLonger` draw the property from it, and the rest shows that each form is clear,
or a reading that shows values up to the end of its axis (`ShowsUpTo`):

- the axes: `FloorLogIs`, `NiceStepIs` and `LinearAxisIs` (four to seven ticks for every maximum),
  `LogAxisSpans` (the axis covers its values), `ClimbSteady`, `LogPosition` (a doubling is at least four of the
  thousand steps of an axis, which is a pixel or more on every plot; a twenty-fifth of a linear axis is forty steps,
  more than a stub), packed as `Reads(axis, values)` by `ValueAxisReads`;
- the forms: `BarsAre`, `FailureBarsAre`, `CompletionBarsAre`, `ScenarioRangesAre`,
  `TlsRangesAre`, `TlsBarsAre`, `TimeSeriesIs`, `SmallMultiplesIs`, `WorkloadIs`: where the marks of a form are, that
  they fit and stand for exactly the values at hand. `RowsFit` and `RangesFit` hold what several of them share,
  marks in rows that lie apart (`BarTops`, `FailureTops`, `CompletionTops`, `TlsTops`);
- the blocks of the TLS charts are a fold over label heights: `SumIsFold` and `BlocksFold` tell its value from
  a function that adds one item at a time, which exists by induction (`AddsExists`, from `SetInduction`),
  and `TlsGrow` bounds each row by the block of its section;
- the data: `StacksAre`, `BarValuesAre`, `RatesAre`, `PoolsAre`, `CompletionsAre`, `BytesAre`, `TimelineFits`
  show that what the parsers return is within `Highest` and is the rows of the summary, one value for each key;
  `BarsInOrder` to `WorkloadInOrder` put data and form together, and `DrawnInOrder` all of them.

Charts of one profile each that share an axis are compared with each other, which needs more than a clear page:
`DrawCompletion` gives the axis the values of all profiles, `OfRace` and `OwnMarks` say whose marks are on which page. This
is what fails when each page has the axis of its own values.

Three facts came out of these proofs and are in the model: a linear axis in whole units rounds the
steps of the least maxima (hence tenths), a dashboard table whose samples were all taken at one moment has no
time axis (`Workload` is refused there, as the division by its span is in the code), and each
renderer relies on bounds that only `AskedAssumption` states.

Only model-checked: liveness (`PollingEndsUnlessTorn`, `RequestsSettle`, `ImportConverges`,
`ExportConverges`), which is out of the prover's reach. All safety and action properties of the
passing runs, and the refinements of `BenchOutcome`, `RequestContract` and `ChartFolder`, are proved.

## Not modelled

- Rust, Go and .NET servers, and the start and shutdown of the Java server: straight
  start-up code around hyper, rustls, net/http, Kestrel, IIS and Netty. Their connection handling and
  timeouts are those of the libraries, which are not in the repository. That a Rust process ends when
  one of its listeners does (`server.rs:47`) is the one hazard there; a model of it
  would restate `select!`.
- Node deployment (`iac/bootstrap/node`, `scripts/deploy-*.sh`): a straight sequence of commands.
  What it means for a run is `Redeploy` in `BenchRunner`. The record a run keeps of its
  target (`configure-linux-app.sh:143`, `bench-prepare.sh:128`) may name an image that was never
  measured; nothing in the code promises otherwise.
- Cluster bootstrap: waits for a secret and calls kubeadm.
- Benchmark preparation: reads the topology once and writes the JSON that `BenchJob` and
  `BenchRunner` take as given. The Makefile beyond `bench` and `bench-run`.
- Network capture, and the TLS diagnostic but for its use of the client lock.
- OpenTofu modules, Helm charts, dashboards, image builds: declarative.
- The importer's `--results-dir`, `--artifact-dir`, `--summaries-only` and
  `--check-tls-comparison`.
- Of the exporter: titles, colours, number formats, tick labels, the token file,
  `--list-charts`, and the charts of active VUs in `render-baseline-workload.py`, which differ in
  the maximum of their axis only.
- The shape of the load within an execution, and TLS itself.

Hazards without a property: the record of the target above, and an error table in an answer of
InfluxDB that began with 200 (`influx.py:49`): when the server breaks off in this way is not in
the source.

Seen while modelling, and not claimed by any document of the repository:

- Only TLS mode compares the scale when it reuses a file, as the help of `--skip-existing`
  says; after a change of scale the other modes keep what they find.
- Scenario mode does not ask whether the rows of a run bear one set of tags; detailed and TLS mode
  do. It accepts a single run that was imported under two scenario tags, and compares it with itself.
  Where an import of two runs broke off under a common tag and each was then imported under a tag of
  its own, the executions left under the common tag may complement each other: the group is accepted,
  and its pools mix the two runs. `OnlyComparablePooled` does not hold without its `TaggedOnce`.
- A timeline of sums or maxima labels a second of the clock by its end, and may lag the
  elapsed second by one. Where two executions were sampled in the same second of the clock, one
  ending and the next beginning, the chart shows the mean of their sums instead of the sum.
- On a linear axis a bar for zero is 52 px long: all of them where all values are zero, and longer than those of
  values below a twenty-seventh of the axis where only some are.
- Percentile dots at either end of an axis are drawn five to six pixels out of the plot, samples of a dashboard beyond
  the end of its axis above it, and where executions are missing from a dashboard's table the legend closes ranks,
  so that its rows and columns no longer stand for profiles and Profile Runs.
