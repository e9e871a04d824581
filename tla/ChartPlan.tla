----------------------------- MODULE ChartPlan -----------------------------
(***************************************************************************)
(* What one call of export-tls-result-svgs.py has to draw: the files of    *)
(* its three modes, the runs a file is drawn from and names in its         *)
(* metadata, and when a file that is already there is good enough.         *)
(*                                                                         *)
(* A file name is the record of the parts it is put together from: two     *)
(* files differ iff a part does.                                           *)
(***************************************************************************)
EXTENDS Naturals

CONSTANTS
    Runs,        \* benchmark runs with metadata in InfluxDB
    ScenarioOf,  \* the scenario of a run,
    ConfigOf,    \* its TLS version and group
    FamilyOf,    \* and its workload, which is part of the run id
    Profiles,    \* the profiles of a workload
    None         \* a part that a name does not have

Families == {"baseline", "linear", "race"}
SummaryMetrics == {"http", "tls"}
ByteMetrics == {"sent", "received"}
Scales == {"logarithmic", "linear"}
Modes == {"detailed", "scenario", "tls"}

ASSUME PlanAssumption ==
    /\ FamilyOf \in [Runs -> Families]
    /\ None \notin SummaryMetrics \cup ByteMetrics
    /\ \A r \in Runs : ScenarioOf[r] # None

(* A request is the command line: mode, run ids, --charts, --export-types, *)
(* --scale, --skip-existing and --validate-only.                           *)
Name(folder, form, metric, family, profile, scenario) ==
    [folder |-> folder, form |-> form, metric |-> metric,
     family |-> family, profile |-> profile, scenario |-> scenario]

----------------------------------------------------------------------------
(* Detailed mode: TIME_SERIES, BAR_CHARTS and FAILURE_CHARTS of config.py. *)
TimelineMetrics ==
    [baseline |-> {"rps", "tls", "http"},
     linear   |-> {"rps", "active-vus", "tcp", "tls", "http"},
     race     |-> {"rps", "tcp", "tls", "http"}]

BarMetrics ==
    [baseline |-> {"http", "tls"}, linear |-> {"http", "tls"}, race |-> {"rps", "http", "tls"}]

(* Timelines of a race are drawn per profile, the others per run.          *)
DetailedCharts(folder, f) ==
    {Name(folder, "timeline", m, f, p, None) :
        m \in TimelineMetrics[f], p \in IF f = "race" THEN Profiles[f] ELSE {None}}
    \cup {Name(folder, "bars", m, f, p, None) :
            m \in BarMetrics[f] \cup {"failure-rate"}, p \in Profiles[f]}

(* select_charts(): the charts of the families that were supplied, in the  *)
(* forms and under the names asked for; every name must match something.   *)
Selected(req, charts) ==
    {n \in charts : /\ n.form \in req.forms
                    /\ req.names = {} \/ n.metric \in req.names}

SelectionAccepted(req) ==
    LET chosen == Selected(req, UNION {DetailedCharts(None, FamilyOf[r]) : r \in req.runs})
    IN  /\ chosen # {}
        /\ \A m \in req.names : \E n \in chosen : n.metric = m

(* Comparison modes take neither --charts nor --export-types.              *)
Accepted(req) ==
    /\ req.runs # {}
    /\ IF req.mode = "detailed" THEN SelectionAccepted(req) ELSE req.names = {}

----------------------------------------------------------------------------
(* What belongs in one folder is exported together: a scenario under one   *)
(* TLS configuration, all scenarios under one, or everything.              *)
Folder(mode, r) ==
    IF mode = "detailed" THEN <<ScenarioOf[r], ConfigOf[r]>>
    ELSE IF mode = "scenario" THEN <<ConfigOf[r]>> ELSE <<>>

Group(req, folder) ==
    [folder |-> folder, runs |-> {r \in req.runs : Folder(req.mode, r) = folder}]

(* A cell is written as a unit: all its charts, then its obsolete files go. *)
Cell(charts, obsolete) == [charts |-> charts, obsolete |-> obsolete]

ScenarioCell(g, f, p) ==
    Cell({Name(g.folder, "percentiles", m, f, p, None) : m \in SummaryMetrics}
         \cup {Name(g.folder, "completion", None, x, p, None) : x \in {f} \cap {"race"}},
         {Name(g.folder, "summary", None, f, p, None),
          Name(g.folder, "percentiles", None, f, p, None)})

(* Bytes are charted for the flat baseline only.                           *)
TlsCell(g, f, p) ==
    LET scenarios == {ScenarioOf[r] : r \in {r \in g.runs : FamilyOf[r] = f}}
        bytes == IF f = "baseline" /\ p = "Flat" THEN ByteMetrics ELSE {}
    IN  Cell({Name(g.folder, "percentiles", m, f, p, s) : m \in SummaryMetrics, s \in scenarios}
             \cup {Name(g.folder, "bytes", m, f, p, s) : m \in bytes, s \in scenarios}
             \cup {Name(g.folder, "completion", None, x, p, None) : x \in {f} \cap {"race"}},
             {Name(g.folder, "percentiles", m, f, p, None) : m \in SummaryMetrics \cup {None}}
             \cup {Name(g.folder, "bytes", m, f, p, None) : m \in bytes})

FamiliesIn(g) == {FamilyOf[r] : r \in g.runs}

(* In detailed mode each chart is a cell of its own.                       *)
Cells(req, g) ==
    IF req.mode = "detailed"
    THEN {Cell({n}, {}) : n \in Selected(req, UNION {DetailedCharts(g.folder, f) : f \in FamiliesIn(g)})}
    ELSE UNION {{IF req.mode = "scenario" THEN ScenarioCell(g, f, p) ELSE TlsCell(g, f, p) :
                    p \in Profiles[f]} : f \in FamiliesIn(g)}

ChartsOf(cells) == UNION {c.charts : c \in cells}

(* A detailed comparison none of whose families was selected is passed over. *)
Groups(req) ==
    {g \in {Group(req, Folder(req.mode, r)) : r \in req.runs} : Cells(req, g) # {}}

----------------------------------------------------------------------------
(* The runs whose samples a chart shows, and those its metadata names.     *)
Sources(n, R) ==
    {r \in R : FamilyOf[r] = n.family /\ n.scenario \in {None, ScenarioOf[r]}}

Recorded(n, R) ==
    IF n.form \in {"timeline", "bars"} \/ n.scenario # None THEN Sources(n, R) ELSE R

(* Completion charts share one axis over all races and VU profiles.        *)
AxisOf(n, R) ==
    IF n.form = "completion" THEN {r \in R : FamilyOf[r] = "race"} \X Profiles["race"] ELSE {}

ScaleOf(n, scale) ==
    IF \/ n.form \in {"completion", "bytes"}
       \/ n.metric \in {"failure-rate", "active-vus"}
       \/ n.form = "timeline" /\ n.metric = "rps"
    THEN "linear" ELSE scale

LayoutOf(mode) == IF mode = "tls" THEN "current" ELSE "none"

(* Bars of one family and metric, whatever the profile, share an answer;   *)
(* so do the failure rates of a family.  The caches belong to a comparison. *)
CacheKeyOfMetric(n) ==
    IF n.form = "bars" THEN Name(None, n.form, n.metric, None, None, None) ELSE n

CacheKey(n) ==
    IF n.form = "bars" THEN Name(None, n.form, n.metric, n.family, None, None) ELSE n

(* The others are drawn from the summary metadata.                         *)
NeedsQuery(n) == n.form \in {"timeline", "bars", "percentiles"}

(* reusable_svg() that takes any file which covers the runs.               *)
MatchesCovering(req, n, R, doc) == Recorded(n, R) \subseteq doc.runs

(* reusable_svg(): the recorded run ids are those of the request; in TLS   *)
(* mode the file also shows this metric and scenario, in this layout and   *)
(* scale.                                                                  *)
Matches(req, n, R, doc) ==
    /\ doc.runs = Recorded(n, R)
    /\ req.mode = "tls" => /\ doc.name = n
                           /\ doc.layout = LayoutOf("tls")
                           /\ doc.scale = ScaleOf(n, req.scale)

----------------------------------------------------------------------------
(* A file whose name belongs to no chart of this version.                  *)
IsObsolete(n) ==
    \/ n.form = "summary"
    \/ n.form = "percentiles" /\ n.metric = None
    \/ n.form \in {"percentiles", "bytes"} /\ n.folder = <<>> /\ n.scenario = None

(* A chart that is what its name and its metadata say: whole, drawn from   *)
(* exactly the runs it records, on the axis these runs call for.           *)
Sound(n, doc) ==
    /\ doc.whole
    /\ doc.name = n
    /\ {d[1] : d \in doc.data} = Sources(n, doc.runs)
    /\ doc.axis = AxisOf(n, doc.runs)
=============================================================================
