------------------------- MODULE ChartExportProofs -------------------------
(* Theorems about ChartExport for any runs, scenarios, configurations,     *)
(* workloads and profiles, any command lines, any folders to begin with,   *)
(* and any number of commands, faults and imports.                         *)
EXTENDS ChartExport, TLAPS

----------------------------------------------------------------------------
(* What the plan of a command line is like.                                *)

ChartsIn(req, g) == ChartsOf(Cells(req, g))

(* Groups differ in their folder.                                          *)
LEMMA GroupShape ==
    ASSUME NEW req, NEW g \in Groups(req)
    PROVE  /\ g = Group(req, g.folder) /\ g.runs \subseteq req.runs
           /\ \E r \in req.runs : g.folder = Folder(req.mode, r)
BY DEF Groups, Group

LEMMA GroupsApart ==
    ASSUME NEW req, NEW g \in Groups(req), NEW h \in Groups(req), g.folder = h.folder
    PROVE  g = h
BY GroupShape

(* A chart lies in the folder of its group, is none of those that earlier  *)
(* versions left, and belongs to one scenario only if it shows summaries.  *)
ChartShape(g, n) ==
    /\ n = Name(g.folder, n.form, n.metric, n.family, n.profile, n.scenario)
    /\ ~IsObsolete(n)
    /\ n.form \in {"timeline", "bars", "completion"} => n.scenario = None

LEMMA DetailedShape ==
    ASSUME NEW g, NEW f, NEW n \in DetailedCharts(g.folder, f)
    PROVE  ChartShape(g, n)
BY DEF DetailedCharts, ChartShape, IsObsolete, Name

LEMMA OneTupleIsNotEmpty ==
    ASSUME NEW x
    PROVE  <<x>> # <<>>
<1>1. 1 \in DOMAIN <<x>> /\ 1 \notin DOMAIN <<>>
  OBVIOUS
<1>2. QED
  BY <1>1

LEMMA ScenarioShape ==
    ASSUME NEW g, NEW f, NEW p, NEW n \in ScenarioCell(g, f, p).charts, g.folder # <<>>
    PROVE  ChartShape(g, n)
<1>1. CASE \E m \in SummaryMetrics : n = Name(g.folder, "percentiles", m, f, p, None)
  BY <1>1, PlanAssumption DEF ChartShape, IsObsolete, Name
<1>2. CASE n = Name(g.folder, "completion", None, f, p, None)
  BY <1>2 DEF ChartShape, IsObsolete, Name
<1>3. QED
  BY <1>1, <1>2 DEF ScenarioCell, Cell

LEMMA TlsShape ==
    ASSUME NEW g, NEW f, NEW p, NEW n \in TlsCell(g, f, p).charts, g.runs \subseteq Runs
    PROVE  ChartShape(g, n)
<1>1. ASSUME NEW m \in SummaryMetrics, NEW r \in g.runs,
             n = Name(g.folder, "percentiles", m, f, p, ScenarioOf[r])
      PROVE  ChartShape(g, n)
  BY <1>1, PlanAssumption DEF ChartShape, IsObsolete, Name
<1>2. ASSUME NEW m \in ByteMetrics, NEW r \in g.runs,
             n = Name(g.folder, "bytes", m, f, p, ScenarioOf[r])
      PROVE  ChartShape(g, n)
  BY <1>2, PlanAssumption DEF ChartShape, IsObsolete, Name
<1>3. CASE n = Name(g.folder, "completion", None, f, p, None)
  BY <1>3 DEF ChartShape, IsObsolete, Name
<1>4. QED
  BY <1>1, <1>2, <1>3 DEF TlsCell, Cell

(* What a command line may be, as far as the proofs need it.               *)
Proper(req) == req.runs \subseteq Runs /\ req.mode \in Modes

LEMMA PlanShape ==
    ASSUME NEW req, Proper(req), NEW g \in Groups(req), NEW n \in ChartsIn(req, g)
    PROVE  ChartShape(g, n)
<1>1. PICK c \in Cells(req, g) : n \in c.charts
  BY DEF ChartsIn, ChartsOf
<1>2. CASE req.mode = "detailed"
  <2>1. \E f : n \in DetailedCharts(g.folder, f)
    BY <1>1, <1>2 DEF Cells, Cell, Selected
  <2>2. QED
    BY <2>1, DetailedShape
<1>3. CASE req.mode = "scenario"
  <2>1. \E f, p : c = ScenarioCell(g, f, p)
    BY <1>1, <1>3 DEF Cells
  <2>2. PICK r : g.folder = <<ConfigOf[r]>>
    BY <1>3, GroupShape DEF Folder
  <2>3. g.folder # <<>>
    BY <2>2, OneTupleIsNotEmpty
  <2>4. QED
    BY <1>1, <2>1, <2>3, ScenarioShape
<1>4. CASE req.mode = "tls"
  <2>1. \E f, p : c = TlsCell(g, f, p)
    BY <1>1, <1>4 DEF Cells
  <2>2. g.runs \subseteq Runs
    BY GroupShape DEF Proper
  <2>3. QED
    BY <1>1, <2>1, <2>2, TlsShape
<1>5. QED
  BY <1>2, <1>3, <1>4 DEF Proper, Modes

(* Charts that share an answer are drawn from the same runs.               *)
LEMMA SharedAnswer ==
    ASSUME NEW g, NEW n, NEW m, ChartShape(g, n), ChartShape(g, m),
           CacheKey(n) = CacheKey(m), NEW R
    PROVE  Sources(n, R) = Sources(m, R)
<1>1. CASE n.form = "bars" /\ m.form = "bars"
  BY <1>1 DEF CacheKey, Name, Sources, ChartShape
<1>2. CASE n.form # "bars" /\ m.form # "bars"
  BY <1>2 DEF CacheKey
<1>3. CASE n.form = "bars" /\ m.form # "bars"
  BY <1>3 DEF CacheKey, Name
<1>4. CASE n.form # "bars" /\ m.form = "bars"
  BY <1>4 DEF CacheKey, Name
<1>5. QED
  BY <1>1, <1>2, <1>3, <1>4

(* The runs in the metadata of a chart determine those it is drawn from.   *)
LEMMA RecordedSources ==
    ASSUME NEW g, NEW n, ChartShape(g, n), NEW R
    PROVE  /\ Sources(n, Recorded(n, R)) = Sources(n, R)
           /\ AxisOf(n, Recorded(n, R)) = AxisOf(n, R)
<1>1. Sources(n, Sources(n, R)) = Sources(n, R)
  BY DEF Sources
<1>2. n.form = "completion" => Recorded(n, R) = R
  BY DEF Recorded, ChartShape
<1>3. QED
  BY <1>1, <1>2 DEF Recorded, AxisOf

(* The charts of a cell replace all that is obsolete in it.                *)
Replacing(n, charts) ==
    \A m \in IF n.metric = None THEN SummaryMetrics ELSE {n.metric} :
        \E c \in charts : /\ c.folder = n.folder /\ c.family = n.family
                          /\ c.profile = n.profile /\ c.metric = m

LEMMA ScenarioObsolete ==
    ASSUME NEW g, NEW f, NEW p, NEW n \in ScenarioCell(g, f, p).obsolete
    PROVE  IsObsolete(n) /\ Replacing(n, ScenarioCell(g, f, p).charts)
<1>1. /\ n.folder = g.folder /\ n.family = f /\ n.profile = p /\ n.metric = None
      /\ IsObsolete(n)
  BY DEF ScenarioCell, Cell, Name, IsObsolete
<1>2. \A m \in SummaryMetrics :
          Name(g.folder, "percentiles", m, f, p, None) \in ScenarioCell(g, f, p).charts
  BY DEF ScenarioCell, Cell
<1>3. QED
  BY <1>1, <1>2 DEF Replacing, Name

LEMMA TlsObsolete ==
    ASSUME NEW g, NEW f \in FamiliesIn(g), NEW p, g.folder = <<>>,
           NEW n \in TlsCell(g, f, p).obsolete
    PROVE  IsObsolete(n) /\ Replacing(n, TlsCell(g, f, p).charts)
<1>1. /\ n.folder = g.folder /\ n.family = f /\ n.profile = p
      /\ IsObsolete(n)
  BY DEF TlsCell, Cell, Name, IsObsolete
<1>2. PICK r \in g.runs : FamilyOf[r] = f
  BY DEF FamiliesIn
<1>3. \A m \in SummaryMetrics :
          Name(g.folder, "percentiles", m, f, p, ScenarioOf[r]) \in TlsCell(g, f, p).charts
  BY <1>2 DEF TlsCell, Cell
<1>4. CASE n.metric \in SummaryMetrics \cup {None}
  BY <1>1, <1>3, <1>4, PlanAssumption DEF Replacing, Name
<1>5. CASE n.metric \notin SummaryMetrics \cup {None}
  <2> DEFINE bytes == IF f = "baseline" /\ p = "Flat" THEN ByteMetrics ELSE {}
  <2>1. n.metric \in bytes
    BY <1>5 DEF TlsCell, Cell, Name
  <2>2. Name(g.folder, "bytes", n.metric, f, p, ScenarioOf[r]) \in TlsCell(g, f, p).charts
    BY <1>2, <2>1 DEF TlsCell, Cell
  <2>3. QED
    BY <1>1, <1>5, <2>2 DEF Replacing, Name
<1>6. QED
  BY <1>1, <1>4, <1>5

LEMMA PlanObsolete ==
    ASSUME NEW req, Proper(req), NEW g \in Groups(req), NEW c \in Cells(req, g),
           NEW n \in c.obsolete
    PROVE  IsObsolete(n) /\ Replacing(n, c.charts)
<1>1. CASE req.mode = "detailed"
  <2>1. \E m : c = Cell({m}, {})
    BY <1>1 DEF Cells
  <2>2. QED
    BY <2>1 DEF Cell
<1>2. CASE req.mode = "scenario"
  <2>1. \E f, p : c = ScenarioCell(g, f, p)
    BY <1>2 DEF Cells
  <2>2. QED
    BY <2>1, ScenarioObsolete
<1>3. CASE req.mode = "tls"
  <2>1. \E f \in FamiliesIn(g) : \E p : c = TlsCell(g, f, p)
    BY <1>3 DEF Cells
  <2>2. g.folder = <<>>
    BY <1>3, GroupShape DEF Folder
  <2>3. QED
    BY <2>1, <2>2, TlsObsolete
<1>4. QED
  BY <1>1, <1>2, <1>3 DEF Proper, Modes

----------------------------------------------------------------------------
(* The inductive invariant, by subject.                                    *)
InCell == {"query", "write", "replace", "retire"}
InGroup == {"origins", "cell"} \cup InCell

Charts == ChartsIn(request, group)

(* A chart as the command asked for it, and one that is in its folder.     *)
AsAsked(n, R, doc) ==
    /\ Sound(n, doc)
    /\ doc.runs = Recorded(n, R)
    /\ request.mode = "tls" => doc.scale = ScaleOf(n, request.scale)
    /\ request.skip \/ \A d \in doc.data : d[2] >= metadata[d[1]]

InPlace(n, R) == n \in DOMAIN folder /\ AsAsked(n, R, folder[n])

RequestInv ==
    /\ phase # "idle" => request \in Requests
    /\ db \in [Runs -> Nat] /\ metadata \in [Runs -> Nat]
    /\ \A r \in Runs : metadata[r] <= db[r]

FolderInv == \A n \in DOMAIN folder : IsObsolete(n) \/ Sound(n, folder[n])

(* Of each group, the cells at hand, those still to come and those whose   *)
(* charts are made.                                                        *)
CellsInv ==
    /\ phase \in {"group"} \cup InGroup => groups \subseteq Groups(request)
    /\ phase \in InGroup =>
          /\ group \in Groups(request) \ groups
          /\ cells \subseteq Cells(request, group)
          /\ \A c \in Cells(request, group) :
                \/ c \in cells \/ c.charts \subseteq made
                \/ phase \in InCell /\ c = cell
    /\ phase \in InCell => cell \in Cells(request, group)
    /\ phase = "retire" => cell.charts \subseteq made
    /\ phase \in {"write", "replace"} =>
          \A n \in cell.charts : n \in made \/ \E doc \in contents : doc.name = n

MadeInv == phase \in InGroup => \A n \in made : n \in Charts /\ InPlace(n, group.runs)

(* Groups that are done stay as they were asked for.                       *)
SettledInv ==
    ~request.validate =>
        /\ phase \in {"group", "done"} \cup InGroup =>
              \A g \in Groups(request) :
                 \/ g \in groups
                 \/ phase \in InGroup /\ g = group
                 \/ \A n \in ChartsIn(request, g) : InPlace(n, g.runs)
        /\ phase = "done" => groups = {}

ContentsInv ==
    /\ phase \in {"write", "replace"} =>
          \A doc \in contents :
              /\ doc.name \in cell.charts /\ AsAsked(doc.name, group.runs, doc)
              /\ doc = [name |-> doc.name, whole |-> TRUE, runs |-> doc.runs, data |-> doc.data,
                        axis |-> doc.axis, scale |-> doc.scale, layout |-> doc.layout]
    /\ phase = "replace" => [tmp EXCEPT !.whole = TRUE] \in contents
                            /\ [tmp EXCEPT !.whole = TRUE].name = tmp.name

(* Answers are of the runs their charts are drawn from, and are complete   *)
(* but for the queries that are still to be made.                          *)
Answered(k, r) == \E f \in fetched : f.key = k /\ f.run = r
Asked(k, r) == phase = "query" /\ \E q \in todo : CacheKey(q[1]) = k /\ q[2] = r
Due(n) == \/ \E f \in fetched : f.key = CacheKey(n)
          \/ phase = "query" /\ (n \in cell.charts \ made \/ \E q \in todo : q[1] = n)

AnswerInv ==
    /\ phase \in InGroup =>
          /\ \A f \in fetched :
                /\ \E n \in Charts : /\ NeedsQuery(n) /\ f.key = CacheKey(n)
                                     /\ f.run \in Sources(n, group.runs)
                /\ f.gen >= metadata[f.run]
          /\ \A n \in Charts : NeedsQuery(n) /\ Due(n) =>
                \A r \in Sources(n, group.runs) :
                    Answered(CacheKey(n), r) \/ Asked(CacheKey(n), r)
    /\ phase = "query" =>
          \A q \in todo : /\ q[1] \in cell.charts /\ NeedsQuery(q[1])
                          /\ q[2] \in Sources(q[1], group.runs)

IInv == /\ RequestInv /\ FolderInv /\ CellsInv /\ MadeInv /\ SettledInv
        /\ ContentsInv /\ AnswerInv

----------------------------------------------------------------------------
(* Where nothing is claimed of the process, and steps that lead there.     *)
Quiet == {"metadata", "failed", "killed"}

LEMMA QuietPhases == \A x \in Quiet : x \notin {"idle", "group", "done"} \cup InGroup
BY DEF Quiet, InGroup, InCell

LEMMA QuietSteps ==
    ASSUME Command \/ Retry \/ QueryFails \/ Kill
    PROVE  phase' \in Quiet
BY DEF Command, Retry, QueryFails, Kill, Begin, Quiet

(* Import touches the points and nothing else.                             *)
LEMMA ImportTouches ==
    ASSUME Import \/ UNCHANGED vars
    PROVE  UNCHANGED <<folder, tmp, request, phase, metadata, groups, group, cells, cell, todo,
                       fetched, contents, made>>
BY DEF Import, vars, files, plan, answers

LEMMA ProperRequest ==
    ASSUME RequestInv, phase # "idle"
    PROVE  Proper(request) /\ request.skip \in BOOLEAN /\ request.validate \in BOOLEAN
BY ExportAssumption DEF RequestInv, Proper

LEMMA RequestStep ==
    ASSUME IInv, [Next]_vars
    PROVE  RequestInv'
<1> USE DEF IInv, RequestInv, files, plan, answers, budgets
<1>1. CASE Command
  BY <1>1 DEF Command, Begin
<1>2. CASE Retry
  BY <1>2 DEF Retry, Begin
<1>3. CASE Import
  <2>1. PICK r \in request.runs : db' = [db EXCEPT ![r] = @ + 1]
    BY <1>3 DEF Import
  <2>2. /\ db' \in [Runs -> Nat]
        /\ \A x \in Runs : db[x] <= db'[x]
    <3>1. db \in [Runs -> Nat]
      OBVIOUS
    <3>2. CASE r \in Runs
      BY <2>1, <3>1, <3>2
    <3>3. CASE r \notin Runs
      <4>1. db' = [x \in Runs |-> IF x = r THEN db[r] + 1 ELSE db[x]]
        BY <2>1, <3>1
      <4>2. db' = [x \in Runs |-> db[x]]
        BY <4>1, <3>3
      <4>3. QED
        BY <3>1, <4>2
    <3>4. QED
      BY <3>2, <3>3
  <2>3. QED
    BY <1>3, <2>2 DEF Import
<1>4. CASE ReadMetadata
  <2>1. metadata' = db /\ UNCHANGED <<db, request>> /\ phase # "idle"
    BY <1>4 DEF ReadMetadata
  <2>2. QED
    BY <2>1
<1>5. CASE UNCHANGED <<db, metadata, request>> /\ phase # "idle"
  BY <1>5
<1>6. CASE UNCHANGED vars
  BY <1>6 DEF vars
<1>7. QED
  BY <1>1, <1>2, <1>3, <1>4, <1>5, <1>6
     DEF Next, Step, NextGroup, Finish, ReadOrigins, NextCell, GroupDone, Query, Render,
         OpenTemporary, Replace, Written, RemoveObsolete, CellDone, QueryFails, Kill, Running,
         Ended

LEMMA CellsStep ==
    ASSUME IInv, [Next]_vars
    PROVE  CellsInv'
<1> USE DEF IInv, files, plan, answers, budgets
<1>1. CASE phase' \in Quiet
  BY <1>1, QuietPhases DEF CellsInv, InGroup, InCell
<1>2. CASE Import \/ UNCHANGED vars
  BY <1>2, ImportTouches DEF CellsInv
<1>3. CASE ReadMetadata
  BY <1>3 DEF ReadMetadata, CellsInv, InGroup, InCell
<1>4. CASE NextGroup
  <2>1. /\ group' \in groups /\ groups' = groups \ {group'} /\ cells' = Cells(request, group')
        /\ phase = "group" /\ phase' \in {"origins", "cell"} /\ UNCHANGED request
    BY <1>4 DEF NextGroup
  <2>2. QED
    BY <2>1 DEF CellsInv, InGroup, InCell
<1>5. CASE Finish \/ ReadOrigins \/ GroupDone \/ CellDone
  BY <1>5 DEF Finish, ReadOrigins, GroupDone, CellDone, CellsInv, InGroup, InCell
<1>6. CASE NextCell
  <2> DEFINE kept == {n \in cell'.charts : Reusable(n)}
  <2>1. /\ cell' \in cells /\ cells' = cells \ {cell'} /\ made' = made \cup kept
        /\ UNCHANGED <<request, groups, group>> /\ phase = "cell"
        /\ \/ phase' = "failed"
           \/ phase' = "retire" /\ kept = cell'.charts
           \/ phase' = "query"
    BY <1>6 DEF NextCell
  <2>2. QED
    BY <2>1 DEF CellsInv, InGroup, InCell
<1>7. CASE Query
  BY <1>7 DEF Query, CellsInv
<1>8. CASE Render
  <2>1. /\ phase = "query" /\ phase' = "write"
        /\ contents' = {Chart(n) : n \in cell.charts \ made}
        /\ UNCHANGED <<request, groups, group, cells, cell, made>>
    BY <1>8 DEF Render, Pending
  <2>2. \A n \in cell.charts : n \in made \/ \E doc \in contents' : doc.name = n
    <3>1. \A n : Chart(n).name = n
      BY DEF Chart
    <3>2. QED
      BY <2>1, <3>1
  <2>3. QED
    BY <2>1, <2>2 DEF CellsInv, InGroup, InCell
<1>9. CASE OpenTemporary
  BY <1>9 DEF OpenTemporary, CellsInv, InGroup, InCell
<1>10. CASE Replace
  BY <1>10 DEF Replace, CellsInv, InGroup, InCell
<1>11. CASE Written
  BY <1>11 DEF Written, CellsInv, InGroup, InCell
<1>12. CASE RemoveObsolete
  BY <1>12 DEF RemoveObsolete, CellsInv
<1>13. QED
  BY <1>1, <1>2, <1>3, <1>4, <1>5, <1>6, <1>7, <1>8, <1>9, <1>10, <1>11, <1>12, QuietSteps
     DEF Next, Step

----------------------------------------------------------------------------
(* The folder changes in two ways only: a whole chart of the cell appears  *)
(* in it, or an obsolete file of the cell goes when all charts of the cell *)
(* are in place.                                                           *)
LEMMA FolderChanges ==
    ASSUME [Next]_vars, folder' # folder
    PROVE  Replace \/ RemoveObsolete
BY DEF Next, Step, ReadMetadata, NextGroup, Finish, ReadOrigins, NextCell, GroupDone, Query, Render,
       OpenTemporary, Written, CellDone, Command, Retry, Begin, QueryFails, Kill, Import, vars, files

LEMMA CellCharts ==
    ASSUME CellsInv, phase \in InCell
    PROVE  /\ group \in Groups(request) /\ cell \in Cells(request, group)
           /\ cell.charts \subseteq Charts
BY DEF CellsInv, InGroup, Charts, ChartsIn, ChartsOf

LEMMA ReplaceEffect ==
    ASSUME IInv, Replace
    PROVE  \E doc \in contents :
              /\ doc.name = tmp.name
              /\ tmp.name \in cell.charts /\ tmp.name \in Charts
              /\ ChartShape(group, tmp.name) /\ AsAsked(tmp.name, group.runs, doc)
              /\ DOMAIN folder' = DOMAIN folder \cup {tmp.name}
              /\ folder' = Put(folder, tmp.name, doc)
              /\ folder'[tmp.name] = doc
              /\ \A m \in DOMAIN folder : m # tmp.name => folder'[m] = folder[m]
<1> DEFINE doc == [tmp EXCEPT !.whole = TRUE]
<1>1. /\ phase = "replace" /\ folder' = Put(folder, tmp.name, doc)
  BY DEF Replace
<1>2. doc \in contents /\ doc.name = tmp.name
  BY <1>1 DEF IInv, ContentsInv
<1>3. tmp.name \in cell.charts /\ AsAsked(tmp.name, group.runs, doc)
  BY <1>1, <1>2 DEF IInv, ContentsInv
<1>4. tmp.name \in Charts /\ group \in Groups(request)
  BY <1>1, <1>3, CellCharts DEF IInv, InCell
<1>5. ChartShape(group, tmp.name)
  BY <1>1, <1>4, ProperRequest, PlanShape DEF IInv, Charts
<1>6. /\ DOMAIN folder' = DOMAIN folder \cup {tmp.name}
      /\ folder'[tmp.name] = doc
      /\ \A m \in DOMAIN folder : m # tmp.name => folder'[m] = folder[m]
  BY <1>1 DEF Put, Folders!Put
<1>7. QED
  BY <1>1, <1>2, <1>3, <1>4, <1>5, <1>6

LEMMA RemoveEffect ==
    ASSUME IInv, RemoveObsolete
    PROVE  /\ phase = "retire"
           /\ \A m \in cell.charts : m \in Charts /\ InPlace(m, group.runs)
           /\ \E n \in DOMAIN folder :
                /\ n \in cell.obsolete
                /\ IsObsolete(n) /\ Replacing(n, cell.charts)
                /\ folder' = Drop(folder, n)
                /\ DOMAIN folder' = DOMAIN folder \ {n}
                /\ \A m \in DOMAIN folder : m # n => folder'[m] = folder[m]
<1>1. phase = "retire"
  BY DEF RemoveObsolete
<1>2. \A m \in cell.charts : m \in Charts /\ InPlace(m, group.runs)
  BY <1>1 DEF IInv, CellsInv, MadeInv, InGroup, InCell
<1>3. PICK n \in cell.obsolete \cap DOMAIN folder : folder' = Drop(folder, n)
  BY DEF RemoveObsolete
<1>4. IsObsolete(n) /\ Replacing(n, cell.charts)
  BY <1>1, <1>3, CellCharts, ProperRequest, PlanObsolete DEF IInv, InCell
<1>5. /\ DOMAIN folder' = DOMAIN folder \ {n}
      /\ \A m \in DOMAIN folder : m # n => folder'[m] = folder[m]
  BY <1>3 DEF Drop, Folders!Drop
<1>6. QED
  BY <1>1, <1>2, <1>3, <1>4, <1>5

(* What is in place stays so while the process runs, whichever group it    *)
(* belongs to: groups write to folders of their own.                       *)
LEMMA InPlaceStays ==
    ASSUME IInv, [Next]_vars, UNCHANGED <<request, metadata>>, phase # "idle",
           NEW g \in Groups(request), NEW n \in ChartsIn(request, g), InPlace(n, g.runs)
    PROVE  InPlace(n, g.runs)'
<1>1. ChartShape(g, n)
  BY ProperRequest, PlanShape DEF IInv
<1>2. CASE folder' = folder
  BY <1>2 DEF InPlace, AsAsked
<1>3. CASE Replace
  <2>1. PICK doc : /\ tmp.name \in Charts /\ ChartShape(group, tmp.name)
                   /\ AsAsked(tmp.name, group.runs, doc)
                   /\ DOMAIN folder' = DOMAIN folder \cup {tmp.name}
                   /\ folder'[tmp.name] = doc
                   /\ \A m \in DOMAIN folder : m # tmp.name => folder'[m] = folder[m]
    BY <1>3, ReplaceEffect
  <2>2. CASE n = tmp.name
    <3>1. group \in Groups(request)
      BY <1>3, CellCharts DEF IInv, Replace, InCell
    <3>2. group.folder = g.folder
      BY <1>1, <2>1, <2>2 DEF ChartShape, Name
    <3>3. group = g
      BY <3>1, <3>2, GroupsApart
    <3>4. QED
      BY <2>1, <2>2, <3>3 DEF InPlace, AsAsked
  <2>3. CASE n # tmp.name
    BY <2>1, <2>3 DEF InPlace, AsAsked
  <2>4. QED
    BY <2>2, <2>3
<1>4. CASE RemoveObsolete
  BY <1>1, <1>4, RemoveEffect DEF InPlace, AsAsked, ChartShape
<1>5. QED
  BY <1>2, <1>3, <1>4, FolderChanges

LEMMA FolderStep ==
    ASSUME IInv, [Next]_vars
    PROVE  FolderInv'
<1>1. FolderInv
  BY DEF IInv
<1>2. CASE folder' = folder
  BY <1>1, <1>2 DEF FolderInv
<1>3. CASE Replace
  BY <1>1, <1>3, ReplaceEffect DEF FolderInv, AsAsked
<1>4. CASE RemoveObsolete
  BY <1>1, <1>4, RemoveEffect DEF FolderInv
<1>5. QED
  BY <1>2, <1>3, <1>4, FolderChanges

----------------------------------------------------------------------------
(* What was made in a group is in place: a file that was reused matches    *)
(* the request, and it was a sound chart because every file is.            *)
LEMMA MadeStep ==
    ASSUME IInv, [Next]_vars
    PROVE  MadeInv'
<1> USE DEF files, plan, answers, budgets
<1>0. RequestInv /\ FolderInv /\ CellsInv /\ MadeInv
  BY DEF IInv
<1>1. CASE phase' \notin InGroup
  BY <1>1 DEF MadeInv
<1>2. ASSUME UNCHANGED <<request, metadata, group, made>>, phase \in InGroup
      PROVE  MadeInv'
  <2>1. group \in Groups(request) /\ phase # "idle"
    BY <1>0, <1>2 DEF CellsInv, InGroup, InCell
  <2>2. ASSUME NEW n \in made
        PROVE  n \in Charts' /\ InPlace(n, group.runs)'
    BY <1>0, <1>2, <2>1, <2>2, InPlaceStays DEF MadeInv, Charts
  <2>3. QED
    BY <1>2, <2>2 DEF MadeInv
<1>3. CASE NextGroup
  BY <1>3 DEF NextGroup, MadeInv
<1>4. CASE NextCell
  <2>1. /\ phase = "cell" /\ cell' \in cells
        /\ made' = made \cup {n \in cell'.charts : Reusable(n)}
        /\ UNCHANGED <<folder, request, metadata, group>>
    BY <1>4 DEF NextCell
  <2>2. group \in Groups(request) /\ cell' \in Cells(request, group)
    BY <1>0, <2>1 DEF CellsInv, InGroup
  <2>3. ASSUME NEW n \in cell'.charts, Reusable(n)
        PROVE  n \in Charts /\ InPlace(n, group.runs)
    <3>1. n \in Charts
      BY <2>2 DEF Charts, ChartsIn, ChartsOf
    <3>2. ~IsObsolete(n)
      BY <1>0, <2>1, <2>2, <3>1, ProperRequest, PlanShape DEF Charts, ChartShape
    <3>3. Sound(n, folder[n]) /\ n \in DOMAIN folder
      BY <1>0, <2>3, <3>2 DEF FolderInv, Reusable
    <3>4. QED
      BY <2>3, <3>1, <3>3 DEF Reusable, Matches, InPlace, AsAsked
  <2>4. \A n \in made : n \in Charts /\ InPlace(n, group.runs)
    BY <1>0, <2>1 DEF MadeInv, InGroup
  <2>5. \A n \in made' : n \in Charts /\ InPlace(n, group.runs)
    BY <2>1, <2>3, <2>4
  <2>6. QED
    BY <2>1, <2>5 DEF MadeInv, Charts, InPlace, AsAsked
<1>5. CASE Replace
  <2>1. /\ made' = made \cup {tmp.name} /\ phase = "replace"
        /\ UNCHANGED <<request, metadata, group>>
    BY <1>5 DEF Replace
  <2>2. group \in Groups(request) /\ phase # "idle"
    BY <1>0, <2>1, CellCharts DEF InCell
  <2>3. ASSUME NEW n \in made
        PROVE  n \in Charts' /\ InPlace(n, group.runs)'
    BY <1>0, <2>1, <2>2, <2>3, InPlaceStays DEF MadeInv, Charts, InGroup, InCell
  <2>4. PICK n : n = tmp.name
    OBVIOUS
  <2>5. PICK doc : /\ n \in Charts /\ AsAsked(n, group.runs, doc)
                   /\ n \in DOMAIN folder' /\ folder'[n] = doc
    BY <1>5, <2>4, ReplaceEffect
  <2>6. n \in Charts' /\ InPlace(n, group.runs)'
    BY <2>1, <2>5 DEF InPlace, AsAsked, Charts
  <2>7. QED
    BY <2>1, <2>3, <2>4, <2>6 DEF MadeInv
<1>6. CASE Import \/ UNCHANGED vars
  BY <1>1, <1>2, <1>6, ImportTouches
<1>7. CASE ReadMetadata \/ Finish \/ GroupDone
  BY <1>1, <1>7 DEF ReadMetadata, Finish, GroupDone, InGroup, InCell
<1>8. CASE ReadOrigins
  BY <1>1, <1>2, <1>8 DEF ReadOrigins, InGroup
<1>9. CASE Query \/ Render \/ OpenTemporary \/ Written \/ RemoveObsolete \/ CellDone
  <2>1. UNCHANGED <<request, metadata, group, made>> /\ phase \in InGroup
    BY <1>9
       DEF Query, Render, OpenTemporary, Written, RemoveObsolete, CellDone, InGroup, InCell
  <2>2. QED
    BY <1>2, <2>1
<1>10. CASE phase' \in Quiet
  BY <1>1, <1>10, QuietPhases
<1>11. QED
  BY <1>3, <1>4, <1>5, <1>6, <1>7, <1>8, <1>9, <1>10, QuietSteps DEF Next, Step

LEMMA SettledStep ==
    ASSUME IInv, [Next]_vars
    PROVE  SettledInv'
<1> USE DEF files, plan, answers, budgets
<1>0. RequestInv /\ CellsInv /\ MadeInv /\ SettledInv
  BY DEF IInv
<1>1. CASE phase' \notin {"group", "done"} \cup InGroup
  BY <1>1 DEF SettledInv
<1>2. CASE request'.validate
  BY <1>2 DEF SettledInv
<1>3. ASSUME UNCHANGED <<request, metadata>>, ~request.validate,
             phase \in {"group", "done"} \cup InGroup,
             NEW g \in Groups(request), g \notin groups, ~(phase \in InGroup /\ g = group)
      PROVE  \A n \in ChartsIn(request, g) : InPlace(n, g.runs)'
  <2>1. phase # "idle" /\ \A n \in ChartsIn(request, g) : InPlace(n, g.runs)
    BY <1>0, <1>3 DEF SettledInv, InGroup, InCell
  <2>2. QED
    BY <1>3, <2>1, InPlaceStays
<1>4. ASSUME UNCHANGED <<request, metadata, groups, group>>, ~request.validate,
             \/ phase \in InGroup /\ phase' \in InGroup
             \/ phase \in {"group", "done"} /\ phase' = phase
      PROVE  SettledInv'
  <2>1. ASSUME NEW g \in Groups(request)
        PROVE  \/ g \in groups
               \/ phase' \in InGroup /\ g = group
               \/ \A n \in ChartsIn(request, g) : InPlace(n, g.runs)'
    BY <1>3, <1>4
  <2>2. phase' = "done" => groups' = {}
    BY <1>0, <1>4 DEF SettledInv, InGroup, InCell
  <2>3. QED
    BY <1>4, <2>1, <2>2 DEF SettledInv
<1>5. CASE Import \/ UNCHANGED vars
  BY <1>1, <1>2, <1>4, <1>5, ImportTouches
<1>6. CASE ReadMetadata
  BY <1>6 DEF ReadMetadata, SettledInv, InGroup, InCell
<1>7. CASE NextGroup /\ ~request.validate
  <2>1. /\ phase = "group" /\ group' \in groups /\ groups' = groups \ {group'}
        /\ phase' \in {"origins", "cell"} /\ UNCHANGED <<request, metadata>>
    BY <1>7 DEF NextGroup
  <2>2. ASSUME NEW g \in Groups(request), g \notin groups
        PROVE  \A n \in ChartsIn(request, g) : InPlace(n, g.runs)'
    BY <1>3, <1>7, <2>1, <2>2 DEF InGroup, InCell
  <2>3. QED
    BY <2>1, <2>2 DEF SettledInv, InGroup, InCell
<1>8. CASE Finish /\ ~request.validate
  <2>1. /\ phase = "group" /\ groups = {} /\ groups' = {} /\ phase' = "done"
        /\ UNCHANGED <<request, metadata>>
    BY <1>8 DEF Finish
  <2>2. ASSUME NEW g \in Groups(request)
        PROVE  \A n \in ChartsIn(request, g) : InPlace(n, g.runs)'
    BY <1>3, <1>8, <2>1, <2>2 DEF InGroup, InCell
  <2>3. QED
    BY <2>1, <2>2 DEF SettledInv
<1>9. CASE GroupDone /\ ~request.validate /\ phase' = "group"
  <2>1. /\ phase = "cell" /\ cells = {} /\ UNCHANGED <<request, metadata, groups, group>>
    BY <1>9 DEF GroupDone
  <2>2. ASSUME NEW n \in ChartsIn(request, group)
        PROVE  InPlace(n, group.runs)'
    <3>1. n \in made /\ group \in Groups(request)
      BY <1>0, <2>1 DEF CellsInv, InGroup, InCell, ChartsIn, ChartsOf
    <3>2. InPlace(n, group.runs)
      BY <1>0, <2>1, <3>1 DEF MadeInv, InGroup
    <3>3. QED
      BY <1>0, <2>1, <3>1, <3>2, InPlaceStays
  <2>3. ASSUME NEW g \in Groups(request), g \notin groups
        PROVE  \A n \in ChartsIn(request, g) : InPlace(n, g.runs)'
    BY <1>3, <1>9, <2>1, <2>2, <2>3 DEF InGroup
  <2>4. QED
    BY <1>9, <2>1, <2>3 DEF SettledInv
<1>10. CASE ReadOrigins /\ ~request.validate
  BY <1>4, <1>10 DEF ReadOrigins, InGroup
<1>11. CASE /\ NextCell \/ Query \/ Render \/ OpenTemporary \/ Replace \/ Written
               \/ RemoveObsolete \/ CellDone
            /\ ~request.validate /\ phase' \in InGroup
  <2>1. UNCHANGED <<request, metadata, groups, group>> /\ phase \in InGroup
    BY <1>11
       DEF NextCell, Query, Render, OpenTemporary, Replace, Written, RemoveObsolete, CellDone,
           InGroup, InCell
  <2>2. QED
    BY <1>4, <1>11, <2>1
<1>12. CASE phase' \in Quiet
  BY <1>1, <1>12, QuietPhases
<1>13. QED
  <2>1. GroupDone => phase' \in {"group", "failed"} /\ request' = request
    BY DEF GroupDone
  <2>2. NextCell \/ Query \/ Render \/ OpenTemporary \/ Replace \/ Written \/ RemoveObsolete
           \/ CellDone => phase' \in InGroup \cup {"failed"} /\ request' = request
    BY DEF NextCell, Query, Render, OpenTemporary, Replace, Written, RemoveObsolete, CellDone,
           InGroup, InCell
  <2>3. NextGroup \/ Finish \/ ReadOrigins => request' = request
    BY DEF NextGroup, Finish, ReadOrigins
  <2>4. QED
    BY <1>2, <1>5, <1>6, <1>7, <1>8, <1>9, <1>10, <1>11, <1>12, <2>1, <2>2, <2>3, QuietSteps
       DEF Next, Step, Quiet

----------------------------------------------------------------------------
(* When no query is left, a chart is rendered from an answer of each of    *)
(* its runs and of no other, though charts share their answers.            *)
LEMMA AnswersOfChart ==
    ASSUME IInv, phase = "query", todo = {}, NEW n \in cell.charts \ made, NeedsQuery(n)
    PROVE  {f.run : f \in {f \in fetched : f.key = CacheKey(n)}} = Sources(n, group.runs)
<1>1. /\ n \in Charts /\ group \in Groups(request) /\ Proper(request)
      /\ AnswerInv /\ phase \in InGroup
  BY CellCharts, ProperRequest DEF IInv, InCell, InGroup
<1>2. ASSUME NEW r \in Sources(n, group.runs)
      PROVE  \E f \in fetched : f.key = CacheKey(n) /\ f.run = r
  BY <1>1, <1>2 DEF AnswerInv, Due, Answered, Asked
<1>3. ASSUME NEW f \in fetched, f.key = CacheKey(n)
      PROVE  f.run \in Sources(n, group.runs)
  <2>1. PICK m \in Charts : f.key = CacheKey(m) /\ f.run \in Sources(m, group.runs)
    BY <1>1 DEF AnswerInv
  <2>2. ChartShape(group, n) /\ ChartShape(group, m)
    BY <1>1, PlanShape DEF Charts
  <2>3. CacheKey(n) = CacheKey(m)
    BY <1>3, <2>1
  <2>4. Sources(n, group.runs) = Sources(m, group.runs)
    BY <2>2, <2>3, SharedAnswer
  <2>5. QED
    BY <2>1, <2>4
<1>4. QED
  BY <1>2, <1>3

(* The first parts of pairs.                                               *)
LEMMA Firsts ==
    ASSUME NEW S
    PROVE  {d[1] : d \in {<<f.run, f.gen>> : f \in S}} = {f.run : f \in S}
<1> DEFINE D == {<<f.run, f.gen>> : f \in S}
           E == {f.run : f \in S}
<1>1. ASSUME NEW d \in D
      PROVE  d[1] \in E
  BY <1>1
<1>2. ASSUME NEW e \in E
      PROVE  \E d \in D : d[1] = e
  <2>1. PICK f \in S : e = f.run
    OBVIOUS
  <2>2. <<f.run, f.gen>> \in D /\ <<f.run, f.gen>>[1] = e
    BY <2>1
  <2>3. QED
    BY <2>2
<1> HIDE DEF D, E
<1>3. {d[1] : d \in D} = E
  BY <1>1, <1>2
<1>4. QED
  BY <1>3 DEF D, E

LEMMA FirstsOf ==
    ASSUME NEW S, NEW g
    PROVE  {d[1] : d \in {<<r, g[r]>> : r \in S}} = S
<1> DEFINE D == {<<r, g[r]>> : r \in S}
<1>1. ASSUME NEW d \in D
      PROVE  d[1] \in S
  BY <1>1
<1>2. ASSUME NEW r \in S
      PROVE  \E d \in D : d[1] = r
  <2>1. <<r, g[r]>> \in D /\ <<r, g[r]>>[1] = r
    OBVIOUS
  <2>2. QED
    BY <2>1
<1> HIDE DEF D
<1>3. {d[1] : d \in D} = S
  BY <1>1, <1>2
<1>4. QED
  BY <1>3 DEF D

LEMMA RenderedAsAsked ==
    ASSUME IInv, phase = "query", todo = {}, NEW n \in cell.charts \ made
    PROVE  AsAsked(n, group.runs, Chart(n))
<1>1. /\ n \in Charts /\ group \in Groups(request) /\ Proper(request)
      /\ AnswerInv /\ phase \in InGroup /\ RequestInv
  BY CellCharts, ProperRequest DEF IInv, InCell, InGroup
<1>2. ChartShape(group, n)
  BY <1>1, PlanShape DEF Charts
<1>3. Sources(n, group.runs) \subseteq Runs
  BY <1>1, GroupShape DEF Sources, Proper
<1>4. /\ {d[1] : d \in Chart(n).data} = Sources(n, group.runs)
      /\ \A d \in Chart(n).data : d[2] >= metadata[d[1]]
  <2>1. CASE NeedsQuery(n)
    <3>1. Chart(n).data = {<<f.run, f.gen>> : f \in {f \in fetched : f.key = CacheKey(n)}}
      BY <2>1 DEF Chart
    <3>2. {f.run : f \in {f \in fetched : f.key = CacheKey(n)}} = Sources(n, group.runs)
      BY <2>1, AnswersOfChart
    <3>3. \A f \in fetched : f.gen >= metadata[f.run]
      BY <1>1 DEF AnswerInv
    <3>4. {d[1] : d \in Chart(n).data} = Sources(n, group.runs)
      BY <3>1, <3>2, Firsts, Zenon
    <3>5. QED
      BY <3>1, <3>3, <3>4
  <2>2. CASE ~NeedsQuery(n)
    <3>1. Chart(n).data = {<<r, metadata[r]>> : r \in Sources(n, group.runs)}
      BY <2>2 DEF Chart
    <3>2. \A r \in Sources(n, group.runs) : metadata[r] \in Nat
      BY <1>1, <1>3 DEF RequestInv
    <3>3. {d[1] : d \in Chart(n).data} = Sources(n, group.runs)
      <4>1. {d[1] : d \in {<<r, metadata[r]>> : r \in Sources(n, group.runs)}}
               = Sources(n, group.runs)
        BY FirstsOf
      <4>2. QED
        BY <3>1, <4>1
    <3>4. QED
      BY <3>1, <3>2, <3>3
  <2>3. QED
    BY <2>1, <2>2
<1>5. /\ Chart(n).name = n /\ Chart(n).whole /\ Chart(n).runs = Recorded(n, group.runs)
      /\ Chart(n).axis = AxisOf(n, group.runs) /\ Chart(n).scale = ScaleOf(n, request.scale)
  BY DEF Chart
<1>6. Sound(n, Chart(n))
  BY <1>2, <1>4, <1>5, RecordedSources DEF Sound
<1>7. QED
  BY <1>4, <1>5, <1>6 DEF AsAsked

LEMMA ContentsStep ==
    ASSUME IInv, [Next]_vars
    PROVE  ContentsInv'
<1> USE DEF files, plan, answers, budgets
<1>0. ContentsInv
  BY DEF IInv
<1>1. CASE phase' \notin {"write", "replace"}
  BY <1>1 DEF ContentsInv
<1>2. CASE Import \/ UNCHANGED vars
  BY <1>0, <1>2, ImportTouches DEF ContentsInv, AsAsked
<1>3. CASE Render
  <2>1. /\ phase = "query" /\ todo = {} /\ phase' = "write"
        /\ contents' = {Chart(n) : n \in cell.charts \ made}
        /\ UNCHANGED <<request, metadata, group, cell>>
    BY <1>3 DEF Render, Pending
  <2>2. ASSUME NEW doc \in contents'
        PROVE  /\ doc.name \in cell.charts /\ AsAsked(doc.name, group.runs, doc)
               /\ doc = [name |-> doc.name, whole |-> TRUE, runs |-> doc.runs, data |-> doc.data,
                         axis |-> doc.axis, scale |-> doc.scale, layout |-> doc.layout]
    <3>1. PICK n \in cell.charts \ made : doc = Chart(n)
      BY <2>1
    <3>2. doc.name = n
      BY <3>1 DEF Chart
    <3>3. AsAsked(doc.name, group.runs, doc)
      BY <2>1, <3>1, <3>2, RenderedAsAsked
    <3>4. doc = [name |-> doc.name, whole |-> TRUE, runs |-> doc.runs, data |-> doc.data,
                 axis |-> doc.axis, scale |-> doc.scale, layout |-> doc.layout]
      BY <3>1 DEF Chart
    <3>5. QED
      BY <3>2, <3>3, <3>4
  <2>3. QED
    BY <2>1, <2>2 DEF ContentsInv, AsAsked
<1>4. CASE OpenTemporary
  <2>1. PICK doc \in contents : tmp' = [doc EXCEPT !.whole = FALSE]
    BY <1>4 DEF OpenTemporary
  <2>2. /\ phase = "write" /\ phase' = "replace"
        /\ UNCHANGED <<request, metadata, group, cell, contents>>
    BY <1>4 DEF OpenTemporary
  <2>3. [tmp' EXCEPT !.whole = TRUE] = doc /\ tmp'.name = doc.name
    <3>1. doc = [name |-> doc.name, whole |-> TRUE, runs |-> doc.runs, data |-> doc.data,
                 axis |-> doc.axis, scale |-> doc.scale, layout |-> doc.layout]
      BY <1>0, <2>2 DEF ContentsInv
    <3>2. tmp' = [name |-> doc.name, whole |-> FALSE, runs |-> doc.runs, data |-> doc.data,
                  axis |-> doc.axis, scale |-> doc.scale, layout |-> doc.layout]
      BY <2>1, <3>1
    <3>3. QED
      BY <3>1, <3>2
  <2>4. QED
    BY <1>0, <2>2, <2>3 DEF ContentsInv, AsAsked
<1>5. CASE Replace
  <2>1. /\ phase = "replace" /\ phase' = "write" /\ contents' \subseteq contents
        /\ UNCHANGED <<request, metadata, group, cell>>
    BY <1>5 DEF Replace
  <2>2. QED
    BY <1>0, <2>1 DEF ContentsInv, AsAsked
<1>6. QED
  <2>1. ReadMetadata \/ NextGroup \/ Finish \/ ReadOrigins \/ NextCell \/ GroupDone \/ Written
           \/ CellDone \/ Query \/ RemoveObsolete => phase' \notin {"write", "replace"}
    BY DEF ReadMetadata, NextGroup, Finish, ReadOrigins, NextCell, GroupDone, Written, CellDone,
           Query, RemoveObsolete
  <2>2. phase' \in Quiet => phase' \notin {"write", "replace"}
    BY DEF Quiet
  <2>3. QED
    BY <1>1, <1>2, <1>3, <1>4, <1>5, <2>1, <2>2, QuietSteps DEF Next, Step

LEMMA AnswerStep ==
    ASSUME IInv, [Next]_vars
    PROVE  AnswerInv'
<1> USE DEF files, plan, answers, budgets
<1>0. RequestInv /\ CellsInv /\ AnswerInv
  BY DEF IInv
<1>1. CASE phase' \notin InGroup
  BY <1>1 DEF AnswerInv, InGroup, InCell
<1>2. ASSUME UNCHANGED <<request, metadata, group, fetched>>, phase \in InGroup \ {"query"},
             phase' \in InGroup \ {"query"}
      PROVE  AnswerInv'
  BY <1>0, <1>2 DEF AnswerInv, Charts, Due, Answered, Asked
<1>3. CASE Import \/ UNCHANGED vars
  BY <1>0, <1>3, ImportTouches DEF AnswerInv, Charts, Due, Answered, Asked
<1>4. CASE NextGroup
  <2>1. fetched' = {} /\ phase' # "query"
    BY <1>4 DEF NextGroup
  <2>2. QED
    BY <2>1 DEF AnswerInv, Due
<1>5. CASE NextCell /\ phase' \in InGroup
  <2> DEFINE kept == {n \in cell'.charts : Reusable(n)}
             known == {f.key : f \in fetched}
  <2>1. /\ phase = "cell" /\ cell' \in cells /\ made' = made \cup kept
        /\ todo' = {q \in (cell'.charts \ kept) \X group.runs :
                      /\ NeedsQuery(q[1]) /\ CacheKey(q[1]) \notin known
                      /\ q[2] \in Sources(q[1], group.runs)}
        /\ UNCHANGED <<request, metadata, group, fetched>>
    BY <1>5 DEF NextCell
  <2>2. ASSUME NEW n \in Charts, NeedsQuery(n), Due(n)', NEW r \in Sources(n, group.runs)
        PROVE  Answered(CacheKey(n), r)' \/ Asked(CacheKey(n), r)'
    <3>1. CASE CacheKey(n) \in known
      BY <1>0, <2>1, <2>2, <3>1 DEF AnswerInv, InGroup, Due, Answered, Asked
    <3>2. CASE CacheKey(n) \notin known
      <4>1. phase' = "query" /\ n \in cell'.charts \ kept
        BY <2>1, <2>2, <3>2 DEF Due
      <4>2. r \in group.runs
        BY <2>2 DEF Sources
      <4>3. <<n, r>> \in todo'
        BY <2>1, <2>2, <3>2, <4>1, <4>2
      <4>4. QED
        BY <4>1, <4>3 DEF Asked
    <3>3. QED
      BY <3>1, <3>2
  <2>3. QED
    BY <1>0, <2>1, <2>2 DEF AnswerInv, Charts, InGroup
<1>6. CASE Query
  <2>1. PICK q \in todo :
            /\ todo' = todo \ {q}
            /\ fetched' = fetched \cup
                  {[key |-> CacheKey(q[1]), run |-> q[2], gen |-> db[q[2]]]}
    BY <1>6 DEF Query
  <2>2. /\ phase = "query" /\ UNCHANGED <<request, phase, metadata, group, cell, made>>
    BY <1>6 DEF Query
  <2>3. /\ q[1] \in cell.charts /\ NeedsQuery(q[1]) /\ q[2] \in Sources(q[1], group.runs)
    BY <1>0, <2>2 DEF AnswerInv
  <2>4. /\ group \in Groups(request) /\ q[1] \in Charts /\ Proper(request)
    BY <1>0, <2>2, <2>3, CellCharts, ProperRequest DEF InCell
  <2>5. db[q[2]] >= metadata[q[2]]
    <3>1. q[2] \in Runs
      BY <2>3, <2>4, GroupShape DEF Sources, Proper
    <3>2. QED
      BY <1>0, <3>1 DEF RequestInv
  <2>6. \A f \in fetched' :
            /\ \E n \in Charts : /\ NeedsQuery(n) /\ f.key = CacheKey(n)
                                 /\ f.run \in Sources(n, group.runs)
            /\ f.gen >= metadata[f.run]
    BY <1>0, <2>1, <2>2, <2>3, <2>4, <2>5 DEF AnswerInv, InGroup, InCell
  <2>7. ASSUME NEW n \in Charts, NeedsQuery(n), Due(n)', NEW r \in Sources(n, group.runs)
        PROVE  Answered(CacheKey(n), r)' \/ Asked(CacheKey(n), r)'
    <3>1. Answered(CacheKey(n), r) \/ Asked(CacheKey(n), r)
      <4>1. CASE CacheKey(n) = CacheKey(q[1])
        <5>1. ChartShape(group, n) /\ ChartShape(group, q[1])
          BY <2>4, PlanShape DEF Charts
        <5>2. r \in Sources(q[1], group.runs)
          BY <4>1, <5>1, SharedAnswer
        <5>3. Due(q[1])
          BY <2>2 DEF Due
        <5>4. QED
          BY <1>0, <2>2, <2>3, <2>4, <4>1, <5>2, <5>3 DEF AnswerInv, InGroup, InCell
      <4>2. CASE CacheKey(n) # CacheKey(q[1])
        <5>1. Due(n)
          BY <2>1, <2>2, <2>7, <4>2 DEF Due
        <5>2. QED
          BY <1>0, <2>2, <2>7, <5>1 DEF AnswerInv, InGroup, InCell
      <4>3. QED
        BY <4>1, <4>2
    <3>2. CASE Answered(CacheKey(n), r)
      BY <2>1, <3>2 DEF Answered
    <3>3. CASE CacheKey(q[1]) = CacheKey(n) /\ q[2] = r
      <4> DEFINE a == [key |-> CacheKey(q[1]), run |-> q[2], gen |-> db[q[2]]]
      <4>1. a \in fetched' /\ a.key = CacheKey(n) /\ a.run = r
        BY <2>1, <3>3
      <4>2. QED
        BY <4>1 DEF Answered
    <3>4. CASE Asked(CacheKey(n), r) /\ ~(CacheKey(q[1]) = CacheKey(n) /\ q[2] = r)
      BY <2>1, <2>2, <3>4 DEF Asked
    <3>5. QED
      BY <3>1, <3>2, <3>3, <3>4
  <2>8. QED
    BY <1>0, <2>1, <2>2, <2>6, <2>7 DEF AnswerInv, Charts
<1>7. CASE Render
  <2>1. /\ phase = "query" /\ todo = {} /\ phase' = "write"
        /\ UNCHANGED <<request, metadata, group, fetched>>
    BY <1>7 DEF Render
  <2>2. QED
    BY <1>0, <2>1 DEF AnswerInv, Charts, Due, Answered, Asked, InGroup, InCell
<1>8. CASE ReadMetadata \/ Finish \/ GroupDone
  BY <1>1, <1>8 DEF ReadMetadata, Finish, GroupDone, InGroup, InCell
<1>9. CASE ReadOrigins
  BY <1>1, <1>2, <1>9 DEF ReadOrigins, InGroup, InCell
<1>10. CASE OpenTemporary \/ Replace \/ Written \/ RemoveObsolete \/ CellDone
  BY <1>2, <1>10 DEF OpenTemporary, Replace, Written, RemoveObsolete, CellDone, InGroup, InCell
<1>11. CASE phase' \in Quiet
  BY <1>1, <1>11, QuietPhases
<1>12. QED
  BY <1>1, <1>3, <1>4, <1>5, <1>6, <1>7, <1>8, <1>9, <1>10, <1>11, QuietSteps DEF Next, Step

----------------------------------------------------------------------------
(* The invariant holds of every behaviour of the exporter, whatever is     *)
(* asked for, fails, is killed, imported or found in the folders.          *)
THEOREM Invariance == Spec => []IInv
<1>1. Init => IInv
  <2>1. SUFFICES ASSUME Init PROVE IInv
    OBVIOUS
  <2>2. phase = "idle" /\ db = [r \in Runs |-> 0] /\ metadata = db
    BY <2>1 DEF Init
  <2>3. RequestInv
    BY <2>2 DEF RequestInv
  <2>4. FolderInv
    BY <2>1, ExportAssumption DEF Init, FolderInv
  <2>5. CellsInv /\ MadeInv /\ SettledInv /\ ContentsInv /\ AnswerInv
    BY <2>2 DEF CellsInv, MadeInv, SettledInv, ContentsInv, AnswerInv, InGroup, InCell
  <2>6. QED
    BY <2>3, <2>4, <2>5 DEF IInv
<1>2. IInv /\ [Next]_vars => IInv'
  BY RequestStep, FolderStep, CellsStep, MadeStep, SettledStep, ContentsStep, AnswerStep DEF IInv
<1>3. QED
  BY <1>1, <1>2, PTL DEF Spec

(* When the process is done, each chart of each group is in place.         *)
LEMMA DoneInPlace ==
    ASSUME IInv, phase = "done", ~request.validate, NEW g \in Groups(request),
           NEW n \in ChartsIn(request, g)
    PROVE  InPlace(n, g.runs)
BY DEF IInv, SettledInv, InGroup, InCell

(* An export that ends well leaves, for each chart that was asked for, a   *)
(* whole file of exactly the runs asked for, on the axis these runs call   *)
(* for - whether it was written now or found from an export that was       *)
(* killed, in any mode and for any set of runs.                            *)
THEOREM DoneAsAsked == Spec => []DoneIsAsAsked
<1>1. IInv => DoneIsAsAsked
  <2>1. SUFFICES ASSUME IInv, phase = "done", ~request.validate, NEW g \in Groups(request),
                        NEW n \in ChartsOf(Cells(request, g))
                 PROVE  /\ n \in DOMAIN folder
                        /\ Sound(n, folder[n])
                        /\ folder[n].runs = Recorded(n, g.runs)
                        /\ folder[n].axis = AxisOf(n, g.runs)
                        /\ request.mode = "tls" => folder[n].scale = ScaleOf(n, request.scale)
    BY DEF DoneIsAsAsked
  <2>2. n \in ChartsIn(request, g)
    BY <2>1 DEF ChartsIn
  <2>3. InPlace(n, g.runs)
    BY <2>1, <2>2, DoneInPlace
  <2>4. ChartShape(g, n)
    BY <2>1, <2>2, ProperRequest, PlanShape DEF IInv
  <2>5. folder[n].axis = AxisOf(n, Recorded(n, g.runs))
    BY <2>3 DEF InPlace, AsAsked, Sound
  <2>6. QED
    BY <2>3, <2>4, <2>5, RecordedSources DEF InPlace, AsAsked
<1>2. QED
  BY <1>1, Invariance, PTL

(* Without --skip-existing no chart shows points older than the command,   *)
(* although charts share answers and points are imported anew meanwhile.   *)
THEOREM FreshCharts == Spec => []FreshUnlessSkipping
<1>1. IInv => FreshUnlessSkipping
  <2>1. SUFFICES ASSUME IInv, phase = "done", ~request.validate, ~request.skip,
                        NEW n \in Chartset
                 PROVE  \A d \in folder[n].data : d[2] >= metadata[d[1]]
    BY DEF FreshUnlessSkipping
  <2>2. PICK g \in Groups(request) : n \in ChartsIn(request, g)
    BY <2>1 DEF Chartset, ChartsIn
  <2>3. InPlace(n, g.runs)
    BY <2>1, <2>2, DoneInPlace
  <2>4. QED
    BY <2>1, <2>3 DEF InPlace, AsAsked
<1>2. QED
  BY <1>1, Invariance, PTL

(* A file is removed only when every chart of its cell is in place, drawn  *)
(* from the runs of the request.                                           *)
THEOREM ObsoleteLast == Spec => ObsoleteGoesLast
<1>1. IInv /\ [Next]_vars =>
        [\A n \in DOMAIN folder \ DOMAIN folder' :
            \A m \in cell.charts :
              /\ m \in DOMAIN folder /\ Sound(m, folder[m])
              /\ folder[m].runs = Recorded(m, group.runs)]_vars
  <2>1. SUFFICES ASSUME IInv, [Next]_vars, NEW n \in DOMAIN folder \ DOMAIN folder',
                        NEW m \in cell.charts
                 PROVE  /\ m \in DOMAIN folder /\ Sound(m, folder[m])
                        /\ folder[m].runs = Recorded(m, group.runs)
    OBVIOUS
  <2>2. folder' # folder /\ ~Replace
    BY <2>1, ReplaceEffect
  <2>3. RemoveObsolete
    BY <2>1, <2>2, FolderChanges
  <2>4. InPlace(m, group.runs)
    BY <2>1, <2>3, RemoveEffect
  <2>5. QED
    BY <2>4 DEF InPlace, AsAsked
<1>2. QED
  BY <1>1, Invariance, PTL DEF Spec, ObsoleteGoesLast

----------------------------------------------------------------------------
(* The refinement.  ChartFolder has the plan's operators of its own.       *)
LEMMA SameOperators ==
    ASSUME NEW n
    PROVE  /\ Folders!IsObsolete(n) <=> IsObsolete(n)
           /\ \A doc : Folders!Sound(n, doc) <=> Sound(n, doc)
           /\ \A doc : Folders!Put(folder, n, doc) = Put(folder, n, doc)
           /\ Folders!Drop(folder, n) = Drop(folder, n)
BY DEF Folders!IsObsolete, IsObsolete, Folders!Sound, Sound, Folders!Sources, Sources,
       Folders!AxisOf, AxisOf, Put, Drop

(* Every change of a folder is a sound chart that appears or an obsolete   *)
(* file that goes after its replacements are there, so that readers never  *)
(* see the exports that failed or were killed: the exporter implements     *)
(* ChartFolder.                                                            *)
THEOREM FolderImplemented == Spec => ImplementsFolder
<1>1. Init => Folders!Init
  BY ExportAssumption, SameOperators DEF Init, Folders!Init
<1>2. ASSUME IInv, Replace
      PROVE  Folders!Publish
  <2>1. PICK n : n = tmp.name
    OBVIOUS
  <2>2. PICK doc : /\ ChartShape(group, n) /\ AsAsked(n, group.runs, doc)
                   /\ n \in DOMAIN folder' /\ folder' = Put(folder, n, doc) /\ folder'[n] = doc
    BY <1>2, <2>1, ReplaceEffect
  <2>3. /\ ~Folders!IsObsolete(n) /\ Folders!Sound(n, folder'[n])
        /\ folder' = Folders!Put(folder, n, folder'[n])
    BY <2>2, SameOperators DEF ChartShape, AsAsked
  <2>4. QED
    BY <2>2, <2>3 DEF Folders!Publish
<1>3. ASSUME IInv, RemoveObsolete
      PROVE  Folders!Retire
  <2>1. PICK n \in DOMAIN folder : /\ IsObsolete(n) /\ Replacing(n, cell.charts)
                                   /\ folder' = Drop(folder, n)
    BY <1>3, RemoveEffect
  <2>2. phase # "idle" /\ group \in Groups(request) /\ Proper(request)
    BY <1>3, CellCharts, ProperRequest DEF RemoveObsolete, IInv, InCell
  <2>3. \A c \in cell.charts : c \in DOMAIN folder /\ ~Folders!IsObsolete(c)
    BY <1>3, <2>2, RemoveEffect, PlanShape, SameOperators DEF InPlace, Charts, ChartShape
  <2>4. Folders!Replaced(n)
    BY <2>1, <2>3 DEF Replacing, Folders!Replaced, Folders!SummaryMetrics, SummaryMetrics
  <2>5. Folders!IsObsolete(n) /\ folder' = Folders!Drop(folder, n)
    BY <2>1, SameOperators
  <2>6. QED
    BY <2>1, <2>4, <2>5 DEF Folders!Retire
<1>4. IInv /\ [Next]_vars => [Folders!Next]_folder
  BY <1>2, <1>3, FolderChanges DEF Folders!Next
<1>5. QED
  BY <1>1, <1>4, Invariance, PTL DEF Spec, ImplementsFolder, Folders!Spec

----------------------------------------------------------------------------
(* Types.  What is fetched and drawn stays within the imports so far, and  *)
(* queries and charts at hand are those of the cell at hand.               *)
CountersTyped ==
    /\ request \in Requests
    /\ phase \in Ended \cup {"metadata", "group", "origins", "cell", "query", "write",
                            "replace", "retire"}
    /\ db \in [Runs -> 0 .. imports] /\ metadata \in [Runs -> 0 .. imports]
    /\ commands \in 0 .. MaxCommands /\ faults \in 0 .. MaxFaults /\ imports \in 0 .. MaxImports

WorkTyped ==
    /\ \A f \in fetched : f.run \in Runs /\ f.gen \in 0 .. MaxImports
    /\ \A q \in todo : q[1] \in cell.charts /\ q[2] \in group.runs
    /\ todo # {} => phase \in {"query", "failed", "killed"}
    /\ made \subseteq Chartset

DocsTyped ==
    /\ \A n \in DOMAIN folder : IsObsolete(n) \/ DocOK(n, folder[n])
    /\ tmp = NoTmp \/ DocOK(tmp.name, tmp)
    /\ \A doc \in contents : DocOK(doc.name, doc) /\ doc.name \in cell.charts
    /\ contents # {} => phase \in {"write", "replace", "killed"}

Typed == CountersTyped /\ WorkTyped /\ DocsTyped

LEMMA CountersStep ==
    ASSUME Typed, [Next]_vars
    PROVE  CountersTyped'
<1> USE ExportAssumption DEF files, plan, answers, budgets, Typed, CountersTyped, Ended
<1>1. CASE Command
  BY <1>1 DEF Command, Begin
<1>2. CASE Retry
  BY <1>2 DEF Retry, Begin
<1>3. CASE Import
  <2>1. PICK r \in request.runs : db' = [db EXCEPT ![r] = @ + 1]
    BY <1>3 DEF Import
  <2>2. r \in Runs /\ imports < MaxImports /\ imports' = imports + 1
    BY <1>3 DEF Import
  <2>3. /\ db' \in [Runs -> 0 .. imports'] /\ metadata \in [Runs -> 0 .. imports']
        /\ imports' \in 0 .. MaxImports
    BY <2>1, <2>2
  <2>4. QED
    BY <1>3, <2>3 DEF Import
<1>4. CASE ReadMetadata
  <2>1. /\ metadata' = db /\ UNCHANGED <<db, request, commands, faults, imports>>
        /\ phase' \in {"done", "group"}
    BY <1>4 DEF ReadMetadata
  <2>2. QED
    BY <2>1
<1>5. CASE QueryFails \/ Kill
  <2>1. /\ faults < MaxFaults /\ faults' = faults + 1 /\ phase' \in {"failed", "killed"}
        /\ UNCHANGED <<db, metadata, request, commands, imports>>
    BY <1>5 DEF QueryFails, Kill
  <2>2. QED
    BY <2>1
<1>6. CASE UNCHANGED vars
  BY <1>6 DEF vars
<1>7. ASSUME Step, ~ReadMetadata
      PROVE  CountersTyped'
  <2>1. UNCHANGED <<db, metadata, request, commands, faults, imports>>
    BY <1>7 DEF Step, NextGroup, Finish, ReadOrigins, NextCell, GroupDone, Query, Render,
                OpenTemporary, Replace, Written, RemoveObsolete, CellDone
  <2>2. phase' \in Ended \cup {"metadata", "group", "origins", "cell", "query", "write",
                              "replace", "retire"}
    BY <1>7 DEF Step, NextGroup, Finish, ReadOrigins, NextCell, GroupDone, Query, Render,
                OpenTemporary, Replace, Written, RemoveObsolete, CellDone
  <2>3. QED
    BY <2>1, <2>2
<1>8. QED
  BY <1>1, <1>2, <1>3, <1>4, <1>5, <1>6, <1>7 DEF Next

LEMMA GroupRuns ==
    ASSUME IInv, phase \in InGroup
    PROVE  /\ group.runs \subseteq Runs /\ group \in Groups(request)
           /\ \A c \in Cells(request, group) : c.charts \subseteq Chartset
<1>1. group \in Groups(request) /\ Proper(request)
  BY ProperRequest DEF IInv, CellsInv, InGroup, InCell
<1>2. QED
  BY <1>1, GroupShape DEF Proper, Chartset, ChartsOf

LEMMA WorkStep ==
    ASSUME IInv, Typed, [Next]_vars
    PROVE  WorkTyped'
<1> USE DEF files, plan, answers, budgets
<1>0. WorkTyped
  BY DEF Typed
<1>1. CASE Command \/ Retry
  BY <1>1 DEF Command, Retry, Begin, WorkTyped
<1>2. CASE NextGroup
  <2>1. /\ phase = "group" /\ todo' = todo /\ fetched' = {} /\ made' = {}
    BY <1>2 DEF NextGroup
  <2>2. todo' = {}
    BY <1>0, <2>1 DEF WorkTyped
  <2>3. QED
    BY <2>1, <2>2 DEF WorkTyped
<1>3. CASE NextCell
  <2>1. phase = "cell" /\ cell' \in cells /\ UNCHANGED <<request, group, fetched>>
    BY <1>3 DEF NextCell
  <2> DEFINE kept == {n \in cell'.charts : Reusable(n)}
             known == {f.key : f \in fetched}
  <2>2. /\ made' = made \cup kept
        /\ todo' = {q \in (cell'.charts \ kept) \X group.runs :
                       /\ NeedsQuery(q[1]) /\ CacheKey(q[1]) \notin known
                       /\ q[2] \in Sources(q[1], group.runs)}
        /\ phase' = IF \E n \in cell'.charts \cap DOMAIN folder : request.skip /\ ~folder[n].whole
                    THEN "failed"
                    ELSE IF kept = cell'.charts THEN "retire" ELSE "query"
    BY <1>3 DEF NextCell
  <2>3. \A q \in todo' : q[1] \in cell'.charts /\ q[2] \in group'.runs
    BY <2>1, <2>2
  <2>4. todo' # {} => phase' \in {"query", "failed", "killed"}
    <3>1. kept = cell'.charts => todo' = {}
      BY <2>2
    <3>2. QED
      BY <2>2, <3>1
  <2>5. cell'.charts \subseteq Chartset
    <3>1. phase \in InGroup /\ cells \subseteq Cells(request, group)
      BY <2>1 DEF IInv, CellsInv, InGroup, InCell
    <3>2. QED
      BY <2>1, <3>1, GroupRuns
  <2>6. made' \subseteq Chartset'
    BY <1>0, <2>1, <2>2, <2>5 DEF WorkTyped, Chartset
  <2>7. QED
    BY <1>0, <2>1, <2>3, <2>4, <2>6 DEF WorkTyped
<1>4. CASE Query
  <2>1. PICK q \in todo :
          /\ todo' = todo \ {q}
          /\ fetched' = fetched \cup {[key |-> CacheKey(q[1]), run |-> q[2], gen |-> db[q[2]]]}
    BY <1>4 DEF Query
  <2>2. phase = "query" /\ UNCHANGED <<phase, request, group, cell, made>>
    BY <1>4 DEF Query
  <2>3. q[2] \in Runs
    <3>1. phase \in InGroup
      BY <2>2 DEF InGroup, InCell
    <3>2. q[2] \in group.runs
      BY <1>0, <2>1 DEF WorkTyped
    <3>3. QED
      BY <3>1, <3>2, GroupRuns
  <2>4. db[q[2]] \in 0 .. MaxImports
    BY <2>3, ExportAssumption DEF Typed, CountersTyped
  <2>5. QED
    BY <1>0, <2>1, <2>2, <2>3, <2>4 DEF WorkTyped, Chartset
<1>5. CASE Replace
  <2>1. /\ phase = "replace" /\ phase' = "write" /\ made' = made \cup {tmp.name}
        /\ UNCHANGED <<request, group, cell, todo, fetched>>
    BY <1>5 DEF Replace
  <2>2. tmp.name \in Chartset
    BY <1>5, <2>1, ReplaceEffect, GroupRuns DEF Charts, ChartsIn, ChartsOf, Chartset, InGroup, InCell,
       IInv, CellsInv
  <2>3. QED
    BY <1>0, <2>1, <2>2 DEF WorkTyped, Chartset
<1>6. CASE Import \/ UNCHANGED vars
  BY <1>0, <1>6, ImportTouches DEF WorkTyped, Chartset
<1>7. CASE QueryFails \/ Kill
  <2>1. phase' \in {"failed", "killed"} /\ UNCHANGED <<request, group, cell, todo, fetched, made>>
    BY <1>7 DEF QueryFails, Kill
  <2>2. QED
    BY <1>0, <2>1 DEF WorkTyped, Chartset
<1>8. ASSUME \/ ReadMetadata \/ Finish \/ ReadOrigins \/ GroupDone \/ Render
             \/ OpenTemporary \/ Written \/ RemoveObsolete \/ CellDone
      PROVE  WorkTyped'
  <2>1. UNCHANGED <<request, group, cell, todo, fetched, made>>
    BY <1>8 DEF ReadMetadata, Finish, ReadOrigins, GroupDone, Render, OpenTemporary, Written,
                RemoveObsolete, CellDone
  <2>2. todo = {} \/ phase' = phase
    BY <1>0, <1>8 DEF WorkTyped, ReadMetadata, Finish, ReadOrigins, GroupDone, Render, OpenTemporary,
                      Written, RemoveObsolete, CellDone
  <2>3. QED
    BY <1>0, <2>1, <2>2 DEF WorkTyped, Chartset
<1>9. QED
  BY <1>1, <1>2, <1>3, <1>4, <1>5, <1>6, <1>7, <1>8 DEF Next, Step

(* A rendered chart names runs and shows points that were imported.        *)
LEMMA RenderedTyped ==
    ASSUME IInv, Typed, phase = "query", NEW n
    PROVE  DocOK(n, Chart(n))
<1>1. group.runs \subseteq Runs
  BY GroupRuns DEF InGroup, InCell
<1>2. Recorded(n, group.runs) \subseteq Runs /\ Sources(n, group.runs) \subseteq Runs
  BY <1>1 DEF Recorded, Sources
<1>3. Chart(n).data \subseteq Runs \X (0 .. MaxImports)
  <2>1. CASE NeedsQuery(n)
    <3>1. Chart(n).data = {<<f.run, f.gen>> : f \in {f \in fetched : f.key = CacheKey(n)}}
      BY <2>1 DEF Chart
    <3>2. QED
      BY <3>1 DEF Typed, WorkTyped
  <2>2. CASE ~NeedsQuery(n)
    <3>1. Chart(n).data = {<<r, metadata[r]>> : r \in Sources(n, group.runs)}
      BY <2>2 DEF Chart
    <3>2. \A r \in Runs : metadata[r] \in 0 .. MaxImports
      BY ExportAssumption DEF Typed, CountersTyped
    <3>3. QED
      BY <1>2, <3>1, <3>2
  <2>3. QED
    BY <2>1, <2>2
<1>4. Chart(n).name = n /\ Chart(n).whole = TRUE /\ Chart(n).runs = Recorded(n, group.runs)
  BY DEF Chart
<1>5. QED
  BY <1>2, <1>3, <1>4 DEF DocOK

LEMMA DocsStep ==
    ASSUME IInv, Typed, [Next]_vars
    PROVE  DocsTyped'
<1> USE DEF files, plan, answers, budgets
<1>0. DocsTyped
  BY DEF Typed
<1>1. CASE Command \/ Retry
  BY <1>0, <1>1 DEF Command, Retry, Begin, DocsTyped
<1>2. CASE Render
  <2>1. /\ phase = "query" /\ phase' = "write"
        /\ contents' = {Chart(n) : n \in cell.charts \ made}
        /\ UNCHANGED <<folder, tmp, cell>>
    BY <1>2 DEF Render, Pending
  <2>2. \A doc \in contents' : DocOK(doc.name, doc) /\ doc.name \in cell.charts
    <3>1. \A n : Chart(n).name = n
      BY DEF Chart
    <3>2. QED
      BY <2>1, <3>1, RenderedTyped
  <2>3. QED
    BY <1>0, <2>1, <2>2 DEF DocsTyped
<1>3. CASE OpenTemporary
  <2>1. PICK doc \in contents : tmp' = [doc EXCEPT !.whole = FALSE]
    BY <1>3 DEF OpenTemporary
  <2>2. phase = "write" /\ phase' = "replace" /\ UNCHANGED <<folder, contents, cell>>
    BY <1>3 DEF OpenTemporary
  <2>3. doc = [name |-> doc.name, whole |-> TRUE, runs |-> doc.runs, data |-> doc.data,
               axis |-> doc.axis, scale |-> doc.scale, layout |-> doc.layout]
    BY <2>2 DEF IInv, ContentsInv
  <2>4. tmp' = [name |-> doc.name, whole |-> FALSE, runs |-> doc.runs, data |-> doc.data,
                axis |-> doc.axis, scale |-> doc.scale, layout |-> doc.layout]
    BY <2>1, <2>3
  <2>5. DocOK(tmp'.name, tmp')
    BY <1>0, <2>4 DEF DocsTyped, DocOK
  <2>6. QED
    BY <1>0, <2>2, <2>5 DEF DocsTyped
<1>4. CASE Replace
  <2>1. PICK doc \in contents :
          /\ doc.name = tmp.name
          /\ DOMAIN folder' = DOMAIN folder \cup {tmp.name}
          /\ folder'[tmp.name] = doc
          /\ \A m \in DOMAIN folder : m # tmp.name => folder'[m] = folder[m]
    BY <1>4, ReplaceEffect
  <2>2. phase' = "write" /\ tmp' = NoTmp /\ contents' \subseteq contents /\ UNCHANGED cell
    BY <1>4 DEF Replace
  <2>3. \A n \in DOMAIN folder' : IsObsolete(n) \/ DocOK(n, folder'[n])
    BY <1>0, <2>1 DEF DocsTyped
  <2>4. QED
    BY <1>0, <2>2, <2>3 DEF DocsTyped
<1>5. CASE RemoveObsolete
  <2>1. PICK n \in DOMAIN folder :
          /\ DOMAIN folder' = DOMAIN folder \ {n}
          /\ \A m \in DOMAIN folder : m # n => folder'[m] = folder[m]
    BY <1>5, RemoveEffect
  <2>2. \A m \in DOMAIN folder' : IsObsolete(m) \/ DocOK(m, folder'[m])
    BY <1>0, <2>1 DEF DocsTyped
  <2>3. UNCHANGED <<tmp, contents, phase, cell>>
    BY <1>5 DEF RemoveObsolete
  <2>4. QED
    BY <1>0, <2>2, <2>3 DEF DocsTyped
<1>6. CASE Import \/ UNCHANGED vars
  BY <1>0, <1>6, ImportTouches DEF DocsTyped
<1>7. CASE Kill
  BY <1>0, <1>7 DEF Kill, DocsTyped
<1>8. ASSUME \/ ReadMetadata \/ NextGroup \/ NextCell \/ Finish \/ ReadOrigins \/ GroupDone
             \/ Query \/ Written \/ CellDone \/ QueryFails
      PROVE  DocsTyped'
  <2>1. UNCHANGED <<folder, tmp, contents>>
    BY <1>8 DEF ReadMetadata, NextGroup, NextCell, Finish, ReadOrigins, GroupDone, Query, Written,
                CellDone, QueryFails
  <2>2. contents = {}
    BY <1>0, <1>8 DEF DocsTyped, ReadMetadata, NextGroup, NextCell, Finish, ReadOrigins, GroupDone,
                      Query, Written, CellDone, QueryFails
  <2>3. QED
    BY <1>0, <2>1, <2>2 DEF DocsTyped
<1>9. QED
  BY <1>1, <1>2, <1>3, <1>4, <1>5, <1>6, <1>7, <1>8 DEF Next, Step

(* Type correctness of the exporter (exporter.py, cli.py): a file, whole   *)
(* or temporary, shows points that were imported, and what is queried,     *)
(* rendered and made belongs to the request.                               *)
THEOREM TypeCorrect == Spec => []TypeOK
<1>1. Init => Typed
  <2>1. SUFFICES ASSUME Init PROVE Typed
    OBVIOUS
  <2>2. CountersTyped
    <3>1. /\ db = [r \in Runs |-> 0] /\ metadata = db /\ request \in Requests /\ phase = "idle"
          /\ commands = 0 /\ faults = 0 /\ imports = 0
      BY <2>1, ExportAssumption DEF Init
    <3>2. db \in [Runs -> 0 .. 0]
      BY <3>1
    <3>3. QED
      BY <3>1, <3>2, ExportAssumption DEF CountersTyped, Ended
  <2>3. WorkTyped
    BY <2>1 DEF Init, WorkTyped
  <2>4. DocsTyped
    BY <2>1, ExportAssumption DEF Init, DocsTyped
  <2>5. QED
    BY <2>2, <2>3, <2>4 DEF Typed
<1>2. IInv /\ Typed /\ [Next]_vars => Typed'
  BY CountersStep, WorkStep, DocsStep DEF Typed
<1>3. Typed => TypeOK
  <2>1. SUFFICES ASSUME Typed PROVE TypeOK
    OBVIOUS
  <2>2. db \in [Runs -> 0 .. MaxImports] /\ metadata \in [Runs -> 0 .. MaxImports]
    BY <2>1, ExportAssumption DEF Typed, CountersTyped
  <2>3. QED
    BY <2>1, <2>2 DEF Typed, CountersTyped, WorkTyped, DocsTyped, TypeOK
<1>4. QED
  BY <1>1, <1>2, <1>3, Invariance, PTL DEF Spec

=============================================================================
