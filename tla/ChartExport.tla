---------------------------- MODULE ChartExport ----------------------------
(***************************************************************************)
(* export-tls-result-svgs.py at work on the chart folders: exporter.py,    *)
(* write_svg() of svg.py and the control of cli.py.  One process runs at a *)
(* time.  A query may fail, the process may be killed between any two      *)
(* steps, points may be imported anew while it runs, and the command is    *)
(* given again, for the same runs or for others.                           *)
(***************************************************************************)
EXTENDS ChartPlan, FiniteSets

CONSTANTS
    Requests,        \* command lines that are given
    InitialFolders,  \* what earlier versions may have left
    MaxCommands, MaxFaults, MaxImports

(* The metadata of a file names runs, and its samples are of imports.      *)
DocOK(n, doc) ==
    /\ doc.name = n /\ doc.whole \in BOOLEAN /\ doc.runs \subseteq Runs
    /\ doc.data \subseteq Runs \X (0 .. MaxImports)

ASSUME ExportAssumption ==
    /\ Requests # {}
    /\ \A req \in Requests :
        /\ req.mode \in Modes /\ req.runs \subseteq Runs
        /\ req.scale \in Scales /\ req.skip \in BOOLEAN /\ req.validate \in BOOLEAN
        /\ Accepted(req)
    /\ \A files \in InitialFolders : \A n \in DOMAIN files :
        \/ IsObsolete(n)
        \/ Sound(n, files[n]) /\ DocOK(n, files[n])
    /\ MaxCommands \in Nat /\ MaxFaults \in Nat /\ MaxImports \in Nat

VARIABLES
    db,        \* generation of the points of each run in InfluxDB
    folder,    \* the files of all chart folders
    tmp,       \* the chart in the temporary file that is being written
    request,   \* the command line of the current or last process
    phase,     \* where that process is, or how it ended
    metadata,  \* generation of each run when the summary metadata was read
    groups,    \* groups still to be exported
    group,     \* the group being exported,
    cells,     \* its cells still to be done,
    cell,      \* and the cell at hand
    todo,      \* queries of this cell still to be made: name and run
    fetched,   \* answers of this group: cache key, run and generation
    contents,  \* charts of this cell, rendered but not yet written
    made,      \* files generated, or found and reused, in this group
    commands, faults, imports   \* counters the bounds cap

files == <<folder, tmp>>
plan == <<groups, group, cells, cell>>
answers == <<todo, fetched, contents, made>>
budgets == <<commands, faults, imports>>
vars == <<db, files, request, phase, metadata, plan, answers, budgets>>

Folders == INSTANCE ChartFolder
Put(f, n, doc) == Folders!Put(f, n, doc)
Drop(f, n) == Folders!Drop(f, n)

Ended == {"idle", "done", "failed", "killed"}
Running == phase \notin Ended

NoGroup == [folder |-> None, runs |-> {}]
NoCell == Cell({}, {})
NoTmp == [name |-> None]

----------------------------------------------------------------------------
Init ==
    /\ db = [r \in Runs |-> 0]
    /\ folder \in InitialFolders
    /\ tmp = NoTmp
    /\ request = CHOOSE req \in Requests : TRUE
    /\ phase = "idle"
    /\ metadata = db
    /\ groups = {} /\ group = NoGroup /\ cells = {} /\ cell = NoCell
    /\ todo = {} /\ fetched = {} /\ contents = {} /\ made = {}
    /\ commands = 0 /\ faults = 0 /\ imports = 0

(* A list of generated files that outlives a call of main().               *)
BeginKeepingMade(req) ==
    /\ ~Running
    /\ request' = req
    /\ phase' = "metadata"
    /\ groups' = {} /\ group' = NoGroup /\ cells' = {} /\ cell' = NoCell
    /\ todo' = {} /\ fetched' = {} /\ contents' = {}
    /\ UNCHANGED <<db, files, metadata, made, faults, imports>>

(* main() up to the first query.                                           *)
Begin(req) ==
    /\ ~Running
    /\ request' = req
    /\ phase' = "metadata"
    /\ groups' = {} /\ group' = NoGroup /\ cells' = {} /\ cell' = NoCell
    /\ todo' = {} /\ fetched' = {} /\ contents' = {} /\ made' = {}
    /\ UNCHANGED <<db, files, metadata, faults, imports>>

Command ==
    /\ commands < MaxCommands
    /\ \E req \in Requests : Begin(req)
    /\ commands' = commands + 1

(* A command that did not succeed is given again as it was.                *)
Retry ==
    /\ phase \in {"failed", "killed"}
    /\ Begin(request)
    /\ UNCHANGED commands

(* The summary metadata decides what there is to draw.  Validation of the  *)
(* comparison modes ends here; detailed mode goes on to the origins.       *)
ReadMetadata ==
    /\ phase = "metadata"
    /\ metadata' = [r \in Runs |-> db[r]]
    /\ IF request.validate /\ request.mode # "detailed"
       THEN phase' = "done" /\ UNCHANGED groups
       ELSE phase' = "group" /\ groups' = Groups(request)
    /\ UNCHANGED <<db, files, request, group, cells, cell, answers, budgets>>

(* One cache for all comparisons.                                          *)
NextGroupKeepsCaches ==
    /\ phase = "group" /\ groups # {}
    /\ group' = CHOOSE g \in groups : TRUE
    /\ groups' = groups \ {group'}
    /\ cells' = Cells(request, group')
    /\ phase' = IF request.mode = "detailed" THEN "origins" ELSE "cell"
    /\ made' = {}
    /\ UNCHANGED <<db, files, request, metadata, cell, todo, fetched, contents, budgets>>

(* The caches of export() live as long as a comparison does.               *)
NextGroup ==
    /\ phase = "group" /\ groups # {}
    /\ group' = CHOOSE g \in groups : TRUE
    /\ groups' = groups \ {group'}
    /\ cells' = Cells(request, group')
    /\ phase' = IF request.mode = "detailed" THEN "origins" ELSE "cell"
    /\ fetched' = {} /\ made' = {}
    /\ UNCHANGED <<db, files, request, metadata, cell, todo, contents, budgets>>

Finish ==
    /\ phase = "group" /\ groups = {}
    /\ phase' = "done"
    /\ UNCHANGED <<db, files, request, metadata, plan, answers, budgets>>

(* validate_sources().                                                     *)
ReadOrigins ==
    /\ phase = "origins"
    /\ phase' = IF request.validate THEN "group" ELSE "cell"
    /\ UNCHANGED <<db, files, request, metadata, plan, answers, budgets>>

Pending == cell.charts \ made

ReusableAlways(n) == n \in DOMAIN folder /\ Matches(request, n, group.runs, folder[n])
Reusable(n) == request.skip /\ n \in DOMAIN folder /\ Matches(request, n, group.runs, folder[n])

(* The files of the next cell are looked at; one that is not well-formed   *)
(* ends the export.                                                        *)
NextCell ==
    /\ phase = "cell" /\ cells # {}
    /\ cell' = CHOOSE c \in cells : TRUE
    /\ cells' = cells \ {cell'}
    /\ LET kept == {n \in cell'.charts : Reusable(n)}
           known == {f.key : f \in fetched}
       IN  /\ made' = made \cup kept
           /\ todo' = {q \in (cell'.charts \ kept) \X group.runs :
                         /\ NeedsQuery(q[1]) /\ CacheKey(q[1]) \notin known
                         /\ q[2] \in Sources(q[1], group.runs)}
           /\ phase' = IF \E n \in cell'.charts \cap DOMAIN folder : request.skip /\ ~folder[n].whole
                       THEN "failed"
                       ELSE IF kept = cell'.charts THEN "retire" ELSE "query"
    /\ UNCHANGED <<db, files, request, metadata, groups, group, fetched, contents, budgets>>

(* The check at the end of export() and export_scenario_summaries().       *)
GroupDone ==
    /\ phase = "cell" /\ cells = {}
    /\ phase' = IF request.mode = "tls" \/ made = ChartsOf(Cells(request, group))
                THEN "group" ELSE "failed"
    /\ UNCHANGED <<db, files, request, metadata, plan, answers, budgets>>

Query ==
    /\ phase = "query" /\ todo # {}
    /\ LET q == CHOOSE q \in todo : TRUE
       IN  /\ todo' = todo \ {q}
           /\ fetched' = fetched \cup {[key |-> CacheKey(q[1]), run |-> q[2], gen |-> db[q[2]]]}
    /\ UNCHANGED <<db, files, request, phase, metadata, plan, contents, made, budgets>>

Chart(n) ==
    [name |-> n, whole |-> TRUE,
     runs |-> Recorded(n, group.runs),
     data |-> IF NeedsQuery(n)
              THEN {<<f.run, f.gen>> : f \in {f \in fetched : f.key = CacheKey(n)}}
              ELSE {<<r, metadata[r]>> : r \in Sources(n, group.runs)},
     axis |-> AxisOf(n, group.runs),
     scale |-> ScaleOf(n, request.scale),
     layout |-> LayoutOf(request.mode)]

(* The combined charts of earlier versions removed as soon as their        *)
(* successors are rendered.                                                *)
RenderRetiring ==
    /\ phase = "query" /\ todo = {}
    /\ contents' = {Chart(n) : n \in Pending}
    /\ folder' = [n \in DOMAIN folder \ cell.obsolete |-> folder[n]]
    /\ phase' = "write"
    /\ UNCHANGED <<db, tmp, request, metadata, plan, todo, fetched, made, budgets>>

(* All charts of the cell are rendered before the first is written.        *)
Render ==
    /\ phase = "query" /\ todo = {}
    /\ contents' = {Chart(n) : n \in Pending}
    /\ phase' = "write"
    /\ UNCHANGED <<db, files, request, metadata, plan, todo, fetched, made, budgets>>

(* write_svg() without the temporary file.                                 *)
OpenInPlace ==
    /\ phase = "write" /\ contents # {}
    /\ tmp' = CHOOSE doc \in contents : TRUE
    /\ folder' = Put(folder, tmp'.name, [tmp' EXCEPT !.whole = FALSE])
    /\ phase' = "replace"
    /\ UNCHANGED <<db, request, metadata, plan, answers, budgets>>

(* write_svg(): the temporary file is begun ...                            *)
OpenTemporary ==
    /\ phase = "write" /\ contents # {}
    /\ tmp' = [(CHOOSE doc \in contents : TRUE) EXCEPT !.whole = FALSE]
    /\ phase' = "replace"
    /\ UNCHANGED <<db, folder, request, metadata, plan, answers, budgets>>

(* ... completed, and renamed.                                             *)
Replace ==
    /\ phase = "replace"
    /\ folder' = Put(folder, tmp.name, [tmp EXCEPT !.whole = TRUE])
    /\ tmp' = NoTmp
    /\ contents' = {doc \in contents : doc.name # tmp.name}
    /\ made' = made \cup {tmp.name}
    /\ phase' = "write"
    /\ UNCHANGED <<db, request, metadata, plan, todo, fetched, budgets>>

(* The combined charts of earlier versions go when their successors are in *)
(* place.                                                                  *)
Written ==
    /\ phase = "write" /\ contents = {}
    /\ phase' = "retire"
    /\ UNCHANGED <<db, files, request, metadata, plan, answers, budgets>>

RemoveObsolete ==
    /\ phase = "retire"
    /\ \E n \in cell.obsolete \cap DOMAIN folder : folder' = Drop(folder, n)
    /\ UNCHANGED <<db, tmp, request, phase, metadata, plan, answers, budgets>>

CellDone ==
    /\ phase = "retire" /\ cell.obsolete \cap DOMAIN folder = {}
    /\ phase' = "cell"
    /\ UNCHANGED <<db, files, request, metadata, plan, answers, budgets>>

----------------------------------------------------------------------------
(* A query fails, or its answer is refused: the traceback ends the process. *)
QueryFails ==
    /\ \/ phase \in {"metadata", "origins"}
       \/ phase = "query" /\ todo # {}
    /\ faults < MaxFaults
    /\ phase' = "failed"
    /\ faults' = faults + 1
    /\ UNCHANGED <<db, files, request, metadata, plan, answers, commands, imports>>

(* A temporary file that is left behind is truncated by its next writer.   *)
Kill ==
    /\ Running
    /\ faults < MaxFaults
    /\ phase' = "killed"
    /\ tmp' = NoTmp
    /\ faults' = faults + 1
    /\ UNCHANGED <<db, folder, request, metadata, plan, answers, commands, imports>>

(* A new import of a run, in one step: the batches in which it arrives are  *)
(* those of ResultImport.                                                   *)
Import ==
    /\ imports < MaxImports
    /\ \E r \in request.runs : db' = [db EXCEPT ![r] = @ + 1]
    /\ imports' = imports + 1
    /\ UNCHANGED <<files, request, phase, metadata, plan, answers, commands, faults>>

Step ==
    \/ ReadMetadata \/ NextGroup \/ Finish \/ ReadOrigins
    \/ NextCell \/ GroupDone \/ Query \/ Render
    \/ OpenTemporary \/ Replace \/ Written \/ RemoveObsolete \/ CellDone

Next == Step \/ Command \/ Retry \/ QueryFails \/ Kill \/ Import

(* The process runs on, and whoever needs the charts repeats the command.  *)
Fairness == WF_vars(Step) /\ WF_vars(Retry)

Spec == Init /\ [][Next]_vars /\ Fairness

----------------------------------------------------------------------------
Chartset == UNION {ChartsOf(Cells(request, g)) : g \in Groups(request)}

(* Type invariant of the exporter (exporter.py, cli.py).                   *)
TypeOK ==
    /\ db \in [Runs -> 0 .. MaxImports] /\ metadata \in [Runs -> 0 .. MaxImports]
    /\ \A n \in DOMAIN folder : IsObsolete(n) \/ DocOK(n, folder[n])
    /\ tmp = NoTmp \/ DocOK(tmp.name, tmp)
    /\ request \in Requests
    /\ phase \in Ended \cup {"metadata", "group", "origins", "cell", "query", "write",
                            "replace", "retire"}
    /\ \A doc \in contents : DocOK(doc.name, doc) /\ doc.name \in cell.charts
    /\ \A q \in todo : q[1] \in cell.charts /\ q[2] \in group.runs
    /\ made \subseteq Chartset
    /\ commands \in 0 .. MaxCommands /\ faults \in 0 .. MaxFaults /\ imports \in 0 .. MaxImports

(* An export that ends well leaves, for each chart that was asked for, a   *)
(* whole file of exactly the runs asked for, whether it wrote the file or  *)
(* found one of an earlier, perhaps killed, export; in TLS mode also on    *)
(* the scale asked for; and all completion charts of a group on one axis.  *)
DoneIsAsAsked ==
    (phase = "done" /\ ~request.validate) =>
        \A g \in Groups(request) : \A n \in ChartsOf(Cells(request, g)) :
            /\ n \in DOMAIN folder
            /\ Sound(n, folder[n])
            /\ folder[n].runs = Recorded(n, g.runs)
            /\ folder[n].axis = AxisOf(n, g.runs)
            /\ request.mode = "tls" => folder[n].scale = ScaleOf(n, request.scale)

(* Without --skip-existing no chart shows points older than the command.   *)
FreshUnlessSkipping ==
    (phase = "done" /\ ~request.validate /\ ~request.skip) =>
        \A n \in Chartset : \A d \in folder[n].data : d[2] >= metadata[d[1]]

(* A file is removed only when every chart of its cell is in place, drawn  *)
(* from the runs of the request (remove_obsolete_summary()).               *)
ObsoleteGoesLast ==
    [][\A n \in DOMAIN folder \ DOMAIN folder' :
          \A m \in cell.charts :
            /\ m \in DOMAIN folder /\ Sound(m, folder[m])
            /\ folder[m].runs = Recorded(m, group.runs)]_vars

(* Killed or failed exports never show in the folders: every change of a   *)
(* folder is one that ChartFolder allows.                                  *)
ImplementsFolder == Folders!Spec

(* With finitely many faults, a command that is repeated succeeds.         *)
ExportConverges == (phase = "metadata") ~> (phase = "done")
=============================================================================
