---------------------------- MODULE RunSelection ----------------------------
(***************************************************************************)
(* From run ids to what may be drawn in one chart: runs.py, profile_slot() *)
(* of common.py, and the metadata queries of influx.py.  The summary rows   *)
(* of the supplied runs are read one by one and put into cells; whatever   *)
(* does not fit ends the command.  Run ids come in the order they were     *)
(* typed and rows in the order of InfluxDB's tables: in any order here.    *)
(*                                                                         *)
(* A scenario tag is a base and the stack suffix it was stored with.       *)
(***************************************************************************)
EXTENDS Executions, FiniteSets

CONSTANTS
    Inputs,    \* mode, runs supplied, summary rows and raw origins in InfluxDB
    FamilyOf,  \* workload of a run, part of its id
    StackOf,   \* stack of a runtime tag (STACK_PREFIXES)
    Configs    \* TLS versions and groups that are supported

(* The queries ask for the supplied runs only.                             *)
ASSUME SelectionAssumption ==
    /\ \A r \in DOMAIN FamilyOf : FamilyOf[r] \in {"baseline", "linear", "race"}
    /\ \A i \in Inputs :
        /\ i.mode \in {"detailed", "scenario", "tls"}
        /\ i.runs \subseteq DOMAIN FamilyOf /\ IsFiniteSet(i.runs)
        /\ IsFiniteSet(i.rows) /\ \A row \in i.rows : row.run \in i.runs
        /\ \A o \in i.origins :
            o = [run |-> o.run, scenario |-> o.scenario, stack |-> o.stack, execution |-> o.execution]

VARIABLES
    input,    \* the one of Inputs that is at hand
    todo,     \* runs still to be read
    left,     \* rows of the current run still to be read
    placed,   \* what was put where: cell, slot and content
    waiting,  \* cells still to be looked at
    agreed,   \* what was first said of a subject, and holds from then on
    verdict   \* "runs", "rows", "cells", then "accepted" or "rejected"

vars == <<input, todo, left, placed, waiting, agreed, verdict>>

----------------------------------------------------------------------------
(* metadata_query() and scenario_metadata_query(): the rows of the runs.   *)
RowsOf(r) == {row \in input.rows : row.run = r}
ExecutionsOf(rows) == {row.execution : row \in rows}
Complete(r, rows) == ExecutionsOf(rows) = ExpectedExecutions(FamilyOf[r])

(* parse_scenario_metadata_rows(): one value per field and identity.       *)
Identity(row) == <<row.run, row.scenario, row.stack, row.execution, row.cell>>
Ambiguous(rows) == \E x, y \in rows : x # y /\ Identity(x) = Identity(y)

Init ==
    /\ input \in Inputs
    /\ todo = input.runs
    /\ left = {} /\ placed = {} /\ waiting = {} /\ agreed = {}
    /\ verdict = IF input.mode # "detailed" /\ Ambiguous(input.rows) THEN "rejected" ELSE "runs"

Reject ==
    /\ verdict' = "rejected"
    /\ UNCHANGED <<input, todo, left, placed, waiting, agreed>>

----------------------------------------------------------------------------
(* Detailed mode, build_comparisons(): a comparison is a scenario under    *)
(* one configuration; each stack has one run per workload in it.           *)
Tags(row) == <<row.scenario, row.stack, row.config>>

Base(row) ==
    IF row.scenario.suffix = StackOf[row.stack] THEN [row.scenario EXCEPT !.suffix = "none"]
    ELSE row.scenario

Seat(r, row) ==
    [cell |-> <<Base(row), row.config>>, slot |-> <<StackOf[row.stack], FamilyOf[r]>>, content |-> r]

Occupied(seat) == \E p \in placed : p.cell = seat.cell /\ p.slot = seat.slot

SeatRun ==
    /\ verdict = "runs" /\ input.mode = "detailed"
    /\ \E r \in todo :
        LET tags == {Tags(row) : row \in RowsOf(r)}
        IN  IF Cardinality(tags) # 1 \/ \E t \in tags : t[3] \notin Configs
            THEN Reject
            ELSE LET seat == Seat(r, CHOOSE row \in RowsOf(r) : TRUE)
                 IN  IF Occupied(seat) THEN Reject
                     ELSE /\ placed' = placed \cup {seat}
                          /\ todo' = todo \ {r}
                          /\ UNCHANGED <<input, left, waiting, agreed, verdict>>

(* validate_metadata(): every execution once, with verified TLS evidence.  *)
MetadataValid(r) ==
    /\ Cardinality(RowsOf(r)) = Cardinality(ExpectedExecutions(FamilyOf[r]))
    /\ Complete(r, RowsOf(r))
    /\ \A row \in RowsOf(r) : row.proven

(* origin_query(), parse_origins(): every execution has one first sample,  *)
(* under the tags of the summary.                                          *)
OriginsValid(r) ==
    LET origins == {o \in input.origins : o.run = r}
    IN  /\ \A o \in origins : \A row \in RowsOf(r) :
            o.scenario = row.scenario /\ o.stack = row.stack
        /\ Cardinality(origins) = Cardinality(ExecutionsOf(origins))
        /\ Complete(r, origins)

(* The runs of all comparisons that were asked for get one verdict here;    *)
(* the program reaches it comparison by comparison, each before its export. *)
ConcludeDetailed ==
    /\ verdict = "runs" /\ input.mode = "detailed" /\ todo = {}
    /\ verdict' = IF \A r \in input.runs : MetadataValid(r) /\ OriginsValid(r)
                  THEN "accepted" ELSE "rejected"
    /\ UNCHANGED <<input, todo, left, placed, waiting, agreed>>

----------------------------------------------------------------------------
(* Comparison modes, build_summary_cells().                                *)
RowValid(row) ==
    /\ row.proven
    /\ row.config \in Configs
    /\ row.scenario.suffix = StackOf[row.stack]

OpenRun ==
    /\ verdict = "runs" /\ input.mode # "detailed"
    /\ \E r \in todo :
        IF Complete(r, RowsOf(r))
        THEN /\ left' = RowsOf(r)
             /\ todo' = todo \ {r}
             /\ verdict' = "rows"
             /\ UNCHANGED <<input, placed, waiting, agreed>>
        ELSE Reject

(* Executions are told apart by scenario, stack and repeat within a cell,  *)
(* and a cell is one configuration, profile and set of settings.           *)
PlaceIn(row, settings) ==
    LET slot == ProfileSlot(FamilyOf[row.run], row.execution)
    IN  [cell |-> [config |-> row.config, family |-> FamilyOf[row.run],
                   profile |-> slot[1], settings |-> settings],
         slot |-> <<row.scenario.base, StackOf[row.stack], slot[2]>>,
         content |-> row]

PlaceIgnoringSettings(row) == PlaceIn(row, "any")
Place(row) == PlaceIn(row, row.settings)

(* cell["executions"][identity] = execution without the check before it.   *)
TakeRowOverwriting ==
    /\ verdict = "rows"
    /\ \E row \in left :
        LET place == Place(row)
        IN  IF ~RowValid(row) THEN Reject
            ELSE /\ placed' = {p \in placed : p.cell # place.cell \/ p.slot # place.slot} \cup {place}
                 /\ left' = left \ {row}
                 /\ verdict' = IF left' = {} THEN "runs" ELSE "rows"
                 /\ UNCHANGED <<input, todo, waiting, agreed>>

TakeRow ==
    /\ verdict = "rows"
    /\ \E row \in left :
        LET place == Place(row)
        IN  IF ~RowValid(row) \/ Occupied(place) THEN Reject
            ELSE /\ placed' = placed \cup {place}
                 /\ left' = left \ {row}
                 /\ verdict' = IF left' = {} THEN "runs" ELSE "rows"
                 /\ UNCHANGED <<input, todo, waiting, agreed>>

AllRead ==
    /\ verdict = "runs" /\ input.mode # "detailed" /\ todo = {}
    /\ waiting' = {p.cell : p \in placed}
    /\ verdict' = "cells"
    /\ UNCHANGED <<input, todo, left, placed, agreed>>

(* Profile Runs of a scenario and stack in a cell: all three, or none.     *)
In(c) == {p \in placed : p.cell = c}
ScenariosIn(c) == {p.slot[1] : p \in In(c)}
StacksIn(c, s) == {p.slot[2] : p \in {p \in In(c) : p.slot[1] = s}}
RepeatsIn(c, s, k) == {p.slot[3] : p \in {p \in In(c) : p.slot[1] = s /\ p.slot[2] = k}}
PoolsComplete(c) == \A s \in ScenariosIn(c) : \A k \in StacksIn(c, s) : RepeatsIn(c, s, k) = Repeats

(* build_scenario_summary_groups(): each cell compares at least two        *)
(* scenarios, all with the same stacks.                                    *)
CompareScenarios ==
    /\ verdict = "cells" /\ input.mode = "scenario"
    /\ \E c \in waiting :
        IF /\ Cardinality(ScenariosIn(c)) >= 2
           /\ \A s, t \in ScenariosIn(c) : StacksIn(c, s) = StacksIn(c, t)
           /\ PoolsComplete(c)
        THEN waiting' = waiting \ {c} /\ UNCHANGED <<input, todo, left, placed, agreed, verdict>>
        ELSE Reject

(* Cells of one group have different profiles and the same scenarios.      *)
ConcludeScenario ==
    /\ verdict = "cells" /\ input.mode = "scenario" /\ waiting = {}
    /\ LET cells == {p.cell : p \in placed}
       IN  verdict' = IF \A c, d \in cells : (c # d /\ c.config = d.config) =>
                            /\ <<c.family, c.profile>> # <<d.family, d.profile>>
                            /\ ScenariosIn(c) = ScenariosIn(d)
                      THEN "accepted" ELSE "rejected"
    /\ UNCHANGED <<input, todo, left, placed, waiting, agreed>>

(* A run recognised by its runtime alone.                                  *)
SaidOfRuntimes(c) ==
    LET profile == <<c.family, c.profile>>
    IN  {<<<<"profile", profile>>, c.settings>>}
        \cup {<<<<"run", p.content.run>>, <<p.content.stack>>>> : p \in In(c)}
        \cup {<<<<"pair", profile, p.slot[1], p.slot[2]>>, p.content.stack>> : p \in In(c)}

(* build_tls_comparison(): what setdefault() keeps of the first cell that  *)
(* says something of a profile, a run, or a scenario and stack.            *)
Said(c) ==
    LET profile == <<c.family, c.profile>>
    IN  {<<<<"profile", profile>>, c.settings>>}
        \cup {<<<<"run", p.content.run>>, Tags(p.content)>> : p \in In(c)}
        \cup {<<<<"pair", profile, p.slot[1], p.slot[2]>>, p.content.stack>> : p \in In(c)}

Consistent(facts) == \A f, g \in facts : f[1] = g[1] => f[2] = g[2]

(* Bytes are charted for the flat baseline: its requests are counted.      *)
Measured(p) ==
    /\ p.content.elapsed > 0
    /\ (p.cell.family = "baseline" /\ p.cell.profile = "Flat") => p.content.requests > 0

(* Only the settings of a profile are compared.                            *)
CompareSettingsOnly ==
    /\ verdict = "cells" /\ input.mode = "tls"
    /\ \E c \in waiting :
        LET facts == agreed \cup {<<<<"profile", <<c.family, c.profile>>>>, c.settings>>}
        IN  IF Consistent(facts) /\ PoolsComplete(c) /\ \A p \in In(c) : Measured(p)
            THEN /\ waiting' = waiting \ {c}
                 /\ agreed' = facts
                 /\ UNCHANGED <<input, todo, left, placed, verdict>>
            ELSE Reject

CompareConfigurations ==
    /\ verdict = "cells" /\ input.mode = "tls"
    /\ \E c \in waiting :
        LET facts == agreed \cup Said(c)
        IN  IF Consistent(facts) /\ PoolsComplete(c) /\ \A p \in In(c) : Measured(p)
            THEN /\ waiting' = waiting \ {c}
                 /\ agreed' = facts
                 /\ UNCHANGED <<input, todo, left, placed, verdict>>
            ELSE Reject

ConcludeTls ==
    /\ verdict = "cells" /\ input.mode = "tls" /\ waiting = {}
    /\ verdict' = "accepted"
    /\ UNCHANGED <<input, todo, left, placed, waiting, agreed>>

Ended ==
    /\ verdict \in {"accepted", "rejected"}
    /\ UNCHANGED vars

Next ==
    \/ SeatRun \/ ConcludeDetailed
    \/ OpenRun \/ TakeRow \/ AllRead
    \/ CompareScenarios \/ ConcludeScenario
    \/ CompareConfigurations \/ ConcludeTls
    \/ Ended

Spec == Init /\ [][Next]_vars

----------------------------------------------------------------------------
Supplied == UNION {RowsOf(r) : r \in input.runs}
FamilyIn(row) == FamilyOf[row.run]
Profile(row) == <<FamilyIn(row), ProfileSlot(FamilyIn(row), row.execution)[1]>>
Repeat(row) == ProfileSlot(FamilyIn(row), row.execution)[2]
Stack(row) == StackOf[row.stack]
Scenario(row) == row.scenario.base

(* Type invariant of the selection (runs.py).                              *)
TypeOK ==
    /\ input.runs \subseteq DOMAIN FamilyOf
    /\ todo \subseteq input.runs
    /\ left \subseteq Supplied
    /\ \A p \in placed : p.content \in Supplied \cup input.runs
    /\ waiting \subseteq {p.cell : p \in placed}
    /\ \A f \in agreed : f[1][1] = "run" => \E row \in RowsOf(f[1][2]) : f[2] = Tags(row)
    /\ verdict \in {"runs", "rows", "cells", "accepted", "rejected"}

(* What may be drawn, without any order of reading.                        *)
RowsSpeakForRuns(rows) ==
    \A r \in input.runs : Complete(r, {row \in rows : row.run = r})

AcceptableDetailed ==
    /\ RowsSpeakForRuns(Supplied)
    /\ \A x, y \in Supplied : (x # y /\ x.run = y.run) =>
            x.execution # y.execution /\ Tags(x) = Tags(y)
    /\ \A x, y \in Supplied : (x.run # y.run /\ FamilyIn(x) = FamilyIn(y)) =>
            <<Base(x), x.config, Stack(x)>> # <<Base(y), y.config, Stack(y)>>
    /\ \A x \in Supplied : x.proven /\ x.config \in Configs
    /\ {o \in input.origins : o.run \in input.runs}
         = {[run |-> x.run, scenario |-> x.scenario, stack |-> x.stack, execution |-> x.execution] :
               x \in Supplied}

Measurement(row) == <<row.config, Profile(row), Scenario(row), Stack(row), Repeat(row)>>

AcceptableTogether ==
    /\ RowsSpeakForRuns(Supplied) /\ ~Ambiguous(Supplied)
    /\ \A x \in Supplied : x.proven /\ x.config \in Configs /\ x.scenario.suffix = Stack(x)
    /\ \A x, y \in Supplied : x # y => Measurement(x) # Measurement(y)

AcceptableScenario ==
    /\ AcceptableTogether
    /\ \A x \in Supplied :
        LET group == {y \in Supplied : y.config = x.config}
            chart == {y \in group : Profile(y) = Profile(x)}
            scenarios == {Scenario(y) : y \in group}
        IN  /\ \A y \in chart : y.settings = x.settings
            /\ Cardinality(scenarios) >= 2
            /\ {<<Scenario(y), Stack(y), Repeat(y)>> : y \in chart}
                 = scenarios \X {Stack(y) : y \in chart} \X Repeats

AcceptableTls ==
    /\ AcceptableTogether
    /\ \A x \in Supplied :
        LET chart == {y \in Supplied : Profile(y) = Profile(x)}
            pair == {y \in chart : Scenario(y) = Scenario(x) /\ Stack(y) = Stack(x)}
        IN  /\ x.elapsed > 0
            /\ Profile(x) = <<"baseline", "Flat">> => x.requests > 0
            /\ \A y \in Supplied : y.run = x.run => Tags(y) = Tags(x)
            /\ \A y \in chart : y.settings = x.settings
            /\ \A y \in pair : y.stack = x.stack
            /\ {Repeat(y) : y \in {y \in pair : y.config = x.config}} = Repeats

Acceptable ==
    IF input.mode = "detailed" THEN AcceptableDetailed
    ELSE IF input.mode = "scenario" THEN AcceptableScenario ELSE AcceptableTls

(* Whether a set of runs is drawn depends on the set and its data alone,   *)
(* not on the order in which the ids were typed and the rows came, nor on  *)
(* which of two conflicting rows was read first (setdefault() of runs.py). *)
OrderNeverMatters ==
    verdict \in {"accepted", "rejected"} => (verdict = "accepted" <=> Acceptable)

(* What is drawn is drawn from every summary row of every supplied run, and *)
(* from each once: nothing is overwritten and nothing is passed over.      *)
EveryRowCounted ==
    verdict = "accepted" =>
        /\ \A r \in input.runs : Cardinality(RowsOf(r)) >= Cardinality(ExpectedExecutions(FamilyOf[r]))
        /\ Cardinality(placed) = Cardinality({p.content : p \in placed})
        /\ {p.content : p \in placed} = IF input.mode = "detailed" THEN input.runs ELSE Supplied

(* In TLS mode, build_tls_comparison() makes sure that all rows of a run   *)
(* bear the same tags; in scenario mode nobody does.                       *)
TaggedOnce ==
    input.mode = "scenario" => \A x, y \in Supplied : x.run = y.run => Tags(x) = Tags(y)

(* What is pooled are the three repeats of one profile by one runtime in   *)
(* one run; what is compared with it ran with the same settings, and in    *)
(* TLS mode on the same runtime and in other runs.  In scenario mode this  *)
(* takes runs that were each stored under one set of tags.                 *)
OnlyComparablePooled ==
    (verdict = "accepted" /\ input.mode # "detailed" /\ TaggedOnce) =>
        \A p, q \in placed :
            LET x == p.content
                y == q.content
                pooled == p.cell = q.cell /\ p.slot[1] = q.slot[1] /\ p.slot[2] = q.slot[2]
                compared == Profile(x) = Profile(y) /\ (input.mode = "tls" \/ x.config = y.config)
            IN  /\ pooled => x.run = y.run /\ x.stack = y.stack /\ (p # q => Repeat(x) # Repeat(y))
                /\ compared => x.settings = y.settings
                /\ (compared /\ input.mode = "tls") =>
                     /\ (p.slot[1] = q.slot[1] /\ p.slot[2] = q.slot[2]) => x.stack = y.stack
                     /\ x.config # y.config => x.run # y.run
=============================================================================
