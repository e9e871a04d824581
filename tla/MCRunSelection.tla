--------------------------- MODULE MCRunSelection ---------------------------
(* Sets of runs that can be drawn together and sets that cannot, each with  *)
(* the data as imported, and with one thing about one run amiss.            *)
EXTENDS RunSelection, TLC

CONSTANTS one, other, later, goes, newer, slower, slow, slowOther, goesOther, flat, race

MCFamilyOf == flat :> "baseline" @@ race :> "race"
              @@ [r \in {one, other, later, goes, newer, slower, slow, slowOther, goesOther} |-> "linear"]
MCStackOf == "java21" :> "java" @@ "java25" :> "java" @@ "go" :> "go"
MCConfigs == {"1.2", "1.3"}

Run(base, stack, config, settings) ==
    [base |-> base, stack |-> stack, config |-> config, settings |-> settings]

About ==
    one       :> Run("s1", "java21", "1.2", "usual") @@
    other     :> Run("s2", "java21", "1.2", "usual") @@
    later     :> Run("s1", "java21", "1.3", "usual") @@
    goes      :> Run("s1", "go", "1.2", "usual") @@
    newer     :> Run("s1", "java25", "1.3", "usual") @@
    slower    :> Run("s1", "java21", "1.2", "slow") @@
    slow      :> Run("s3", "java21", "1.2", "slow") @@
    slowOther :> Run("s4", "java21", "1.2", "slow") @@
    goesOther :> Run("s2", "go", "1.2", "usual") @@
    flat      :> Run("s1", "java21", "1.2", "usual") @@
    race      :> Run("s1", "java21", "1.2", "usual")

Row(r, execution) ==
    LET run == About[r] IN
    [run |-> r, execution |-> execution, config |-> run.config, settings |-> run.settings,
     scenario |-> [base |-> run.base, suffix |-> MCStackOf[run.stack]], stack |-> run.stack,
     proven |-> TRUE, elapsed |-> 1, requests |-> 1, cell |-> 1, time |-> 1]

RowsAsRun(r) == {Row(r, e) : e \in ExpectedExecutions(MCFamilyOf[r])}
OriginsAsRun(r) ==
    {[run |-> r, scenario |-> row.scenario, stack |-> row.stack, execution |-> row.execution] :
        row \in RowsAsRun(r)}

(* What an import that broke off, was repeated or was corrected leaves.    *)
Amiss ==
    {"nothing", "missing", "again", "resumed", "retagged", "moved", "unproven", "instant",
     "idle", "odd", "raw missing", "raw retagged", "unsupported"}

RowsAmiss(r, amiss) ==
    LET rows == RowsAsRun(r)
        last == CHOOSE row \in rows : \A x \in rows : x.execution[2] <= row.execution[2]
        but(row) == (rows \ {last}) \cup {row}
        tag == [base |-> "s2", suffix |-> last.scenario.suffix]
    IN  IF amiss = "missing" THEN rows \ {last}
        ELSE IF amiss = "again" THEN rows \cup {[last EXCEPT !.cell = 2]}
        ELSE IF amiss = "resumed" THEN rows \cup {[last EXCEPT !.time = 2]}
        ELSE IF amiss = "retagged" THEN rows \cup {[row EXCEPT !.scenario = tag] : row \in rows}
        ELSE IF amiss = "moved" THEN but([last EXCEPT !.scenario = tag])
        ELSE IF amiss = "unproven" THEN but([last EXCEPT !.proven = FALSE])
        ELSE IF amiss = "instant" THEN but([last EXCEPT !.elapsed = 0])
        ELSE IF amiss = "idle" THEN {[row EXCEPT !.requests = 0] : row \in rows}
        ELSE IF amiss = "odd" THEN {[row EXCEPT !.scenario.suffix = "none"] : row \in rows}
        ELSE IF amiss = "unsupported" THEN {[row EXCEPT !.config = "1.1"] : row \in rows}
        ELSE rows

OriginsAmiss(r, amiss) ==
    LET origins == OriginsAsRun(r)
        some == CHOOSE o \in origins : TRUE
    IN  IF amiss = "raw missing" THEN origins \ {some}
        ELSE IF amiss = "raw retagged"
        THEN origins \cup {[o EXCEPT !.scenario.base = "s2"] : o \in origins}
        ELSE IF amiss = "odd" THEN {[o EXCEPT !.scenario.suffix = "none"] : o \in origins}
        ELSE origins

(* In mode m, the runs R are supplied and something is amiss with r.       *)
Given(m, R, r, amiss) ==
    [mode |-> m, runs |-> R,
     rows |-> UNION {IF x = r THEN RowsAmiss(r, amiss) ELSE RowsAsRun(x) : x \in R},
     origins |-> UNION {IF x = r THEN OriginsAmiss(r, amiss) ELSE OriginsAsRun(x) : x \in R}]

MCInputs ==
    {Given("detailed", R, one, a) : R \in {{one, other, goes}, {one, later}}, a \in Amiss}
    \cup {Given("detailed", R, CHOOSE r \in R : TRUE, "nothing") :
            R \in {{one, slower}, {flat}, {race}, {one, flat, race}}}
    \cup {Given("scenario", {one, other}, one, a) : a \in Amiss}
    \cup {Given("scenario", R, one, a) : R \in {{one, later}, {one}}, a \in {"nothing", "retagged", "again"}}
    \cup {Given("scenario", R, one, "nothing") :
            R \in {{one, other, goes}, {one, other, slower}, {one, slow},
                   {one, other, slow, slowOther}, {one, other, slow},
                   {one, other, goes, goesOther}}}
    \cup {Given("tls", {one, later}, one, a) : a \in Amiss}
    \cup {Given("tls", R, one, "nothing") :
            R \in {{one, other, later}, {one, newer}, {one, slower, later}, {later, slower}, {one}}}
    \cup {Given("tls", {flat}, flat, a) : a \in {"nothing", "idle", "instant"}}
    \cup {Given("tls", {race}, race, a) : a \in {"nothing", "instant"}}
=============================================================================
