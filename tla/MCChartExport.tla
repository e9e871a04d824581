--------------------------- MODULE MCChartExport ---------------------------
(* Two scenarios under one or two TLS configurations, a race and a flat    *)
(* baseline; every mode is asked for one set of runs and for another, with *)
(* a4 a later race in the place of a1.                                     *)
EXTENDS ChartExport, TLC

CONSTANTS a1, a2, a3, a4, b1, b2

MCScenarioOf == a1 :> "s1" @@ a2 :> "s2" @@ a3 :> "s2" @@ a4 :> "s1" @@ b1 :> "s1" @@ b2 :> "s2"
MCConfigOf == [r \in Runs |-> IF r = a3 THEN "1.3" ELSE "1.2"]
MCFamilyOf == [r \in Runs |-> IF r \in {b1, b2} THEN "baseline" ELSE "race"]
MCProfiles == [baseline |-> {"Flat"}, linear |-> {"Fixed"}, race |-> {"10 VUs"}]

Request(mode, runs, names, scale, skip, validate) ==
    [mode |-> mode, runs |-> runs, names |-> names, forms |-> {"timeline", "bars"},
     scale |-> scale, skip |-> skip, validate |-> validate]

MCRequests ==
    { Request("detailed", {a1, b1, b2}, {"http"}, "logarithmic", TRUE, FALSE),
      Request("detailed", {a1, b1}, {"http"}, "linear", FALSE, FALSE),
      Request("detailed", {a1}, {}, "linear", FALSE, TRUE),
      Request("scenario", {a1, a2}, {}, "linear", TRUE, FALSE),
      Request("scenario", {a4, a2}, {}, "linear", TRUE, FALSE),
      Request("tls", {a2, a3}, {}, "linear", TRUE, FALSE),
      Request("tls", {a2, a3, b2}, {}, "logarithmic", TRUE, FALSE) }

OldFile(n) == [m \in {n} |-> [name |-> m, layout |-> "older"]]

MCInitialFolders ==
    { OldFile(Name(<<"1.2">>, "summary", None, "race", "10 VUs", None)),
      OldFile(Name(<<>>, "percentiles", "http", "race", "10 VUs", None)) }
=============================================================================
