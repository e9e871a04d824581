---------------------------- MODULE ChartFolder ----------------------------
(***************************************************************************)
(* What the readers of the chart folders may rely on while exports run,    *)
(* fail and are repeated: a chart appears whole and as what its metadata   *)
(* says, is only ever replaced by another such chart, and a file of an     *)
(* earlier version goes when the charts that replace it are there.         *)
(***************************************************************************)
EXTENDS ChartPlan

VARIABLE folder   \* the files: a function from names to charts

Put(files, n, doc) == [m \in DOMAIN files \cup {n} |-> IF m = n THEN doc ELSE files[m]]
Drop(files, n) == [m \in DOMAIN files \ {n} |-> files[m]]

Init == \A n \in DOMAIN folder : IsObsolete(n) \/ Sound(n, folder[n])

Publish ==
    \E n \in DOMAIN folder' :
        /\ ~IsObsolete(n)
        /\ Sound(n, folder'[n])
        /\ folder' = Put(folder, n, folder'[n])

(* The charts that replace an obsolete file, one per metric it showed.     *)
Replaced(n) ==
    \A m \in IF n.metric = None THEN SummaryMetrics ELSE {n.metric} :
        \E c \in DOMAIN folder :
            /\ ~IsObsolete(c)
            /\ c.folder = n.folder /\ c.family = n.family /\ c.profile = n.profile
            /\ c.metric = m

Retire ==
    \E n \in DOMAIN folder :
        /\ IsObsolete(n)
        /\ Replaced(n)
        /\ folder' = Drop(folder, n)

Next == Publish \/ Retire
Spec == Init /\ [][Next]_folder
=============================================================================
