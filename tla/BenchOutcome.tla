---------------------------- MODULE BenchOutcome ----------------------------
(* What `make bench' promises of a launch, without the machinery: a run is *)
(* published once and as a whole, a launch is given one final verdict, and *)
(* "complete" is said only of a published run.                             *)

CONSTANTS Launches, Runs

VARIABLES
    runOf,      \* the run a launch asks for
    published,  \* whether the registry holds the whole result of a run
    verdict     \* what the operator was told of a launch

vars == <<runOf, published, verdict>>

Init ==
    /\ runOf \in [Launches -> Runs]
    /\ published = [r \in Runs |-> FALSE]
    /\ verdict = [l \in Launches |-> "none"]

Publish(r) ==
    /\ ~published[r]
    /\ published' = [published EXCEPT ![r] = TRUE]
    /\ UNCHANGED <<runOf, verdict>>

ReportComplete(l) ==
    /\ verdict[l] = "none"
    /\ published[runOf[l]]
    /\ verdict' = [verdict EXCEPT ![l] = "complete"]
    /\ UNCHANGED <<runOf, published>>

(* Giving up says nothing of the run, which may still be published.        *)
GiveUp(l) ==
    /\ verdict[l] = "none"
    /\ verdict' = [verdict EXCEPT ![l] = "gave up"]
    /\ UNCHANGED <<runOf, published>>

Next ==
    \/ \E r \in Runs : Publish(r)
    \/ \E l \in Launches : ReportComplete(l) \/ GiveUp(l)

Spec == Init /\ [][Next]_vars
=============================================================================
