----------------------------- MODULE MCBenchJob -----------------------------
(* Two launches, of one run or of two, on one client VM.                   *)
EXTENDS BenchJob, TLC
CONSTANTS l1, l2, r1, r2

TwoLaunches == {l1, l2}
TwoRuns == {r1, r2}
OneLaunch == {l1}
OneRun == {r1}
OnePolled == {l1}
RunSymmetry == Permutations(TwoRuns)
=============================================================================
