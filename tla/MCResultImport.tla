--------------------------- MODULE MCResultImport ---------------------------
(* Two references and artifacts of two cells, one of them warm-up.  The    *)
(* second artifact is bad in its warm-up record and in its measured raw    *)
(* points, and the third has no record of its measured cell.               *)
EXTENDS ResultImport, TLC
CONSTANTS i1, i2, d1, d2, d3, warm, main

TwoImages == {i1, i2}
OneImage == {i1}
TwoDigests == {d1, d2}
ThreeDigests == {d1, d2, d3}
TwoCells == {warm, main}
WarmUp == {warm}
NoneBad == {}
WithoutRecord == {<<d3, main>>}
BadWarmRecord == {<<d2, warm>>}
BadMainRaw == {<<d2, main>>}
BetweenImports == {"idle"}
=============================================================================
