------------------------- MODULE MCRequestDeadline -------------------------
(* Two channels: independent HTTP/1 connections, or two streams of one     *)
(* HTTP/2 connection.                                                      *)
EXTENDS RequestDeadline, TLC
CONSTANTS c1, c2

OneChannel == {c1}
TwoChannels == {c1, c2}
ChannelSymmetry == Permutations(TwoChannels)
=============================================================================
