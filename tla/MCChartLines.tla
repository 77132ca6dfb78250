---------------------------- MODULE MCChartLines ----------------------------
(***************************************************************************)
(* Instances of ChartLines for TLC.                                        *)
(***************************************************************************)
EXTENDS ChartLines

CONSTANTS l1, l2, i1, i2

OneLine == <<l1>>
=============================================================================
