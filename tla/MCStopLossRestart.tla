------------------------- MODULE MCStopLossRestart -------------------------
(***************************************************************************)
(* StopLossRestart for TLC: one symbol at 1000 that may fall to 980 for a  *)
(* moment, a stop at 990, two positions, whose price a trade may not       *)
(* report, one order, and one crash.                                       *)
(***************************************************************************)
EXTENDS StopLossRestart
=============================================================================
