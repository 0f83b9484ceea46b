------------------------------ MODULE MCClock ------------------------------
(* TradingClock for TLC: a day of 15 minutes with three slots each. *)
EXTENDS TradingClock

MCTickAt == [l \in Loops |-> IF l = "main" THEN 1 ELSE 0]
=============================================================================
