------------------------------ MODULE MCTrade ------------------------------
(***************************************************************************)
(* TradeExecution for TLC: a balance of 100 USDT, a coin of 480 USDT       *)
(* traded in tenths, decisions that ask for 1%, 19%, 100% of the balance   *)
(* or for too much, with 5-fold or 10-fold leverage, or with a 20-fold one *)
(* that no configuration of 5-10 allows.  19% are worth 95 USDT at 5-fold  *)
(* leverage, too little; otherwise orders are of 4, 8, 10, 21 or 42        *)
(* tenths, some of them rounded up, others down.                           *)
(***************************************************************************)
EXTENDS TradeExecution
=============================================================================
