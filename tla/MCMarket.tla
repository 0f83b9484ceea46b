------------------------------ MODULE MCMarket ------------------------------
(***************************************************************************)
(* MarketWatch for TLC.                                                    *)
(***************************************************************************)
EXTENDS MarketWatch

\* No candle, one, two, the 13 and 14 of fetchATRFromBinance, and for each
\* indicator as many as it takes and one less.
Boundaries ==
    {0, 1, 2, 13, 14} \cup UNION {{WarmUp[name] - 1, WarmUp[name]} : name \in DOMAIN WarmUp}
=============================================================================
