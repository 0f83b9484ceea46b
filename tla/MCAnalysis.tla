----------------------------- MODULE MCAnalysis -----------------------------
(* AnalysisRun for TLC: two symbols and the answers that differ in kind. *)
EXTENDS AnalysisRun

CONSTANTS btc, eth

An(form, fenced, entries, block) ==
    [form |-> form, fenced |-> fenced, entries |-> entries, block |-> block]

Is(symbol, action) == [symbol |-> symbol, action |-> action, words |-> {}]

HoldAndClose == <<Is(btc, "HOLD"), Is(eth, "CLOSE_LONG")>>

\* One of every kind that the code treats differently.
MCAnswers ==
    {NoAnswer,
     An("text", FALSE, <<Is(btc, "BUY")>>, "rest"),
     An("map", FALSE, <<>>, "none"),
     An("map", FALSE, <<Is(btc, "BUY"), Is(eth, "")>>, "none"),
     An("map", FALSE, HoldAndClose, "none"),
     An("object", FALSE, <<Is(eth, "SELL")>>, "none"),
     An("object", TRUE, <<[Is(btc, "WAIT") EXCEPT !.words = {"SELL"}]>>, "rest"),
     An("map", TRUE, <<Is(eth, "BUY"), Is(btc, "CLOSE_SHORT")>>, "own")}
    \cup {An("map", TRUE, HoldAndClose, block) : block \in {"rest", "none"}}
=============================================================================
