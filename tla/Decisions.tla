----------------------------- MODULE Decisions -----------------------------
(***************************************************************************)
(* From the language model's answer to one decision per symbol: the check  *)
(* of makeLLMDecision, which keeps the answer or falls back to the simple  *)
(* decision, and ParseMultiCurrencyDecision, which reads what was kept.    *)
(* The two do not read alike: the first takes the JSON out of a Markdown   *)
(* fence, the second takes a fenced answer for prose and searches it.      *)
(*                                                                         *)
(* An answer is abstracted to what the two distinguish:                    *)
(*   form     "error" (no answer), "text" (no JSON), "map" (an object per  *)
(*            symbol) or "object" (a single decision);                     *)
(*   fenced   whether the JSON stands between Markdown fences;             *)
(*   entries  its decisions, in the order of the text, each with the       *)
(*            actions that its reasoning names in passing (words);         *)
(*   block    what the search for a symbol finds, which depends on lengths *)
(*            and blank lines: its "own" entry, the "rest" of the answer   *)
(*            from there on, or "none" (over 1000 characters).             *)
(***************************************************************************)
EXTENDS Naturals, Sequences

CONSTANT Symbols        \* cfg.CryptoSymbols

Opening == {"BUY", "SELL"}
Closing == {"CLOSE_LONG", "CLOSE_SHORT"}
TradeActions == Opening \cup Closing

\* What mapToTradeAction knows.  An answer may also say something else
\* ("WAIT"), or nothing ("").
Known == TradeActions \cup {"HOLD"}

Entry == [symbol : Symbols, action : Known \cup {"WAIT", ""}, words : SUBSET Known]

IsAnswer(answer) ==
    /\ answer.form \in {"error", "text", "map", "object"}
    /\ answer.fenced \in BOOLEAN
    /\ answer.entries \in Seq(Entry)
    /\ answer.block \in {"own", "rest", "none"}
    /\ \A i, j \in DOMAIN answer.entries :
          answer.entries[i].symbol = answer.entries[j].symbol => i = j
    /\ answer.form = "object" => Len(answer.entries) = 1

\* The actions an answer names for a symbol: one at most.
Named(answer, symbol) ==
    {answer.entries[i].action :
       i \in {j \in DOMAIN answer.entries : answer.entries[j].symbol = symbol}}

-----------------------------------------------------------------------------
(* makeLLMDecision *)

\* A slip: whatever the model says is handed on.
KeptUnchecked(answer) == {"answer"}

\* The text handed on: the answer as it came, fences included, or the simple
\* decision.  Only one entry is checked, whichever comes first out of the map.
Kept(answer) ==
    IF answer.form \in {"error", "text"} \/ answer.entries = <<>>
      THEN {"simple"}
      ELSE {IF answer.entries[i].action = "" THEN "simple" ELSE "answer" :
              i \in DOMAIN answer.entries}

-----------------------------------------------------------------------------
(* ParseMultiCurrencyDecision *)

\* A slip: an action is taken as it is.
Unmapped(action, sized) == [action |-> action, sized |-> sized]

\* A decision: its action, "invalid" when the action is not known, and whether
\* it has a position size.
Decision(action, sized) ==
    [action |-> IF action \in Known THEN action ELSE "invalid", sized |-> sized]

\* A symbol that is not mentioned holds.
Default == Decision("HOLD", FALSE)

FromJSON(answer) ==
    [s \in Symbols |->
       IF Named(answer, s) = {} THEN Default
       ELSE Decision(CHOOSE a \in Named(answer, s) : TRUE, TRUE)]

\* The actions in the text found for a symbol.
Block(answer, symbol) ==
    LET from == CHOOSE i \in DOMAIN answer.entries : answer.entries[i].symbol = symbol
        to   == IF answer.block = "own" THEN from ELSE Len(answer.entries)
    IN  UNION {{answer.entries[i].action} \cup answer.entries[i].words : i \in from..to}

\* extractAction tries the actions in the order of a Go map: any that occurs.
\* A word after "action" or "decision" in a reasoning comes before them and need
\* not be an action.
Extracted(actions) == (actions \cap Known) \cup {"invalid"}

\* The key "position_size" is not among the patterns for a size, which a
\* reasoning may give in other words.
FoundInText(answer, symbol) ==
    IF Named(answer, symbol) = {} \/ answer.block = "none"
      THEN {Default}
      ELSE {Decision(a, sized) :
              a \in Extracted(Block(answer, symbol)), sized \in BOOLEAN}

\* makeSimpleDecision: "hold" under every symbol, as the search finds it.
SimpleDecision == [s \in Symbols |-> Default]

\* The decisions that may be read from the text handed on.
Parsed(kept, answer) ==
    IF kept = "simple" THEN {SimpleDecision}
    ELSE IF answer.form \in {"map", "object"} /\ ~answer.fenced THEN {FromJSON(answer)}
    ELSE {f \in [Symbols -> UNION {FoundInText(answer, s) : s \in Symbols}] :
            \A s \in Symbols : f[s] \in FoundInText(answer, s)}
=============================================================================
