--------------------------- MODULE TradeExecution ---------------------------
(***************************************************************************)
(* One trading decision on one symbol, from runTradingAnalysis through     *)
(* TradeCoordinator to BinanceExecutor, on an account in one-way position  *)
(* mode.  A step lies between two exchange calls; between any two of them  *)
(* a stop order may trigger on the exchange and end the position.          *)
(*                                                                         *)
(* Positions are signed quantities, in steps of the symbol's precision: a  *)
(* long one is positive, a short one negative, and zero is no position.    *)
(***************************************************************************)
EXTENDS Integers

CONSTANTS
    Percents,       \* position sizes the model (LLM) proposes, % of the balance
    Leverages,      \* leverages it proposes, 0 when it proposes none
    MinLeverage,    \* cfg.BinanceLeverage, the lower end of BINANCE_LEVERAGE
    Balance,        \* available USDT
    Price,          \* USDT for one unit of the coin
    StepsPerUnit,   \* 10^precision of getSymbolPrecision
    MinSteps,       \* its minimum quantity
    MaxHeld,        \* bound: the exchange accepts no larger position
    Disturbances    \* what may happen: "read", "call", "answer", "unrecognised", "stop"

ASSUME TradeAssumption ==
    /\ Percents \subseteq Nat
    /\ Leverages \subseteq Nat
    /\ MinLeverage \in Nat \ {0}
    /\ Balance \in Nat
    /\ Price \in Nat \ {0}
    /\ StepsPerUnit \in Nat \ {0}
    /\ MinSteps \in Nat \ {0}
    /\ MaxHeld \in Nat
    /\ Disturbances \subseteq {"read", "call", "answer", "unrecognised", "stop"}

Opening == {"BUY", "SELL"}
Closing == {"CLOSE_LONG", "CLOSE_SHORT"}

VARIABLES
    net,       \* the position on the exchange
    lev,       \* the symbol's leverage on the exchange
    pc,        \* the call that comes next, or "idle"
    decision,  \* the decision at hand, or the last one
    seen,      \* currentPosition, as last read
    amount,    \* positionSize
    report,    \* what became of the decision
    before,    \* the position when the decision was taken (history)
    calm       \* since then no read failed and no stop triggered (history)

vars == <<net, lev, pc, decision, seen, amount, report, before, calm>>

Size(position) == IF position < 0 THEN -position ELSE position

\* The side an action trades to.
Sign(action) == IF action \in {"BUY", "CLOSE_SHORT"} THEN 1 ELSE -1

\* An exchange call that fails without effect.
CallFails == "call" \in Disturbances

\* One that takes effect and whose answer is lost, with an error that
\* isNetworkError recognises by its words ("EOF", "timeout", "reset by peer").
AnswerLost == "answer" \in Disturbances

\* The same with an error it does not recognise: the client's own timeout
\* ("Client.Timeout exceeded"), or the exchange's "Timeout waiting for response".
AnswerUnrecognised == "unrecognised" \in Disturbances

Goto(label) == pc' = label /\ UNCHANGED report

\* ExecuteDecisionWithParams returns, or runTradingAnalysis goes on to the next
\* symbol.
Done(outcome) == pc' = "idle" /\ report' = outcome

\* GetCurrentPosition: after four failed attempts every caller takes the
\* position to be none.
ReadPosition ==
    \/ seen' = net /\ UNCHANGED calm
    \/ /\ "read" \in Disturbances
       /\ seen' = 0
       /\ calm' = FALSE

-----------------------------------------------------------------------------
(* The exchange *)

\* A server-side stop closes the position.
StopTriggers ==
    /\ "stop" \in Disturbances
    /\ net # 0
    /\ net' = 0
    /\ calm' = FALSE
    /\ UNCHANGED <<lev, pc, decision, seen, amount, report, before>>

\* A market order without ReduceOnly, of a quantity the margin allows.
Fill(quantity) ==
    /\ Size(net + quantity) <= MaxHeld
    /\ net' = net + quantity

-----------------------------------------------------------------------------
(* runTradingAnalysis and TradeCoordinator *)

Decide(action, percent, leverage) ==
    /\ pc = "idle"
    /\ decision' = [action |-> action, percent |-> percent, leverage |-> leverage]
    /\ amount' = 0
    /\ before' = net
    /\ calm' = TRUE
    /\ pc' = "validate"
    /\ report' = "none"
    /\ UNCHANGED <<net, lev, seen>>

\* The decision does not contradict the position.
Consistent(action, position) ==
    /\ action = "BUY" => position <= 0
    /\ action = "SELL" => position >= 0
    /\ action = "CLOSE_LONG" => position >= 0
    /\ action = "CLOSE_SHORT" => position <= 0

\* agents.ValidateDecision, which lets a close pass when there is no position.
ValidateDecision ==
    /\ pc = "validate"
    /\ ReadPosition
    /\ IF Consistent(decision.action, seen')
         THEN Goto("checks")
         ELSE Done("rejected")
    /\ UNCHANGED <<net, lev, decision, amount, before>>

\* preExecutionChecks: account, minimum balance and ticker.
PreExecutionChecks ==
    /\ pc = "checks"
    /\ \/ Balance >= 10 /\ Goto("position")
       \/ (CallFails \/ Balance < 10) /\ Done("rejected")
    /\ UNCHANGED <<net, lev, decision, seen, amount, before, calm>>

\* validateAction, on a position read again.
ValidateAction ==
    /\ pc = "position"
    /\ ReadPosition
    /\ IF /\ Consistent(decision.action, seen')
          /\ decision.action \in Closing => seen' # 0
         THEN Goto("leverage")
         ELSE Done("rejected")
    /\ UNCHANGED <<net, lev, decision, amount, before>>

\* A slip: no leverage is taken to be a leverage.
SetupAlways ==
    /\ pc = "leverage"
    /\ ReadPosition
    /\ Goto("setLeverage")
    /\ UNCHANGED <<net, lev, decision, amount, before>>

\* SetupExchange with the proposed leverage: a position keeps its leverage
\* unless the new one is higher.  Without a proposal there is no call.
SetupExchange ==
    /\ pc = "leverage"
    /\ IF decision.leverage = 0
         THEN Goto("size") /\ UNCHANGED <<seen, calm>>
         ELSE /\ ReadPosition
              /\ IF seen' # 0 /\ decision.leverage <= lev
                   THEN Goto("size")
                   ELSE Goto("setLeverage")
    /\ UNCHANGED <<net, lev, decision, amount, before>>

\* The exchange does not lower the leverage of a position; a failure is only
\* logged.
ChangeLeverage ==
    /\ pc = "setLeverage"
    /\ \/ /\ net # 0 => decision.leverage >= lev
          /\ lev' = decision.leverage
       \/ /\ CallFails \/ (net # 0 /\ decision.leverage < lev)
          /\ UNCHANGED lev
    /\ Goto("size")
    /\ UNCHANGED <<net, decision, seen, amount, before, calm>>

ActualLeverage == IF decision.leverage = 0 THEN MinLeverage ELSE decision.leverage

\* A slip: every begun step is rounded up.
RoundedUp(hundredths) ==
    (hundredths * StepsPerUnit + 100 * Price - 1) \div (100 * Price)

\* AdjustQuantityPrecision, of an amount in hundredths of a USDT: half a step is
\* rounded up.
RoundedSteps(hundredths) ==
    (2 * hundredths * StepsPerUnit + 100 * Price) \div (200 * Price)

\* The size of an opening order, or 0 when it is refused: the percentage must be
\* in range, the quantity large enough, the order worth 100 USDT.
OrderSize(percent, leverage) ==
    LET steps == RoundedSteps(Balance * percent * leverage)
    IN  IF /\ percent \in 1..100
           /\ steps >= MinSteps
           /\ steps * Price >= 100 * StepsPerUnit
          THEN steps
          ELSE 0

\* The size of a close is not used: the executor takes the position's.
CalculatePositionSize ==
    /\ pc = "size"
    /\ IF decision.action \in Closing
         THEN Goto("query") /\ UNCHANGED amount
         ELSE \/ /\ OrderSize(decision.percent, ActualLeverage) > 0
                 /\ amount' = OrderSize(decision.percent, ActualLeverage)
                 /\ Goto("query")
              \/ /\ CallFails \/ OrderSize(decision.percent, ActualLeverage) = 0
                 /\ Done("rejected")
                 /\ UNCHANGED amount
    /\ UNCHANGED <<net, lev, decision, seen, before, calm>>

-----------------------------------------------------------------------------
(* BinanceExecutor.ExecuteTrade *)

\* The position is read once more, its error ignored, and the action chosen.
\* An opening against the opposite position closes that first.
ExecuteTrade ==
    /\ pc = "query"
    /\ ReadPosition
    /\ LET s == seen' * Sign(decision.action)
       IN  \/ s < 0 /\ Goto("close")
           \/ s = 0 /\ decision.action \in Opening /\ Goto("open")
           \/ /\ s > 0 \/ (s = 0 /\ decision.action \in Closing)
              /\ Done("failure")
    /\ UNCHANGED <<net, lev, decision, amount, before>>

\* What an opening order adds to the position.
Opened == Sign(decision.action) * amount

\* A slip: the order against a position is of the size settled for the decision.
CloseOfSize ==
    /\ pc = "close"
    /\ Fill(Opened)
    /\ IF decision.action \in Opening THEN Goto("open") ELSE Done("success")
    /\ UNCHANGED <<lev, decision, seen, amount, before, calm>>

\* The market order against the position read; any error ends the trade.
\* executeSell looks at the position again before it opens, executeBuy does not.
CloseOrder ==
    /\ pc = "close"
    /\ \/ /\ Fill(-seen)
          /\ \/ decision.action = "BUY" /\ Goto("open")
             \/ decision.action = "SELL" /\ Goto("refresh")
             \/ decision.action \in Closing /\ Done("success")
       \/ /\ AnswerLost \/ AnswerUnrecognised
          /\ Fill(-seen)
          /\ Done("failure")
       \/ /\ CallFails \/ ~(Size(net - seen) <= MaxHeld)
          /\ UNCHANGED net
          /\ Done("failure")
    /\ UNCHANGED <<lev, decision, seen, amount, before, calm>>

RefreshPosition ==
    /\ pc = "refresh"
    /\ ReadPosition
    /\ IF seen' < 0 THEN Done("failure") ELSE Goto("open")
    /\ UNCHANGED <<net, lev, decision, amount, before>>

\* A slip: the opening order is sent through withRetry.
OpenWithRetry ==
    /\ pc = "open"
    /\ \/ Fill(Opened) /\ Done("success")
       \/ (AnswerLost \/ AnswerUnrecognised) /\ Fill(Opened) /\ Goto("open")
       \/ /\ CallFails \/ ~(Size(net + Opened) <= MaxHeld)
          /\ Done("failure")
          /\ UNCHANGED net
    /\ UNCHANGED <<lev, decision, seen, amount, before, calm>>

\* The opening order: it is filled, or a network error leaves open whether it
\* was, or there is any other error.  That is taken for a refusal, though the
\* order may have been filled when isNetworkError does not know the error.
OpenOrder ==
    /\ pc = "open"
    /\ \/ Fill(Opened) /\ Done("success")
       \/ AnswerLost /\ Fill(Opened) /\ Goto("recheck")
       \/ AnswerUnrecognised /\ Fill(Opened) /\ Done("failure")
       \/ /\ CallFails
          /\ Goto("recheck")
          /\ UNCHANGED net
       \/ /\ CallFails \/ ~(Size(net + Opened) <= MaxHeld)
          /\ Done("failure")
          /\ UNCHANGED net
    /\ UNCHANGED <<lev, decision, seen, amount, before, calm>>

\* A slip: an order that seems lost is sent once more.
RecheckAndRetry ==
    /\ pc = "recheck"
    /\ ReadPosition
    /\ IF seen' * Sign(decision.action) > 0 THEN Done("success") ELSE Goto("open")
    /\ UNCHANGED <<net, lev, decision, amount, before>>

\* A slip: any position found stands for the one asked for.
RecheckAnswered ==
    /\ pc = "recheck"
    /\ ReadPosition
    /\ Done("success")
    /\ UNCHANGED <<net, lev, decision, amount, before>>

\* A slip: executeSell looks for a long position, as executeBuy does.
RecheckLong ==
    /\ pc = "recheck"
    /\ ReadPosition
    /\ Done(IF seen' > 0 THEN "success" ELSE "failure")
    /\ UNCHANGED <<net, lev, decision, amount, before>>

\* After a network error the position tells whether the order was filled.
Recheck ==
    /\ pc = "recheck"
    /\ ReadPosition
    /\ Done(IF seen' * Sign(decision.action) > 0 THEN "success" ELSE "failure")
    /\ UNCHANGED <<net, lev, decision, amount, before>>

-----------------------------------------------------------------------------

\* A start sets the lower end of the range for every symbol that has no position.
Init ==
    /\ net \in {-MaxHeld \div 2, 0, MaxHeld \div 2}
    /\ lev = MinLeverage
    /\ pc = "idle"
    /\ decision = [action |-> "BUY", percent |-> 0, leverage |-> 0]
    /\ seen = 0
    /\ amount = 0
    /\ report = "none"
    /\ before = net
    /\ calm = TRUE

Next ==
    \/ StopTriggers
    \/ \E action \in Opening \cup Closing, percent \in Percents, leverage \in Leverages :
         Decide(action, percent, leverage)
    \/ ValidateDecision \/ PreExecutionChecks \/ ValidateAction
    \/ SetupExchange \/ ChangeLeverage \/ CalculatePositionSize
    \/ ExecuteTrade \/ CloseOrder \/ RefreshPosition \/ OpenOrder \/ Recheck

Spec == Init /\ [][Next]_vars

-----------------------------------------------------------------------------
(* Types *)

Labels == {"idle", "validate", "checks", "position", "leverage", "setLeverage", "size",
           "query", "close", "refresh", "open", "recheck"}

\* Every variable has its type; a leverage is never zero.
TypeOK ==
    /\ net \in Int
    /\ lev \in Nat \ {0}
    /\ pc \in Labels
    /\ decision \in [action : Opening \cup Closing, percent : Nat, leverage : Nat]
    /\ seen \in Int
    /\ amount \in Nat
    /\ report \in {"none", "rejected", "success", "failure"}
    /\ before \in Int
    /\ calm \in BOOLEAN

-----------------------------------------------------------------------------
(* Safety *)

\* The position a successful decision asks for.
Target == IF decision.action \in Closing THEN 0 ELSE Opened

\* A reported success is what the exchange holds, lost answers and failed calls
\* notwithstanding, when no read failed and no stop triggered in between: what
\* runTradingAnalysis registers or closes on that report exists or is gone.
SuccessIsTrue ==
    [][(pc # "idle" /\ pc' = "idle" /\ report' = "success" /\ calm') => net' = Target]_vars

\* A failed opening that leaves a position of the side asked for, which has no
\* stop then and no row: this takes an order that is filled and answered with an
\* error isNetworkError does not recognise.  The recheck of the other lost answers
\* misses no position, and no opening is refused over one it should have seen.
OnlyUnrecognisedHides ==
    [][/\ pc # "idle" /\ pc' = "idle" /\ report' = "failure" /\ calm'
       /\ decision.action \in Opening
       /\ net' * Sign(decision.action) > 0
       => pc = "open" /\ net' = net + Opened /\ AnswerUnrecognised]_vars

\* Whatever fails, is lost or triggers meanwhile, one decision adds at most the
\* size it asked for to what was held: an opening order is never sent twice.
BoundedExposure == Size(net) <= Size(before) + amount

\* "System protection: no accidental adding": unless a read failed or a stop
\* triggered, a decision never adds to a position of the same side.
NoPyramiding ==
    [][calm' => /\ net > 0 => net' <= net
                /\ net < 0 => net' >= net]_vars

\* An opening order is worth 100 USDT at least and, but for half a step of its
\* quantity, no more than the whole balance carries at the decision's leverage:
\* calculatePositionSize rounds to the nearest step, up as well as down.
Affordable ==
    pc \in {"refresh", "open", "recheck"} =>
        /\ 100 * StepsPerUnit <= amount * Price
        /\ 2 * amount * Price <= 2 * Balance * ActualLeverage * StepsPerUnit + Price

\* The calls to the exchange a decision may still make.
CallsLeft ==
    [idle |-> 0, recheck |-> 1, open |-> 2, refresh |-> 3, close |-> 4, query |-> 5, size |-> 6,
     setLeverage |-> 7, leverage |-> 8, position |-> 9, checks |-> 10, validate |-> 11]

\* A decision comes to its end whatever fails: each of its calls leaves it fewer
\* of them, and no failure, lost answer or stop takes it back to an earlier one.
CallsRunOut ==
    [][pc # "idle" => CallsLeft[pc'] < CallsLeft[pc] \/ (pc' = pc /\ net # 0 /\ net' = 0)]_vars

-----------------------------------------------------------------------------
(* OrderGuard *)

\* How far a decision has come with its orders.
Stage ==
    CASE pc = "idle" -> "free"
      [] pc \in {"query", "close"} -> "closing"
      [] pc \in {"refresh", "open"} -> "opening"
      [] pc = "recheck" -> "sent"
      [] OTHER -> "deciding"

\* The execution of decisions keeps the promise of OrderGuard.
Orders == INSTANCE OrderGuard WITH
    position <- net,
    stage <- Stage,
    held <- before,
    side <- Sign(decision.action),
    size <- amount

OrderSpec == Orders!OrderSpec

-----------------------------------------------------------------------------
(* The inductive invariant behind BoundedExposure and OrderSpec *)

\* Nothing was traded yet: the position is what was held, unless a stop has
\* closed it, and a close is of what was held.
Untraded == {"validate", "checks", "position", "leverage", "setLeverage", "size", "query",
             "close"}

HeldBefore ==
    /\ pc \in Untraded => net = before \/ net = 0
    /\ pc = "close" => seen = before /\ seen * Sign(decision.action) < 0

\* Nothing was opened yet; a close after a stop has turned the position round.
OpensOnce == pc \in {"refresh", "open"} => net \in {before, 0, -before}

\* An opening order is of the size computed for the decision, which is no
\* smaller than the exchange takes.
Settled == {"query", "close", "refresh", "open", "recheck"}

AmountSettled ==
    /\ pc \in Settled /\ decision.action \in Opening =>
         amount = OrderSize(decision.percent, ActualLeverage) /\ amount > 0
    /\ pc \in {"refresh", "open", "recheck"} => decision.action \in Opening

\* The leverage is changed on a proposal only.
LeverageProposed == pc = "setLeverage" => decision.leverage # 0

TradeInv ==
    /\ TypeOK /\ LeverageProposed /\ AmountSettled
    /\ HeldBefore /\ OpensOnce /\ BoundedExposure

-----------------------------------------------------------------------------
(* What the code says, and does not keep *)

\* postExecutionVerification: "after a close there should be no position".
ClosedLeavesNothing ==
    [][/\ pc # "idle" /\ pc' = "idle" /\ report' = "success"
       /\ decision.action \in Closing
       => net' = 0]_vars
=============================================================================
