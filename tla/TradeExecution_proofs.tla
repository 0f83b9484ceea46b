------------------------ MODULE TradeExecution_proofs ------------------------
(***************************************************************************)
(* Whatever the balance, the prices, the leverages and the disturbances    *)
(* are, one decision adds at most the size it asked for to the exposure.   *)
(* And as long as no reading failed and no stop triggered, it adds to no   *)
(* position and reports no success that is not one, whatever orders fail   *)
(* and whatever answers are lost; a failure it reports hides a position    *)
(* only if the order was filled and answered with an unknown error.        *)
(***************************************************************************)
EXTENDS TradeExecution, TLAPS

\* The size of an opening order is a number.
LEMMA OrderSizeType ==
    ASSUME NEW percent \in Nat, NEW leverage \in Nat
    PROVE  OrderSize(percent, leverage) \in Int
<1> DEFINE hundredths == Balance * percent * leverage
<1> DEFINE steps == RoundedSteps(hundredths)
<1>1. hundredths \in Int
  BY TradeAssumption
<1>2. steps \in Int
  <2> HIDE DEF hundredths
  <2>1. 2 * hundredths * StepsPerUnit + 100 * Price \in Int
    BY <1>1, TradeAssumption
  <2>2. 200 * Price \in Nat \ {0}
    BY TradeAssumption
  <2> QED
    BY <2>1, <2>2 DEF RoundedSteps
<1> QED
  BY <1>2 DEF OrderSize

\* The initial states satisfy the invariant.
LEMMA InitTradeInv == Init => TradeInv
BY TradeAssumption
   DEF Init, TradeInv, TypeOK, HeldBefore, OpensOnce, BoundedExposure, AmountSettled, Settled,
       Untraded, Labels, Size, LeverageProposed, Opening, Closing

\* A reading of the position is a number: the position, or none.
LEMMA Reading ==
    ASSUME TypeOK, ReadPosition
    PROVE  seen' \in Int /\ calm' \in BOOLEAN /\ (seen' = net \/ seen' = 0)
<1>1. seen' = net \/ seen' = 0
  BY DEF ReadPosition
<1>2. seen' \in Int
  BY <1>1 DEF TypeOK
<1>3. calm' = calm \/ calm' = FALSE
  BY Zenon DEF ReadPosition
<1>4. calm' \in BOOLEAN
  BY <1>3, Zenon DEF TypeOK
<1> QED
  BY <1>1, <1>2, <1>4

\* The part of the type invariant that needs no Boolean.
NumbersOK ==
    /\ net \in Int
    /\ lev \in Nat \ {0}
    /\ pc \in Labels
    /\ decision \in [action : Opening \cup Closing, percent : Nat, leverage : Nat]
    /\ seen \in Int
    /\ amount \in Nat
    /\ report \in {"none", "rejected", "success", "failure"}
    /\ before \in Int

\* The history of disturbances stays a Boolean.
LEMMA CalmType == TypeOK /\ [Next]_vars => calm' \in BOOLEAN
<1> SUFFICES ASSUME TypeOK, [Next]_vars PROVE calm' \in BOOLEAN
  OBVIOUS
<1>1. calm' \in {calm, TRUE, FALSE}
  BY Zenon DEF Next, vars, StopTriggers, Decide, ValidateDecision, PreExecutionChecks,
     ValidateAction, SetupExchange, ChangeLeverage, CalculatePositionSize, ExecuteTrade,
     CloseOrder, RefreshPosition, OpenOrder, Recheck, ReadPosition
<1> QED
  BY <1>1, Zenon DEF TypeOK

\* Every step keeps the types.
LEMMA StepType == TypeOK /\ LeverageProposed /\ [Next]_vars => TypeOK'
<1> SUFFICES ASSUME TypeOK, LeverageProposed, [Next]_vars PROVE TypeOK'
  OBVIOUS
<1>a. NumbersOK
  BY Zenon DEF TypeOK, NumbersOK
<1> USE <1>a DEF NumbersOK, Labels, Goto, Done
<1> SUFFICES NumbersOK'
  BY CalmType, Zenon DEF TypeOK, NumbersOK
<1>1. CASE UNCHANGED vars
  BY <1>1 DEF vars
<1>2. CASE StopTriggers
  BY <1>2 DEF StopTriggers
<1>3. ASSUME NEW action \in Opening \cup Closing, NEW percent \in Percents,
             NEW leverage \in Leverages, Decide(action, percent, leverage)
      PROVE  NumbersOK'
  <2>1. percent \in Nat /\ leverage \in Nat
    BY TradeAssumption
  <2>2. Size(net) \in Nat
    BY DEF Size
  <2> QED
    BY <1>3, <2>1, <2>2 DEF Decide
<1>4. CASE ValidateDecision
  BY <1>4, Reading DEF ValidateDecision
<1>5. CASE PreExecutionChecks
  BY <1>5 DEF PreExecutionChecks
<1>6. CASE ValidateAction
  BY <1>6, Reading DEF ValidateAction
<1>7. CASE SetupExchange
  BY <1>7, Reading DEF SetupExchange
<1>8. CASE ChangeLeverage
  BY <1>8 DEF ChangeLeverage, LeverageProposed
<1>9. CASE CalculatePositionSize
  <2>1. ActualLeverage \in Nat
    BY TradeAssumption DEF ActualLeverage
  <2>2. OrderSize(decision.percent, ActualLeverage) \in Int
    BY <2>1, OrderSizeType
  <2>3. amount' \in Nat
    <3> HIDE DEF OrderSize
    <3> QED BY <1>9, <2>2 DEF CalculatePositionSize
  <2> QED
    BY <1>9, <2>3 DEF CalculatePositionSize
<1>10. CASE ExecuteTrade
  BY <1>10, Reading DEF ExecuteTrade
<1>11. CASE CloseOrder
  BY <1>11 DEF CloseOrder, Fill
<1>12. CASE RefreshPosition
  BY <1>12, Reading DEF RefreshPosition
<1>13. CASE OpenOrder
  BY <1>13 DEF OpenOrder, Fill, Opened, Sign
<1>14. CASE Recheck
  BY <1>14, Reading DEF Recheck
<1> QED
  BY <1>1, <1>2, <1>3, <1>4, <1>5, <1>6, <1>7, <1>8, <1>9, <1>10, <1>11, <1>12, <1>13, <1>14
     DEF Next

\* Opposite positions are of the same size.
LEMMA SizeFact ==
    ASSUME NEW x \in Int
    PROVE  Size(x) \in Nat /\ Size(-x) = Size(x) /\ Size(0) = 0
BY DEF Size

\* An order adds at most its own size.
LEMMA SizeOfSum ==
    ASSUME NEW x \in Int, NEW q \in Nat, NEW bound \in Nat, Size(x) <= bound
    PROVE  Size(x + q) <= bound + q /\ Size(x + (-q)) <= bound + q
BY DEF Size

\* A proposal of no leverage leads to no call that sets it.
LEMMA StepLeverage == TypeOK /\ LeverageProposed /\ [Next]_vars => LeverageProposed'
<1> SUFFICES ASSUME TypeOK, LeverageProposed, [Next]_vars, pc' = "setLeverage"
             PROVE  decision'.leverage # 0
  BY DEF LeverageProposed
<1>1. (pc = "setLeverage" /\ decision' = decision) \/ SetupExchange
  BY Zenon DEF Next, vars, StopTriggers, Decide, ValidateDecision, PreExecutionChecks,
     ValidateAction, ChangeLeverage, CalculatePositionSize, ExecuteTrade, CloseOrder,
     RefreshPosition, OpenOrder, Recheck, Goto, Done
<1> QED
  BY <1>1, Zenon DEF LeverageProposed, SetupExchange, Goto

\* The size of an order is settled before the first order and kept.
LEMMA StepSettled == TypeOK /\ AmountSettled /\ [Next]_vars => AmountSettled'
<1> SUFFICES ASSUME TypeOK, AmountSettled, [Next]_vars PROVE AmountSettled'
  OBVIOUS
<1> USE DEF AmountSettled, Settled, Goto, Done
<1>a. decision.action \in Opening \cup Closing
  BY DEF TypeOK
<1>1. CASE UNCHANGED vars
  BY <1>1 DEF vars, ActualLeverage
<1>2. CASE StopTriggers
  BY <1>2 DEF StopTriggers, ActualLeverage
<1>3. ASSUME NEW action \in Opening \cup Closing, NEW percent \in Percents,
             NEW leverage \in Leverages, Decide(action, percent, leverage)
      PROVE  AmountSettled'
  BY <1>3 DEF Decide
<1>4. CASE ValidateDecision
  BY <1>4 DEF ValidateDecision
<1>5. CASE PreExecutionChecks
  BY <1>5 DEF PreExecutionChecks
<1>6. CASE ValidateAction
  BY <1>6 DEF ValidateAction
<1>7. CASE SetupExchange
  BY <1>7 DEF SetupExchange
<1>8. CASE ChangeLeverage
  BY <1>8 DEF ChangeLeverage
<1>9. CASE CalculatePositionSize
  BY <1>9 DEF CalculatePositionSize, ActualLeverage, Opening, Closing
<1>10. CASE ExecuteTrade
  BY <1>10 DEF ExecuteTrade, ActualLeverage
<1>11. CASE CloseOrder
  BY <1>11, <1>a DEF CloseOrder, ActualLeverage, Opening, Closing
<1>12. CASE RefreshPosition
  BY <1>12 DEF RefreshPosition, ActualLeverage
<1>13. CASE OpenOrder
  BY <1>13 DEF OpenOrder, ActualLeverage
<1>14. CASE Recheck
  BY <1>14 DEF Recheck
<1> QED
  BY <1>1, <1>2, <1>3, <1>4, <1>5, <1>6, <1>7, <1>8, <1>9, <1>10, <1>11, <1>12, <1>13, <1>14
     DEF Next

\* Until an order is sent only a stop moves the position; the order of a close
\* is of what was held.
LEMMA StepHeld == TypeOK /\ HeldBefore /\ [Next]_vars => HeldBefore'
<1> SUFFICES ASSUME TypeOK, HeldBefore, [Next]_vars PROVE HeldBefore'
  OBVIOUS
<1>a. NumbersOK
  BY Zenon DEF TypeOK, NumbersOK
<1>b. pc \in Labels /\ net \in Int /\ seen \in Int /\ before \in Int
  BY <1>a DEF NumbersOK
<1> USE <1>b DEF HeldBefore, Untraded, Goto, Done
<1>1. CASE UNCHANGED vars
  BY <1>1 DEF vars, Sign
<1>2. CASE StopTriggers
  BY <1>2 DEF StopTriggers, Sign
<1>3. ASSUME NEW action \in Opening \cup Closing, NEW percent \in Percents,
             NEW leverage \in Leverages, Decide(action, percent, leverage)
      PROVE  HeldBefore'
  BY <1>3 DEF Decide
<1>4. CASE ValidateDecision
  BY <1>4 DEF ValidateDecision
<1>5. CASE PreExecutionChecks
  BY <1>5 DEF PreExecutionChecks
<1>6. CASE ValidateAction
  BY <1>6 DEF ValidateAction
<1>7. CASE SetupExchange
  BY <1>7 DEF SetupExchange
<1>8. CASE ChangeLeverage
  BY <1>8 DEF ChangeLeverage
<1>9. CASE CalculatePositionSize
  BY <1>9 DEF CalculatePositionSize
<1>10. CASE ExecuteTrade
  <2>1. seen' = net \/ seen' = 0
    BY <1>10, Reading DEF ExecuteTrade
  <2>2. /\ pc = "query" /\ pc' \in {"close", "open", "idle"}
        /\ net' = net /\ before' = before /\ decision' = decision
    BY <1>10 DEF ExecuteTrade
  <2>3. pc' = "close" => seen' * Sign(decision.action) < 0
    BY <1>10 DEF ExecuteTrade
  <2>4. Sign(decision'.action) = Sign(decision.action)
    BY <2>2
  <2>5. Sign(decision.action) \in {1, -1}
    BY DEF Sign
  <2>6. pc' = "close" => seen' # 0
    BY <2>1, <2>3, <2>5
  <2>7. pc' = "close" => seen' = before
    BY <2>1, <2>2, <2>6
  <2> HIDE DEF Sign
  <2> QED
    BY <2>2, <2>3, <2>4, <2>7
<1>11. CASE CloseOrder
  BY <1>11 DEF CloseOrder
<1>12. CASE RefreshPosition
  BY <1>12 DEF RefreshPosition
<1>13. CASE OpenOrder
  BY <1>13 DEF OpenOrder
<1>14. CASE Recheck
  BY <1>14 DEF Recheck
<1> QED
  BY <1>1, <1>2, <1>3, <1>4, <1>5, <1>6, <1>7, <1>8, <1>9, <1>10, <1>11, <1>12, <1>13, <1>14
     DEF Next

\* A decision opens from nothing, from what it held, or from that turned round.
LEMMA StepOpens == TypeOK /\ HeldBefore /\ OpensOnce /\ [Next]_vars => OpensOnce'
<1> SUFFICES ASSUME TypeOK, HeldBefore, OpensOnce, [Next]_vars PROVE OpensOnce'
  OBVIOUS
<1>a. NumbersOK
  BY Zenon DEF TypeOK, NumbersOK
<1>b. pc \in Labels /\ net \in Int /\ seen \in Int /\ before \in Int
  BY <1>a DEF NumbersOK
<1> USE <1>b DEF OpensOnce, Goto, Done
<1>1. CASE UNCHANGED vars
  BY <1>1 DEF vars
<1>2. CASE StopTriggers
  BY <1>2 DEF StopTriggers
<1>3. ASSUME NEW action \in Opening \cup Closing, NEW percent \in Percents,
             NEW leverage \in Leverages, Decide(action, percent, leverage)
      PROVE  OpensOnce'
  BY <1>3 DEF Decide
<1>4. CASE ValidateDecision
  BY <1>4 DEF ValidateDecision
<1>5. CASE PreExecutionChecks
  BY <1>5 DEF PreExecutionChecks
<1>6. CASE ValidateAction
  BY <1>6 DEF ValidateAction
<1>7. CASE SetupExchange
  BY <1>7 DEF SetupExchange
<1>8. CASE ChangeLeverage
  BY <1>8 DEF ChangeLeverage
<1>9. CASE CalculatePositionSize
  BY <1>9 DEF CalculatePositionSize
<1>10. CASE ExecuteTrade
  <2>1. pc = "query" /\ net' = net /\ before' = before
    BY <1>10 DEF ExecuteTrade
  <2>2. net = before \/ net = 0
    BY <2>1 DEF HeldBefore, Untraded
  <2> QED
    BY <2>1, <2>2
<1>11. CASE CloseOrder
  <2>1. pc = "close" /\ before' = before /\ (net' = net \/ net' = net + (-seen))
    BY <1>11 DEF CloseOrder, Fill
  <2>2. seen = before /\ (net = before \/ net = 0)
    BY <2>1 DEF HeldBefore, Untraded
  <2>3. net' = before \/ net' = 0 \/ net' = -before
    BY <2>1, <2>2
  <2> QED
    BY <2>1, <2>3
<1>12. CASE RefreshPosition
  BY <1>12 DEF RefreshPosition
<1>13. CASE OpenOrder
  BY <1>13 DEF OpenOrder
<1>14. CASE Recheck
  BY <1>14 DEF Recheck
<1> QED
  BY <1>1, <1>2, <1>3, <1>4, <1>5, <1>6, <1>7, <1>8, <1>9, <1>10, <1>11, <1>12, <1>13, <1>14
     DEF Next

\* Only the two orders of a decision, and a stop, move the position.
LEMMA WhatMoves ==
    ASSUME TypeOK, [Next]_vars
    PROVE  \/ net' = net /\ before' = before
           \/ StopTriggers
           \/ before' = net /\ net' = net /\ pc' = "validate"
           \/ CloseOrder
           \/ OpenOrder
BY Zenon DEF Next, vars, StopTriggers, Decide, ValidateDecision, PreExecutionChecks,
   ValidateAction, SetupExchange, ChangeLeverage, CalculatePositionSize, ExecuteTrade,
   RefreshPosition, Recheck

\* Nothing but a new decision, which holds no size yet, and the settling of a
\* size changes what a decision opens.
LEMMA WhatSizes ==
    ASSUME TypeOK, [Next]_vars
    PROVE  \/ amount' = amount
           \/ before' = net /\ net' = net
           \/ pc = "size" /\ net' = net /\ before' = before
BY Zenon DEF Next, vars, StopTriggers, Decide, ValidateDecision, PreExecutionChecks,
   ValidateAction, SetupExchange, ChangeLeverage, CalculatePositionSize, ExecuteTrade,
   CloseOrder, OpenOrder, RefreshPosition, Recheck

\* Three ways in which a position stays within what was held and asked for.
LEMMA Bounded ==
    ASSUME NEW x \in Int, NEW held \in Int, NEW asked \in Nat,
           x \in {held, 0, -held} \/ Size(x) <= Size(held) + asked
    PROVE  Size(x) <= Size(held) + asked
BY DEF Size

\* The position and what was held stay within the size asked for.
LEMMA StepBounded ==
    ASSUME TypeOK, LeverageProposed, HeldBefore, OpensOnce, BoundedExposure, [Next]_vars
    PROVE  BoundedExposure'
<1>a. NumbersOK /\ TypeOK'
  BY StepType, Zenon DEF TypeOK, NumbersOK
<1>b. net \in Int /\ before \in Int /\ amount \in Nat /\ seen \in Int /\ pc \in Labels
  BY <1>a DEF NumbersOK
<1>c. net' \in Int /\ before' \in Int /\ amount' \in Nat
  BY <1>a, Zenon DEF TypeOK
<1>d. Size(net) <= Size(before) + amount
  BY DEF BoundedExposure
<1> SUFFICES net' \in {before', 0, -before'} \/ Size(net') <= Size(before') + amount'
  BY <1>c, Bounded DEF BoundedExposure
<1>1. CASE net' = net /\ before' = before
  <2>1. CASE amount' = amount
    BY <1>1, <2>1, <1>d
  <2>2. CASE before' = net
    BY <1>1, <2>2
  <2>3. CASE pc = "size"
    BY <1>1, <2>3 DEF HeldBefore, Untraded
  <2> QED
    BY WhatSizes, <2>1, <2>2, <2>3
<1>2. CASE StopTriggers
  BY <1>2 DEF StopTriggers
<1>3. CASE before' = net /\ net' = net
  BY <1>3
<1>4. CASE CloseOrder
  <2>1. /\ pc = "close" /\ before' = before /\ amount' = amount
        /\ net' = net \/ net' = net + (-seen)
    BY <1>4 DEF CloseOrder, Fill
  <2>2. seen = before /\ (net = before \/ net = 0)
    BY <2>1 DEF HeldBefore, Untraded
  <2> QED
    BY <2>1, <2>2, <1>b
<1>5. CASE OpenOrder
  <2>1. /\ pc = "open" /\ before' = before /\ amount' = amount
        /\ net' \in {net, net + amount, net + (-amount)}
    BY <1>5, <1>b DEF OpenOrder, Fill, Opened, Sign
  <2>2. net \in {before, 0, -before}
    BY <2>1 DEF OpensOnce
  <2>3. Size(before) \in Nat /\ Size(net) <= Size(before)
    BY <2>2, <1>b DEF Size
  <2>4. Size(net + amount) <= Size(before) + amount /\ Size(net + (-amount)) <= Size(before) + amount
    BY <2>3, <1>b, SizeOfSum
  <2>5. Size(net) <= Size(before) + amount
    BY <1>d
  <2> QED
    BY <2>1, <2>4, <2>5
<1> QED
  BY WhatMoves, <1>1, <1>2, <1>3, <1>4, <1>5

-----------------------------------------------------------------------------

\* The invariant is inductive.
THEOREM TradeInvariance == Spec => []TradeInv
<1>1. TradeInv /\ [Next]_vars => TradeInv'
  <2> SUFFICES ASSUME TradeInv, [Next]_vars PROVE TradeInv'
    OBVIOUS
  <2>1. TypeOK' /\ LeverageProposed'
    BY StepType, StepLeverage DEF TradeInv
  <2>2. AmountSettled'
    BY StepSettled DEF TradeInv
  <2>3. HeldBefore' /\ OpensOnce'
    BY StepHeld, StepOpens DEF TradeInv
  <2>4. BoundedExposure'
    BY StepBounded DEF TradeInv
  <2> QED
    BY <2>1, <2>2, <2>3, <2>4 DEF TradeInv
<1> QED
  BY InitTradeInv, <1>1, PTL DEF Spec

\* Every variable keeps its type: the leverage set on the exchange, the rounded
\* order sizes and the labels between two calls.
THEOREM TradeTypeCorrect == Spec => []TypeOK
<1>1. TradeInv => TypeOK
  BY DEF TradeInv
<1> QED
  BY TradeInvariance, <1>1, PTL

\* One decision adds at most the size it asked for, whatever fails, is lost or
\* triggers between its calls.
THEOREM ExposureBounded == Spec => []BoundedExposure
<1>1. TradeInv => BoundedExposure
  BY DEF TradeInv
<1> QED
  BY TradeInvariance, <1>1, PTL

-----------------------------------------------------------------------------
(* What holds of a decision as long as it is calm *)

\* Every reading was right and only the decision's own orders moved the position:
\* an opening that was let through goes against no position of its own side, a
\* close is of the position read and of the side opposite to the action, an
\* opening order starts from nothing.
Undisturbed ==
    /\ pc \in {"leverage", "setLeverage", "size", "query"} /\ decision.action \in Opening
         => net * Sign(decision.action) <= 0
    /\ pc = "close" => net = seen /\ seen * Sign(decision.action) < 0
    /\ pc \in {"refresh", "open"} => net = 0
    /\ pc = "recheck" => net = 0 \/ net = Opened
    /\ pc \in {"refresh", "open", "recheck"} => decision.action \in Opening

CalmInv == calm => Undisturbed

\* Only a decision that was calm is calm after a step, except for a new one.
LEMMA CalmBefore ==
    ASSUME TypeOK, [Next]_vars, calm'
    PROVE  calm \/ (pc' = "validate" /\ net' = net)
BY Zenon DEF Next, vars, StopTriggers, Decide, ValidateDecision, PreExecutionChecks,
   ValidateAction, SetupExchange, ChangeLeverage, CalculatePositionSize, ExecuteTrade,
   CloseOrder, RefreshPosition, OpenOrder, Recheck, ReadPosition

\* A calm reading is the position.
LEMMA CalmReading == ReadPosition /\ calm' => seen' = net
BY Zenon DEF ReadPosition

\* The side of an action is a sign.
LEMMA SignFact == Sign(decision.action) = 1 \/ Sign(decision.action) = -1
BY DEF Sign

\* While a decision is calm no stop triggers.
LEMMA CalmStop == StopTriggers => ~calm'
BY Zenon DEF StopTriggers

\* What a calm step does to the position, and what it reports: the bodies of
\* NoPyramiding, SuccessIsTrue and OnlyUnrecognisedHides.
NoAdding == (net > 0 => net' <= net) /\ (net < 0 => net' >= net)
TrueSuccess == pc # "idle" /\ pc' = "idle" /\ report' = "success" => net' = Target
TrueFailure ==
    /\ pc # "idle" /\ pc' = "idle" /\ report' = "failure"
    /\ decision.action \in Opening
    /\ net' * Sign(decision.action) > 0
    => pc = "open" /\ net' = net + Opened /\ AnswerUnrecognised

\* A step of a calm decision keeps it undisturbed and does what it promises.
LEMMA CalmStep ==
    ASSUME TypeOK, Undisturbed, [Next]_vars, calm'
    PROVE  Undisturbed' /\ NoAdding /\ TrueSuccess /\ TrueFailure
<1> DEFINE Kept == Undisturbed' /\ NoAdding /\ TrueSuccess /\ TrueFailure
<1>a. NumbersOK
  BY Zenon DEF TypeOK, NumbersOK
<1>b. /\ pc \in Labels /\ net \in Int /\ seen \in Int /\ amount \in Nat
      /\ decision.action \in Opening \cup Closing
  BY <1>a DEF NumbersOK
<1>c. ReadPosition => seen' = net
  BY CalmReading
<1> USE <1>b, SignFact
        DEF Undisturbed, NoAdding, TrueSuccess, TrueFailure, Labels, Goto, Done, Opened, Target
<1>1. CASE UNCHANGED vars
  BY <1>1 DEF vars, Sign
<1>2. CASE StopTriggers
  BY <1>2, CalmStop
<1>3. ASSUME NEW action \in Opening \cup Closing, NEW percent \in Percents,
             NEW leverage \in Leverages, Decide(action, percent, leverage)
      PROVE  Kept
  BY <1>3 DEF Decide
<1>4. CASE ValidateDecision
  BY <1>4 DEF ValidateDecision
<1>5. CASE PreExecutionChecks
  BY <1>5 DEF PreExecutionChecks
<1>6. CASE ValidateAction
  BY <1>6, <1>c DEF ValidateAction, Consistent, Sign, Opening, Closing
<1>7. CASE SetupExchange
  <2>1. /\ pc = "leverage" /\ (pc' = "size" \/ pc' = "setLeverage")
        /\ net' = net /\ decision' = decision
    BY <1>7, Zenon DEF SetupExchange
  <2> QED
    BY <2>1 DEF Sign
<1>8. CASE ChangeLeverage
  BY <1>8 DEF ChangeLeverage, Sign
<1>9. CASE CalculatePositionSize
  BY <1>9 DEF CalculatePositionSize, Sign
<1>10. CASE ExecuteTrade
  BY <1>10, <1>c DEF ExecuteTrade, Sign, Opening, Closing
<1>11. CASE CloseOrder
  BY <1>11 DEF CloseOrder, Fill, Sign, Opening, Closing
<1>12. CASE RefreshPosition
  BY <1>12, <1>c DEF RefreshPosition, Sign
<1>13. CASE OpenOrder
  BY <1>13 DEF OpenOrder, Fill, Sign, Opening, Closing
<1>14. CASE Recheck
  BY <1>14, <1>c DEF Recheck, Sign, Opening, Closing
<1> QED
  BY <1>1, <1>2, <1>3, <1>4, <1>5, <1>6, <1>7, <1>8, <1>9, <1>10, <1>11, <1>12, <1>13, <1>14
     DEF Next

\* The same for any step that leaves the decision calm: a new decision is taken
\* in whatever state the last one left.
LEMMA CalmPromises ==
    ASSUME TypeOK, CalmInv, [Next]_vars, calm'
    PROVE  Undisturbed' /\ NoAdding /\ TrueSuccess /\ TrueFailure
<1>1. CASE calm
  <2>1. Undisturbed
    BY <1>1, Zenon DEF CalmInv
  <2> QED
    BY <2>1, CalmStep, Zenon
<1>2. CASE pc' = "validate" /\ net' = net
  <2>1. net \in Int
    BY DEF TypeOK
  <2> QED
    BY <1>2, <2>1 DEF Undisturbed, NoAdding, TrueSuccess, TrueFailure
<1> QED
  BY CalmBefore, <1>1, <1>2, Zenon

\* What is said of calm decisions is inductive, given the types.
THEOREM CalmInvariance == Spec => []CalmInv
<1>1. Init => CalmInv
  BY DEF Init, CalmInv, Undisturbed
<1>2. TypeOK /\ CalmInv /\ [Next]_vars => CalmInv'
  BY CalmPromises, Zenon DEF CalmInv
<1> QED
  BY TradeTypeCorrect, <1>1, <1>2, PTL DEF Spec

\* Unless a read failed or a stop triggered since the decision was taken, a
\* reported success is what the exchange holds, whatever orders or answers failed.
THEOREM SuccessHolds == Spec => SuccessIsTrue
<1>1. TypeOK /\ CalmInv /\ [Next]_vars
        => [(pc # "idle" /\ pc' = "idle" /\ report' = "success" /\ calm') => net' = Target]_vars
  BY CalmPromises, Zenon DEF TrueSuccess
<1> QED
  BY TradeTypeCorrect, CalmInvariance, <1>1, PTL DEF Spec, SuccessIsTrue

\* Under the same condition the failure of an opening hides a position of the side
\* asked for only if the order was filled and its answer an error that
\* isNetworkError does not recognise: with every error recognised, or every answer
\* received, a failed opening has opened nothing.
THEOREM HidingTakesUnrecognised == Spec => OnlyUnrecognisedHides
<1>1. TypeOK /\ CalmInv /\ [Next]_vars
        => [/\ pc # "idle" /\ pc' = "idle" /\ report' = "failure" /\ calm'
            /\ decision.action \in Opening
            /\ net' * Sign(decision.action) > 0
            => pc = "open" /\ net' = net + Opened /\ AnswerUnrecognised]_vars
  BY CalmPromises, Zenon DEF TrueFailure
<1> QED
  BY TradeTypeCorrect, CalmInvariance, <1>1, PTL DEF Spec, OnlyUnrecognisedHides

\* Under the same condition no decision adds to a position of the same side.
THEOREM NothingAdded == Spec => NoPyramiding
<1>1. TypeOK /\ CalmInv /\ [Next]_vars
        => [calm' => /\ net > 0 => net' <= net
                     /\ net < 0 => net' >= net]_vars
  BY CalmPromises, Zenon DEF NoAdding
<1> QED
  BY TradeTypeCorrect, CalmInvariance, <1>1, PTL DEF Spec, NoPyramiding

-----------------------------------------------------------------------------
(* The execution of decisions implements OrderGuard *)

\* The stages, label by label.
LEMMA StageFact ==
    /\ pc = "idle" => Stage = "free"
    /\ pc \in {"query", "close"} => Stage = "closing"
    /\ pc \in {"refresh", "open"} => Stage = "opening"
    /\ pc = "recheck" => Stage = "sent"
    /\ pc \in {"validate", "checks", "position", "leverage", "setLeverage", "size"} =>
         Stage = "deciding"
BY DEF Stage

LEMMA StageNext ==
    /\ pc' = "idle" => Stage' = "free"
    /\ pc' \in {"query", "close"} => Stage' = "closing"
    /\ pc' \in {"refresh", "open"} => Stage' = "opening"
    /\ pc' = "recheck" => Stage' = "sent"
    /\ pc' \in {"validate", "checks", "position", "leverage", "setLeverage", "size"} =>
         Stage' = "deciding"
BY DEF Stage

\* What a step leaves alone of what OrderGuard sees.
LEMMA SameSide == decision' = decision => Sign(decision.action)' = Sign(decision.action)
BY DEF Sign

\* A step with no order: it stays in its stage, or passes on to a later one.
LEMMA WithoutOrder ==
    ASSUME UNCHANGED <<net, before, decision, amount>>,
           Stage' = Stage \/ (Stage # "free" /\ Stage' \in Orders!Later(Stage))
    PROVE  [Orders!Next]_(Orders!guardVars)
BY SameSide DEF Orders!Next, Orders!Pass, Orders!guardVars

\* The first states of the execution are first states of OrderGuard.
LEMMA InitOrders == Init => Orders!Init
BY TradeAssumption DEF Init, Orders!Init, Stage, Sign, Opening

\* Every step is a step of OrderGuard, or none.
LEMMA StepOrders == TradeInv /\ [Next]_vars => [Orders!Next]_(Orders!guardVars)
<1> SUFFICES ASSUME TradeInv, [Next]_vars PROVE [Orders!Next]_(Orders!guardVars)
  OBVIOUS
<1>a. NumbersOK /\ AmountSettled /\ HeldBefore /\ TypeOK
  BY Zenon DEF TradeInv, TypeOK, NumbersOK
<1>b. /\ pc \in Labels /\ net \in Int /\ seen \in Int /\ amount \in Nat /\ before \in Int
      /\ decision.action \in Opening \cup Closing
  BY <1>a DEF NumbersOK
<1> DEFINE Kept == UNCHANGED <<net, before, decision, amount>>
<1> USE DEF Goto, Done
<1>1. CASE UNCHANGED vars
  BY <1>1, WithoutOrder DEF vars, Stage
<1>2. CASE StopTriggers
  <2>1. Stage' = Stage /\ net' = 0 /\ UNCHANGED <<before, decision, amount>>
    BY <1>2 DEF StopTriggers, Stage
  <2> QED
    BY <2>1, SameSide DEF Orders!Next, Orders!Stop
<1>3. ASSUME NEW action \in Opening \cup Closing, NEW percent \in Percents,
             NEW leverage \in Leverages, Decide(action, percent, leverage)
      PROVE  [Orders!Next]_(Orders!guardVars)
  <2>1. Stage = "free" /\ Stage' = "deciding"
    BY <1>3, StageFact, StageNext DEF Decide
  <2>2. Sign(decision.action)' \in {1, -1}
    BY DEF Sign
  <2> QED
    BY <1>3, <2>1, <2>2 DEF Decide, Orders!Next, Orders!Decide
<1>4. CASE \/ ValidateDecision \/ PreExecutionChecks \/ ValidateAction \/ SetupExchange
           \/ ChangeLeverage
  <2>1. /\ Kept
        /\ pc \in {"validate", "checks", "position", "leverage", "setLeverage"}
        /\ pc' \in {"checks", "position", "leverage", "setLeverage", "size", "idle"}
    BY <1>4, Zenon DEF ValidateDecision, PreExecutionChecks, ValidateAction, SetupExchange,
       ChangeLeverage
  <2>2. Stage = "deciding" /\ Stage' \in {"deciding", "free"}
    BY <2>1, StageFact, StageNext
  <2> QED
    BY <2>1, <2>2, WithoutOrder DEF Orders!Later
<1>9. CASE CalculatePositionSize
  <2>1. /\ pc = "size" /\ pc' \in {"query", "idle"}
        /\ UNCHANGED <<net, before, decision>>
    BY <1>9, Zenon DEF CalculatePositionSize
  <2>2. pc' = "idle" => amount' = amount
    BY <1>9, Zenon DEF CalculatePositionSize
  <2>3. amount' \in Nat
    BY <1>a, StepType, Zenon DEF TypeOK, TradeInv
  <2>4. CASE pc' = "query"
    <3>1. Stage = "deciding" /\ Stage' = "closing"
      BY <2>1, <2>4, StageFact, StageNext
    <3> QED
      BY <2>1, <2>3, <3>1, SameSide DEF Orders!Next, Orders!Settle
  <2>5. CASE pc' = "idle"
    <3>1. Stage = "deciding" /\ Stage' = "free"
      BY <2>1, <2>5, StageFact, StageNext
    <3> QED
      BY <2>1, <2>2, <2>5, <3>1, WithoutOrder DEF Orders!Later
  <2> QED
    BY <2>1, <2>4, <2>5
<1>10. CASE ExecuteTrade
  <2>1. Kept /\ pc = "query" /\ pc' \in {"close", "open", "idle"}
    BY <1>10, Zenon DEF ExecuteTrade
  <2>2. Stage = "closing" /\ Stage' \in {"closing", "opening", "free"}
    BY <2>1, StageFact, StageNext
  <2> QED
    BY <2>1, <2>2, WithoutOrder DEF Orders!Later
<1>11. CASE CloseOrder
  <2>1. /\ pc = "close" /\ pc' \in {"open", "refresh", "idle"}
        /\ UNCHANGED <<before, decision, amount>>
        /\ net' = net \/ net' = net + (-seen)
    BY <1>11 DEF CloseOrder, Fill
  <2>2. Stage = "closing" /\ Stage' \in {"opening", "free"}
    BY <2>1, StageFact, StageNext
  <2>3. CASE net' = net
    BY <2>1, <2>2, <2>3, WithoutOrder DEF Orders!Later
  <2>4. CASE net' = net + (-seen)
    <3>1. seen = before /\ seen * Sign(decision.action) < 0
      BY <1>a, <2>1 DEF HeldBefore
    <3>2. Sign(decision.action) = 1 \/ Sign(decision.action) = -1
      BY DEF Sign
    <3>3. -before * Sign(decision.action) > 0
      BY <1>b, <3>1, <3>2
    <3>4. net' = net - before
      BY <1>b, <2>4, <3>1
    <3>5. Stage' \in Orders!Later(Stage)
      BY <2>2 DEF Orders!Later
    <3>6. Sign(decision.action)' = Sign(decision.action)
      BY <2>1, SameSide
    <3> QED
      BY <2>1, <2>2, <3>3, <3>4, <3>5, <3>6, Zenon DEF Orders!Next, Orders!Close
  <2> QED
    BY <2>1, <2>3, <2>4
<1>12. CASE RefreshPosition
  <2>1. Kept /\ pc = "refresh" /\ pc' \in {"open", "idle"}
    BY <1>12, Zenon DEF RefreshPosition
  <2>2. Stage = "opening" /\ Stage' \in {"opening", "free"}
    BY <2>1, StageFact, StageNext
  <2> QED
    BY <2>1, <2>2, WithoutOrder DEF Orders!Later
<1>13. CASE OpenOrder
  <2>1. /\ pc = "open" /\ pc' \in {"recheck", "idle"}
        /\ UNCHANGED <<before, decision, amount>>
        /\ net' = net \/ net' = net + Opened
    BY <1>13, Zenon DEF OpenOrder, Fill
  <2>2. Stage = "opening" /\ Stage' \in {"sent", "free"}
    BY <2>1, StageFact, StageNext
  <2>3. Stage' \in Orders!Later(Stage) /\ Stage # "free"
    BY <2>2 DEF Orders!Later
  <2>4. CASE net' = net
    BY <2>1, <2>3, <2>4, WithoutOrder
  <2>5. CASE net' = net + Opened
    <3>1. amount > 0
      BY <1>a, <2>1 DEF AmountSettled, Settled
    <3>2. net' = net + Sign(decision.action) * amount
      BY <2>5 DEF Opened
    <3>3. Sign(decision.action)' = Sign(decision.action)
      BY <2>1, SameSide
    <3> QED
      BY <2>1, <2>2, <2>3, <3>1, <3>2, <3>3, Zenon DEF Orders!Next, Orders!Open
  <2> QED
    BY <2>1, <2>4, <2>5
<1>14. CASE Recheck
  <2>1. Kept /\ pc = "recheck" /\ pc' = "idle"
    BY <1>14, Zenon DEF Recheck
  <2>2. Stage = "sent" /\ Stage' = "free"
    BY <2>1, StageFact, StageNext
  <2> QED
    BY <2>1, <2>2, WithoutOrder DEF Orders!Later
<1> QED
  BY <1>1, <1>2, <1>3, <1>4, <1>9, <1>10, <1>11, <1>12, <1>13, <1>14 DEF Next

\* Whatever fails, is lost or triggers, a decision sends at most two orders: one
\* of exactly what was held when it was taken, against it, and then one of
\* exactly the size settled before, to its own side, neither of them twice.
THEOREM OrdersGuarded == Spec => OrderSpec
<1>1. Init => Orders!Init
  BY InitOrders
<1>2. TradeInv /\ [Next]_vars => [Orders!Next]_(Orders!guardVars)
  BY StepOrders
<1> QED
  BY TradeInvariance, <1>1, <1>2, PTL DEF Spec, OrderSpec, Orders!OrderSpec

-----------------------------------------------------------------------------
(* The end of a decision *)

\* Every call leaves a decision fewer calls to make.
LEMMA FewerCalls ==
    ASSUME TypeOK, Next, pc # "idle"
    PROVE  CallsLeft[pc'] < CallsLeft[pc] \/ (pc' = pc /\ net # 0 /\ net' = 0)
<1>a. pc \in Labels
  BY DEF TypeOK
<1> USE <1>a DEF Labels, CallsLeft, Goto, Done
<1>1. CASE StopTriggers
  BY <1>1 DEF StopTriggers
<1>2. ASSUME NEW action \in Opening \cup Closing, NEW percent \in Percents,
             NEW leverage \in Leverages, Decide(action, percent, leverage)
      PROVE  FALSE
  BY <1>2 DEF Decide
<1>3. CASE ValidateDecision
  BY <1>3 DEF ValidateDecision
<1>4. CASE PreExecutionChecks
  BY <1>4 DEF PreExecutionChecks
<1>5. CASE ValidateAction
  BY <1>5 DEF ValidateAction
<1>6. CASE SetupExchange
  BY <1>6 DEF SetupExchange
<1>7. CASE ChangeLeverage
  BY <1>7 DEF ChangeLeverage
<1>8. CASE CalculatePositionSize
  BY <1>8 DEF CalculatePositionSize
<1>9. CASE ExecuteTrade
  BY <1>9 DEF ExecuteTrade
<1>10. CASE CloseOrder
  BY <1>10 DEF CloseOrder
<1>11. CASE RefreshPosition
  BY <1>11 DEF RefreshPosition
<1>12. CASE OpenOrder
  BY <1>12 DEF OpenOrder
<1>13. CASE Recheck
  BY <1>13 DEF Recheck
<1> QED
  BY <1>1, <1>2, <1>3, <1>4, <1>5, <1>6, <1>7, <1>8, <1>9, <1>10, <1>11, <1>12, <1>13 DEF Next

\* A decision ends after at most eleven calls: what is left of its liveness once
\* every call is assumed to return.
THEOREM DecisionsEnd == Spec => CallsRunOut
<1>1. TypeOK /\ [Next]_vars
        => [pc # "idle" => \/ CallsLeft[pc'] < CallsLeft[pc]
                           \/ (pc' = pc /\ net # 0 /\ net' = 0)]_vars
  BY FewerCalls
<1> QED
  BY TradeTypeCorrect, <1>1, PTL DEF Spec, CallsRunOut

-----------------------------------------------------------------------------
(* The size of an opening order *)

\* Integer division, exactly.
LEMMA Division ==
    ASSUME NEW a \in Int, NEW b \in Nat \ {0}
    PROVE  /\ a \div b \in Int
           /\ b * (a \div b) <= a
           /\ a < b * (a \div b) + b
OBVIOUS

\* A quantity is within half a step of what the amount is worth.
LEMMA HalfStep ==
    ASSUME NEW hundredths \in Nat
    PROVE  /\ RoundedSteps(hundredths) \in Int
           /\ 200 * Price * RoundedSteps(hundredths) <= 2 * hundredths * StepsPerUnit + 100 * Price
           /\ 2 * hundredths * StepsPerUnit < 200 * Price * RoundedSteps(hundredths) + 100 * Price
<1> DEFINE worth == 2 * hundredths * StepsPerUnit
<1> DEFINE step == 200 * Price
<1> DEFINE steps == (worth + 100 * Price) \div step
<1>1. worth \in Int /\ step \in Nat \ {0} /\ worth + 100 * Price \in Int /\ step = 200 * Price
  BY TradeAssumption
<1>2. RoundedSteps(hundredths) = steps
  BY DEF RoundedSteps
<1>3. steps \in Int /\ step * steps <= worth + 100 * Price /\ worth + 100 * Price < step * steps + step
  <2> HIDE DEF worth, step
  <2> QED
    BY <1>1, Division
<1>4. Price \in Int /\ worth = 2 * hundredths * StepsPerUnit
  BY TradeAssumption
<1> HIDE DEF steps, worth, step
<1>5. 200 * Price * steps = step * steps
  BY <1>1
<1>6. step = 100 * Price + 100 * Price
  BY <1>1, <1>4
<1>7. step * steps \in Int
  BY <1>1, <1>3
<1>8. worth < step * steps + 100 * Price
  BY <1>1, <1>3, <1>4, <1>6, <1>7
<1> QED
  BY <1>1, <1>2, <1>3, <1>4, <1>5, <1>8

\* The product of numbers grows with each of them.
LEMMA Monotone ==
    ASSUME NEW a \in Nat, NEW b \in Nat, NEW c \in Nat, b <= c
    PROVE  a * b \in Nat /\ a * c \in Nat /\ a * b <= a * c
OBVIOUS

\* calculatePositionSize lets no order pass that is worth less than 100 USDT or,
\* by more than half a step, more than the balance carries at the leverage.
LEMMA OrderSizeFits ==
    ASSUME NEW percent \in Nat, NEW leverage \in Nat, OrderSize(percent, leverage) > 0
    PROVE  /\ 100 * StepsPerUnit <= OrderSize(percent, leverage) * Price
           /\ 2 * OrderSize(percent, leverage) * Price
                <= 2 * Balance * leverage * StepsPerUnit + Price
<1> DEFINE carried == Balance * leverage * StepsPerUnit
<1> DEFINE hundredths == Balance * percent * leverage
<1> DEFINE steps == RoundedSteps(hundredths)
<1>1. Balance \in Nat /\ StepsPerUnit \in Nat /\ Price \in Nat /\ hundredths \in Nat
  BY TradeAssumption
<1>2. /\ OrderSize(percent, leverage) = steps
      /\ percent \in 1..100
      /\ 100 * StepsPerUnit <= steps * Price
  BY DEF OrderSize
<1>3. /\ steps \in Int
      /\ 200 * Price * steps <= 2 * hundredths * StepsPerUnit + 100 * Price
  <2> HIDE DEF hundredths
  <2> QED
    BY <1>1, HalfStep
<1>4. carried \in Nat
  BY <1>1
<1>5. hundredths * StepsPerUnit = carried * percent
  BY <1>1
<1>6. carried * percent <= carried * 100
  <2> HIDE DEF carried
  <2> QED
    BY <1>2, <1>4, Monotone
<1>7. 200 * Price * steps <= 2 * (carried * 100) + 100 * Price
  <2>1. 2 * hundredths * StepsPerUnit = 2 * (hundredths * StepsPerUnit)
    BY <1>1
  <2>2. carried * percent \in Int
    BY <1>1
  <2> HIDE DEF steps, carried, hundredths
  <2> QED
    BY <1>1, <1>3, <1>4, <1>5, <1>6, <2>1, <2>2
<1>8. 2 * (steps * Price) <= 2 * carried + Price
  <2>1. 200 * Price * steps = 200 * (steps * Price)
    BY <1>1, <1>3
  <2>2. steps * Price \in Int
    BY <1>1, <1>3
  <2> HIDE DEF steps, carried
  <2> QED
    BY <1>1, <1>4, <1>7, <2>1, <2>2
<1> QED
  BY <1>1, <1>2, <1>3, <1>8

\* Every opening order that leaves the program is worth at least 100 USDT, and at
\* most what the balance carries at the decision's leverage and half a step.
THEOREM OrdersAffordable == Spec => []Affordable
<1>1. TradeInv => Affordable
  <2> SUFFICES ASSUME TradeInv, pc \in {"refresh", "open", "recheck"}
               PROVE  /\ 100 * StepsPerUnit <= amount * Price
                      /\ 2 * amount * Price
                           <= 2 * Balance * ActualLeverage * StepsPerUnit + Price
    BY DEF Affordable
  <2>1. decision.percent \in Nat /\ decision.leverage \in Nat
    BY DEF TradeInv, TypeOK
  <2>2. ActualLeverage \in Nat
    BY <2>1, TradeAssumption DEF ActualLeverage
  <2>3. amount = OrderSize(decision.percent, ActualLeverage) /\ amount > 0
    BY DEF TradeInv, AmountSettled, Settled
  <2> QED
    BY <2>1, <2>2, <2>3, OrderSizeFits
<1> QED
  BY TradeInvariance, <1>1, PTL

-----------------------------------------------------------------------------
(* Why a reported close may leave a position *)

\* As long as no stop triggers, the position is what was held when the decision
\* was taken, until its first order.
Unstopped == pc \in Untraded => net = before

\* When no stop order ever triggers on the exchange, nothing is left of a
\* position whose close was reported, whatever reads, calls or answers fail: the
\* run trade_reversed needs the stop that closes the position between the
\* reading and an order sent without ReduceOnly.
THEOREM OnlyStopsReverse ==
    ASSUME "stop" \notin Disturbances
    PROVE  Spec => ClosedLeavesNothing
<1>1. Init => Unstopped
  BY DEF Init, Unstopped, Untraded
<1>2. TradeInv /\ Unstopped /\ [Next]_vars => Unstopped'
  <2> SUFFICES ASSUME TradeInv, Unstopped, [Next]_vars PROVE Unstopped'
    OBVIOUS
  <2>1. pc \in Labels
    BY DEF TradeInv, TypeOK
  <2> USE <2>1 DEF Unstopped, Untraded, Labels, Goto, Done
  <2>2. ~StopTriggers
    BY DEF StopTriggers
  <2>3. CASE CloseOrder
    BY <2>3 DEF CloseOrder
  <2>4. CASE OpenOrder
    BY <2>4 DEF OpenOrder
  <2>5. CASE net' = net /\ before' = before
    <3>1. pc' \in Untraded => pc \in Untraded \/ before' = net'
      BY Zenon DEF Next, vars, StopTriggers, Decide, ValidateDecision, PreExecutionChecks,
         ValidateAction, SetupExchange, ChangeLeverage, CalculatePositionSize, ExecuteTrade,
         CloseOrder, OpenOrder, RefreshPosition, Recheck
    <3> QED
      BY <2>5, <3>1
  <2> QED
    BY <2>2, <2>3, <2>4, <2>5, WhatMoves DEF TradeInv
<1>3. TradeInv /\ Unstopped /\ [Next]_vars
        => [/\ pc # "idle" /\ pc' = "idle" /\ report' = "success"
            /\ decision.action \in Closing
            => net' = 0]_vars
  <2> SUFFICES ASSUME TradeInv, Unstopped, Next, pc # "idle", pc' = "idle", report' = "success",
                      decision.action \in Closing
               PROVE  net' = 0
    BY DEF vars
  <2>1. pc \in Labels /\ net \in Int /\ seen \in Int
    BY DEF TradeInv, TypeOK
  <2>2. CloseOrder
    <3>1. pc \notin {"refresh", "open", "recheck"}
      BY DEF TradeInv, AmountSettled, Opening, Closing
    <3> QED
      BY <3>1 DEF Next, StopTriggers, Decide, ValidateDecision, PreExecutionChecks,
         ValidateAction, SetupExchange, ChangeLeverage, CalculatePositionSize, ExecuteTrade,
         OpenOrder, RefreshPosition, Recheck, Goto, Done
  <2>3. pc = "close" /\ net' = net + (-seen)
    BY <2>2 DEF CloseOrder, Fill, Goto, Done
  <2>4. net = before /\ seen = before
    BY <2>3 DEF Unstopped, Untraded, TradeInv, HeldBefore
  <2> QED
    BY <2>1, <2>3, <2>4
<1> QED
  BY TradeInvariance, <1>1, <1>2, <1>3, PTL DEF Spec, ClosedLeavesNothing

=============================================================================
