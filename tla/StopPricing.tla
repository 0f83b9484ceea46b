---------------------------- MODULE StopPricing ----------------------------
(***************************************************************************)
(* The price arithmetic of stops: TrailingStopCalculator and the price     *)
(* checks of StopLossManager.  Prices are integers (a fixed number of      *)
(* decimal places of the quote currency) and percentages are basis points, *)
(* so that 0.15% is 15 and every comparison of the code becomes an exact   *)
(* comparison of products.                                                 *)
(***************************************************************************)
EXTENDS Integers

CONSTANTS
    UpdateThreshold,  \* smallest relative change of a stop worth an order, bps
    MinStopDistance,  \* closest initial stop to the entry price, bps
    MaxStopDistance   \* furthest initial stop from the entry price, bps

\* The table of getDefaultConfigs has a positive threshold and a non-empty
\* range of distances for every symbol.
ASSUME PricingAssumption ==
    /\ UpdateThreshold \in Nat \ {0}
    /\ MinStopDistance \in Nat \ {0}
    /\ MaxStopDistance \in Nat
    /\ MinStopDistance <= MaxStopDistance

Sides == {"long", "short"}

AbsDiff(a, b) == IF a >= b THEN a - b ELSE b - a

\* A stop that moves away from the price: down for a long position, up for
\* a short one.  UpdateStopLoss refuses it.
Worsens(side, old, new) ==
    \/ side = "long" /\ new < old
    \/ side = "short" /\ new > old

\* calc.IsValidUpdate: a strict move towards the price.
IsValidUpdate(side, old, new) ==
    IF side = "long" THEN new > old ELSE new < old

\* calc.ShouldUpdate, also inlined in UpdateStopLoss: a change of at least
\* UpdateThreshold relative to the old stop.
ShouldUpdate(old, new) == AbsDiff(new, old) * 10000 >= UpdateThreshold * old

\* What UpdateStopLoss goes on with.
Improves(side, old, new) == ~Worsens(side, old, new) /\ ShouldUpdate(old, new)

\* calc.ValidateStopDistance: the initial stop lies on the losing side of
\* the entry price, neither too close nor too far.  Relative to an entry price
\* of 0 the distance is infinite or not a number, and out of range.
ValidateStopDistance(side, entry, stop) ==
    LET distance == (IF side = "long" THEN entry - stop ELSE stop - entry) * 10000
    IN  /\ entry # 0
        /\ distance >= MinStopDistance * entry
        /\ distance <= MaxStopDistance * entry

\* calc.CalculateTrailingStop; distance is TrailingATRMultiplier * atr.
CalculateTrailingStop(side, extreme, distance) ==
    IF side = "long" THEN extreme - distance ELSE extreme + distance

\* calculateDefaultStopLoss: 2.5% from the entry price.
DefaultStop(side, entry) ==
    IF side = "long" THEN (entry * 975) \div 1000 ELSE (entry * 1025) \div 1000

\* validateStopLossPrice and the same check inside placeStopLossOrder: a stop
\* that the current price has already reached would trigger at once.
SafeSide(side, stop, current) ==
    IF side = "short" THEN stop > current ELSE stop < current

\* The extreme price after a kline: updatePositionPriceFrom3mKline.  A short
\* position whose extreme still is its entry price takes any low.
NextExtreme(side, entry, extreme, high, low) ==
    IF side = "long"
      THEN IF high > extreme THEN high ELSE extreme
      ELSE IF low < extreme \/ extreme = entry THEN low ELSE extreme

\* priceUpdated of updatePositionPriceFrom3mKline.
ExtremeMoves(side, entry, extreme, high, low) ==
    IF side = "long" THEN high > extreme ELSE low < extreme \/ extreme = entry
=============================================================================
