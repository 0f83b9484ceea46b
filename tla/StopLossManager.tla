-------------------------- MODULE StopLossManager --------------------------
(***************************************************************************)
(* The stop-loss management of one symbol: StopLossManager and the two     *)
(* goroutines that share it, the trading loop of cmd/web ("main") and the  *)
(* per-symbol goroutine of TrailingStopManager ("trail"), against the      *)
(* exchange and the positions table.                                       *)
(*                                                                         *)
(* A step is what one goroutine does between two points where the other    *)
(* one can intervene: a critical section of sm.mu, one exchange call, one  *)
(* database call.  Symbols share nothing but sm.mu, whose other users only *)
(* delay a step, so one symbol stands for each of them.                    *)
(***************************************************************************)
EXTENDS StopPricing

CONSTANTS
    Prices,         \* prices the market takes
    Spikes,         \* prices it touches for a moment, between two readings
    Stops,          \* stop prices the model (LLM) proposes, 0 when it proposes none
    StopDistances,  \* values of TrailingATRMultiplier * ATR
    Requests,       \* quantities an opening decision asks for
    OpenSides,      \* sides the trading loop opens
    Faults,         \* which calls may fail
    MaxPositions,   \* bound: Position objects ever created
    MaxOrders       \* bound: stop orders ever accepted by the exchange

ASSUME StopLossAssumption ==
    /\ Prices \subseteq Nat /\ Prices # {}
    /\ Spikes \subseteq Nat
    /\ Stops \subseteq Nat
    /\ StopDistances \subseteq Nat
    /\ Requests \subseteq Nat \ {0}
    /\ OpenSides \subseteq Sides
    /\ Faults \subseteq {"call", "answer", "record", "fill"}
    /\ MaxPositions \in Nat \ {0}
    /\ MaxOrders \in Nat

Threads == {"main", "trail"}
PositionIds == 1..MaxPositions
OrderIds == 1..MaxOrders

VARIABLES
    price,      \* the market price
    exch,       \* the side of the position on the exchange, or "none"
    orders,     \* the algo orders the exchange has accepted
    nextOrder,  \* AlgoId of the next one
    managed,    \* sm.positions[symbol]: a Position object, or 0
    pos,        \* the Position objects, shared by pointer
    nextPos,    \* the next object
    db,         \* the row of each object in the positions table
    mu,         \* holder of sm.mu across steps, or "free"
    pc,         \* where each goroutine is
    loc         \* its local variables

vars == <<price, exch, orders, nextOrder, managed, pos, nextPos, db, mu, pc, loc>>
market == <<price, exch>>
book == <<orders, nextOrder>>
memory == <<managed, pos, nextPos>>

\* The quantity the exchange fills; a decision may have asked for another one.
Filled == 1

\* Once an order is not live only its status is looked at.
Ended(status) == [status |-> status, side |-> "long", trigger |-> 0]
NoOrder == Ended("none")

\* The columns of a row that something depends on; the UPDATE statement leaves
\* side, entry and qty as the INSERT wrote them.
NoRow == [saved |-> FALSE, side |-> "long", entry |-> 0, qty |-> 0,
          stop |-> 0, order |-> 0, closed |-> FALSE]

\* o: the object at hand; stop: newStopLoss or InitialStopLoss; high:
\* newHighestPrice; row: posRecord; seen: actualPos; ret: where the call
\* returns to.
NoLocals == [o |-> 0, stop |-> 0, high |-> 0, row |-> NoRow, seen |-> "none", ret |-> "idle"]

\* A Position of main.go's opening branch has an ID and a Quantity and no Size;
\* one made by GetCurrentPosition has a Size and neither ID nor Quantity.
NewPosition(side, entry, stop, size, qty, id) ==
    [side |-> side, entry |-> entry, stop |-> stop, high |-> entry,
     order |-> 0, size |-> size, qty |-> qty, id |-> id]

NoPosition == NewPosition("long", 0, 0, 0, 0, FALSE)

\* An exchange call that fails without effect, one that takes effect and whose
\* answer is lost, and an access to the positions table that fails.
CallFails == "call" \in Faults
AnswerLost == "answer" \in Faults
RecordFails == "record" \in Faults

Goto(t, label) == pc' = [pc EXCEPT ![t] = label]

\* The call returns to the goroutine's loop; a deferred Unlock runs.
Finish(t) ==
    /\ Goto(t, "idle")
    /\ loc' = [loc EXCEPT ![t] = NoLocals]
    /\ mu' = IF mu = t THEN "free" ELSE mu

-----------------------------------------------------------------------------
(* The exchange *)

MovePrice ==
    /\ price' \in Prices \ {price}
    /\ UNCHANGED <<exch, book, memory, db, mu, pc, loc>>

\* A STOP_MARKET order whose trigger the price has reached closes, reduce-only,
\* what it finds of the position it was placed against.
TriggerOrder(k) ==
    /\ orders[k].status = "live"
    /\ \E touched \in Spikes \cup {price} :
         ~SafeSide(orders[k].side, orders[k].trigger, touched)
    /\ IF exch = orders[k].side
         THEN /\ orders' = [orders EXCEPT ![k] = Ended("filled")]
              /\ exch' = "none"
         ELSE /\ orders' = [orders EXCEPT ![k] = Ended("expired")]
              /\ UNCHANGED exch
    /\ UNCHANGED <<price, nextOrder, memory, db, mu, pc, loc>>

-----------------------------------------------------------------------------
(* The trading loop: what runTradingAnalysis does with a decision *)

\* HOLD with a stop price: nothing when it is the managed stop already.
HoldDecision(stop) ==
    /\ pc["main"] = "idle"
    /\ stop # 0
    /\ mu = "free"
    /\ managed # 0 => pos[managed].stop # stop
    /\ loc' = [loc EXCEPT !["main"] = [NoLocals EXCEPT !.stop = stop]]
    /\ Goto("main", "update")
    /\ UNCHANGED <<market, book, memory, db, mu>>

\* The price a trade reports: when the answer to the order has none and the
\* query of the price fails, it is 0.
FillPrices == {price} \cup IF "fill" \in Faults THEN {0} ELSE {}

\* Without a proposal the stop is 2.5% away from the reported price.
InitialStop(side, entry, proposed) ==
    IF proposed = 0 THEN DefaultStop(side, entry) ELSE proposed

\* BUY or SELL that the coordinator executed: allowed without a position and
\* against the opposite one, which the executor closes first.  Quantity is what
\* was asked for, whatever was filled.
OpenDecision(side, proposed, asked) ==
    /\ pc["main"] = "idle"
    /\ nextPos <= MaxPositions
    /\ exch # side
    /\ exch' = side
    /\ \E entry \in FillPrices :
         LET stop == InitialStop(side, entry, proposed)
         IN  /\ pos' = [pos EXCEPT ![nextPos] = NewPosition(side, entry, stop, 0, asked, TRUE)]
             /\ loc' = [loc EXCEPT !["main"] = [NoLocals EXCEPT !.o = nextPos, !.stop = stop]]
    /\ nextPos' = nextPos + 1
    /\ Goto("main", "register")
    /\ UNCHANGED <<price, book, managed, db, mu>>

\* CLOSE_LONG or CLOSE_SHORT that the coordinator executed.
CloseDecision ==
    /\ pc["main"] = "idle"
    /\ exch # "none"
    /\ exch' = "none"
    /\ Goto("main", "close")
    /\ UNCHANGED <<price, book, memory, db, mu, loc>>

\* The executor reports a failure although the exchange did something: the
\* answer was lost, or the opposite position was closed and not replaced.
\* Nothing is registered and nothing is closed locally.
UnreportedTrade ==
    /\ pc["main"] = "idle"
    /\ AnswerLost
    /\ exch' \in (OpenSides \cup {"none"}) \ {exch}
    /\ UNCHANGED <<price, book, memory, db, mu, pc, loc>>

\* SavePosition inserts the record built here from the registered object.
BuildRecord ==
    /\ pc["main"] = "save"
    /\ LET p == pos[loc["main"].o]
       IN  loc' = [loc EXCEPT !["main"].row =
                     [saved |-> TRUE, side |-> p.side, entry |-> p.entry, qty |-> p.qty,
                      stop |-> p.stop, order |-> p.order, closed |-> FALSE]]
    /\ Goto("main", "saveWrite")
    /\ UNCHANGED <<market, book, memory, db, mu>>

\* A failed insert is only logged.
SaveRecord ==
    /\ pc["main"] = "saveWrite"
    /\ LET l == loc["main"]
       IN  \/ db' = [db EXCEPT ![l.o] = l.row]
           \/ RecordFails /\ UNCHANGED db
    /\ Goto("main", "initPrice")
    /\ UNCHANGED <<market, book, memory, mu, loc>>

-----------------------------------------------------------------------------
(* RegisterPosition and PlaceInitialStopLoss *)

\* One critical section; the entry it overwrites is not looked at.  main's own
\* position is saved next, an adopted one gets its stop order at once.
RegisterPosition(t) ==
    /\ pc[t] = "register"
    /\ mu = "free"
    /\ managed' = loc[t].o
    /\ Goto(t, IF pos[loc[t].o].id THEN "save" ELSE "initPrice")
    /\ UNCHANGED <<market, book, pos, nextPos, db, mu, loc>>

\* PlaceInitialStopLoss returns: to UpdateStopLoss when it adopted a position,
\* else to the trading loop, which only logs an error.
InitialReturns(t, ok) ==
    IF ok /\ loc[t].ret = "relock"
      THEN Goto(t, "relock") /\ UNCHANGED <<mu, loc>>
      ELSE Finish(t)

\* ValidateStopDistance, then the price check of placeStopLossOrder.
CheckInitialStop(t) ==
    /\ pc[t] = "initPrice"
    /\ LET l == loc[t]
           p == pos[l.o]
           sound == /\ ValidateStopDistance(p.side, p.entry, l.stop)
                    /\ SafeSide(p.side, l.stop, price)
       IN  \/ /\ sound
              /\ Goto(t, "initPlace")
              /\ UNCHANGED <<mu, loc>>
           \/ /\ ~sound \/ CallFails
              /\ InitialReturns(t, FALSE)
    /\ UNCHANGED <<market, book, memory, db>>

\* The exchange accepts a stop order: it has a quantity and would not trigger
\* at once.  The order asks for pos.Size.
Accepts(p, stop) ==
    /\ nextOrder <= MaxOrders
    /\ p.size > 0
    /\ SafeSide(p.side, stop, price)

AcceptOrder(p, stop) ==
    /\ orders' = [orders EXCEPT ![nextOrder] =
                    [status |-> "live", side |-> p.side, trigger |-> stop]]
    /\ nextOrder' = nextOrder + 1

\* The order is placed; or it is accepted and the answer is lost; or it is
\* refused.
PlaceInitialStopLoss(t) ==
    /\ pc[t] = "initPlace"
    /\ LET l == loc[t]
           p == pos[l.o]
       IN  \/ /\ Accepts(p, l.stop)
              /\ AcceptOrder(p, l.stop)
              /\ pos' = [pos EXCEPT ![l.o].order = nextOrder]
              /\ Goto(t, "initSync")
              /\ UNCHANGED <<mu, loc>>
           \/ /\ AnswerLost /\ Accepts(p, l.stop)
              /\ AcceptOrder(p, l.stop)
              /\ InitialReturns(t, FALSE)
              /\ UNCHANGED pos
           \/ /\ CallFails \/ ~Accepts(p, l.stop)
              /\ InitialReturns(t, FALSE)
              /\ UNCHANGED <<book, pos>>
    /\ UNCHANGED <<market, managed, nextPos, db>>

\* GetPositionByID, with the order's ID put into the record read.
ReadForOrderID(t) ==
    /\ pc[t] = "initSync"
    /\ LET o == loc[t].o
       IN  IF db[o].saved
             THEN /\ loc' = [loc EXCEPT ![t].row = [db[o] EXCEPT !.order = pos[o].order]]
                  /\ Goto(t, "initWrite")
                  /\ UNCHANGED mu
             ELSE InitialReturns(t, TRUE)
    /\ UNCHANGED <<market, book, memory, db>>

\* UpdatePosition writes every column of the record; three failures are logged.
WriteRow(t) ==
    \/ db' = [db EXCEPT ![loc[t].o] = loc[t].row]
    \/ RecordFails /\ UNCHANGED db

WriteOrderID(t) ==
    /\ pc[t] = "initWrite"
    /\ WriteRow(t)
    /\ InitialReturns(t, TRUE)
    /\ UNCHANGED <<market, book, memory>>

-----------------------------------------------------------------------------
(* UpdateStopLoss *)

\* A slip: sm.mu is released before the exchange is called.
BeginUnlockedUpdate(t) ==
    LET l == loc[t]
        p == pos[managed]
    IN  IF Improves(p.side, p.stop, l.stop)
          THEN /\ loc' = [loc EXCEPT ![t].o = managed]
               /\ Goto(t, "validate")
               /\ UNCHANGED mu
          ELSE Finish(t)

\* With sm.mu held: the direction and the size of the change decide whether
\* the update goes on.  Nothing before validateStopLossPrice changes state.
BeginUpdate(t) ==
    LET l == loc[t]
        p == pos[managed]
    IN  IF Improves(p.side, p.stop, l.stop)
          THEN /\ mu' = t
               /\ loc' = [loc EXCEPT ![t].o = managed]
               /\ Goto(t, "validate")
          ELSE Finish(t)

UpdateStopLoss(t) ==
    /\ pc[t] = "update"
    /\ mu = "free"
    /\ IF managed # 0
         THEN BeginUpdate(t)
         ELSE Goto(t, "adopt") /\ UNCHANGED <<mu, loc>>
    /\ UNCHANGED <<market, book, memory, db>>

\* A slip: the answer is adopted whether or not there is a position in it.
AdoptAnything(t) ==
    /\ pc[t] = "adopt"
    /\ nextPos <= MaxPositions
    /\ pos' = [pos EXCEPT ![nextPos] = NewPosition(exch, price, loc[t].stop, Filled, 0, FALSE)]
    /\ nextPos' = nextPos + 1
    /\ loc' = [loc EXCEPT ![t].o = nextPos, ![t].ret = "relock"]
    /\ Goto(t, "register")
    /\ UNCHANGED <<market, book, managed, db, mu>>

\* No local position: GetCurrentPosition, whose result becomes the position
\* with the proposed stop.  Its entry price is the exchange's, for a trade that
\* may have been made by hand.  An error, and no position, end the update.
AdoptPosition(t) ==
    /\ pc[t] = "adopt"
    /\ \/ /\ exch # "none"
          /\ nextPos <= MaxPositions
          /\ \E entry \in Prices :
               pos' = [pos EXCEPT ![nextPos] =
                         NewPosition(exch, entry, loc[t].stop, Filled, 0, FALSE)]
          /\ nextPos' = nextPos + 1
          /\ loc' = [loc EXCEPT ![t].o = nextPos, ![t].ret = "relock"]
          /\ Goto(t, "register")
          /\ UNCHANGED mu
       \/ /\ CallFails \/ exch = "none" \/ nextPos > MaxPositions
          /\ Finish(t)
          /\ UNCHANGED <<pos, nextPos>>
    /\ UNCHANGED <<market, book, managed, db>>

\* The lock is taken again and the map read again: the adopted position may be
\* gone by now, and pos.CurrentStopLoss of a nil pos ends the process.
Relock(t) ==
    /\ pc[t] = "relock"
    /\ mu = "free"
    /\ IF managed # 0
         THEN BeginUpdate(t)
         ELSE Goto(t, "dead") /\ UNCHANGED <<mu, loc>>
    /\ UNCHANGED <<market, book, memory, db>>

\* A slip: the early return forgets the Unlock.
ReturnLocked(t) ==
    /\ pc[t] = "validate"
    /\ IF SafeSide(pos[loc[t].o].side, loc[t].stop, price)
         THEN Goto(t, "cancel")
         ELSE Goto(t, "idle")
    /\ UNCHANGED <<market, book, memory, db, mu, loc>>

\* validateStopLossPrice, before the old order is touched.
ValidateStopLossPrice(t) ==
    /\ pc[t] = "validate"
    /\ LET l == loc[t]
           safe == SafeSide(pos[l.o].side, l.stop, price)
       IN  \/ /\ safe
              /\ Goto(t, "cancel")
              /\ UNCHANGED <<mu, loc>>
           \/ /\ ~safe \/ CallFails
              /\ Finish(t)
    /\ UNCHANGED <<market, book, memory, db>>

\* The cancel call reaches the exchange, which knows only live orders.
CancelOnExchange(k) ==
    orders' = [orders EXCEPT ![k] = Ended("canceled")]

CancelFails(k) ==
    \/ /\ CallFails \/ orders[k].status # "live"
       /\ UNCHANGED orders
    \/ /\ AnswerLost /\ orders[k].status = "live"
       /\ CancelOnExchange(k)

\* cancelStopLossOrder clears the ID when the call succeeds, and an error ends
\* the update; the call may have reached the exchange all the same.
CancelOldOrder(t) ==
    /\ pc[t] = "cancel"
    /\ LET o == loc[t].o
           k == pos[o].order
       IN  \/ /\ k = 0
              /\ Goto(t, "rePrice")
              /\ UNCHANGED <<orders, pos, mu, loc>>
           \/ /\ k # 0 /\ orders[k].status = "live"
              /\ CancelOnExchange(k)
              /\ pos' = [pos EXCEPT ![o].order = 0]
              /\ Goto(t, "rePrice")
              /\ UNCHANGED <<mu, loc>>
           \/ /\ k # 0
              /\ CancelFails(k)
              /\ Finish(t)
              /\ UNCHANGED pos
    /\ UNCHANGED <<market, nextOrder, managed, nextPos, db>>

\* placeStopLossOrder fetches the price again.
CheckNewStop(t) ==
    /\ pc[t] = "rePrice"
    /\ LET l == loc[t]
           safe == SafeSide(pos[l.o].side, l.stop, price)
       IN  \/ /\ safe
              /\ Goto(t, "replace")
              /\ UNCHANGED <<mu, loc>>
           \/ /\ ~safe \/ CallFails
              /\ Finish(t)
    /\ UNCHANGED <<market, book, memory, db>>

\* The new order, and CurrentStopLoss after it.
PlaceNewOrder(t) ==
    /\ pc[t] = "replace"
    /\ LET l == loc[t]
           p == pos[l.o]
       IN  \/ /\ Accepts(p, l.stop)
              /\ AcceptOrder(p, l.stop)
              /\ pos' = [pos EXCEPT ![l.o].order = nextOrder, ![l.o].stop = l.stop]
              /\ Goto(t, "updSync")
              /\ UNCHANGED <<mu, loc>>
           \/ /\ AnswerLost /\ Accepts(p, l.stop)
              /\ AcceptOrder(p, l.stop)
              /\ Finish(t)
              /\ UNCHANGED pos
           \/ /\ CallFails \/ ~Accepts(p, l.stop)
              /\ Finish(t)
              /\ UNCHANGED <<book, pos>>
    /\ UNCHANGED <<market, managed, nextPos, db>>

ReadForStop(t) ==
    /\ pc[t] = "updSync"
    /\ LET l == loc[t]
       IN  IF db[l.o].saved
             THEN /\ loc' = [loc EXCEPT ![t].row =
                               [db[l.o] EXCEPT !.stop = l.stop, !.order = pos[l.o].order]]
                  /\ Goto(t, "updWrite")
                  /\ UNCHANGED mu
             ELSE Finish(t)
    /\ UNCHANGED <<market, book, memory, db>>

WriteStop(t) ==
    /\ pc[t] = "updWrite"
    /\ WriteRow(t)
    /\ Finish(t)
    /\ UNCHANGED <<market, book, memory>>

-----------------------------------------------------------------------------
(* ClosePosition *)

\* ClosePosition and ReconcilePosition return to what called them.
Return(t) ==
    IF loc[t].ret = "idle"
      THEN Finish(t)
      ELSE /\ Goto(t, loc[t].ret)
           /\ loc' = [loc EXCEPT ![t] = NoLocals]
           /\ UNCHANGED mu

ClosePosition(t) ==
    /\ pc[t] = "close"
    /\ mu = "free"
    /\ IF managed # 0
         THEN /\ loc' = [loc EXCEPT ![t].o = managed]
              /\ Goto(t, "closeCancel")
              /\ UNCHANGED mu
         ELSE Return(t)
    /\ UNCHANGED <<market, book, memory, db>>

\* A slip: the close goes on to the database and leaves the map alone.
CancelAndKeep(t) ==
    /\ pc[t] = "closeCancel"
    /\ Goto(t, "closeSync")
    /\ UNCHANGED <<market, book, memory, db, mu, loc>>

\* An order that cannot be cancelled does not stop the close.
CancelOnClose(t) ==
    /\ pc[t] = "closeCancel"
    /\ LET o == loc[t].o
           k == pos[o].order
       IN  \/ /\ k = 0
              /\ UNCHANGED <<orders, pos>>
           \/ /\ k # 0 /\ orders[k].status = "live"
              /\ CancelOnExchange(k)
              /\ pos' = [pos EXCEPT ![o].order = 0]
           \/ /\ k # 0
              /\ CancelFails(k)
              /\ UNCHANGED pos
    /\ Goto(t, "closeDelete")
    /\ UNCHANGED <<market, nextOrder, managed, nextPos, db, mu, loc>>

\* A slip: the map is changed without sm.mu.
RemoveUnlocked(t) ==
    /\ pc[t] = "closeDelete"
    /\ managed' = 0
    /\ Goto(t, "closeSync")
    /\ UNCHANGED <<market, book, pos, nextPos, db, mu, loc>>

\* delete(sm.positions, symbol): whatever is registered for the symbol now.
RemoveFromMemory(t) ==
    /\ pc[t] = "closeDelete"
    /\ mu = "free"
    /\ managed' = 0
    /\ Goto(t, "closeSync")
    /\ UNCHANGED <<market, book, pos, nextPos, db, mu, loc>>

ReadForClose(t) ==
    /\ pc[t] = "closeSync"
    /\ LET o == loc[t].o
       IN  IF db[o].saved
             THEN /\ loc' = [loc EXCEPT ![t].row = [db[o] EXCEPT !.closed = TRUE]]
                  /\ Goto(t, "closeWrite")
                  /\ UNCHANGED mu
             ELSE Return(t)
    /\ UNCHANGED <<market, book, memory, db>>

WriteClosed(t) ==
    /\ pc[t] = "closeWrite"
    /\ WriteRow(t)
    /\ Return(t)
    /\ UNCHANGED <<market, book, memory>>

-----------------------------------------------------------------------------
(* One round of the trailing goroutine: updateSinglePosition *)

\* The kline is read, then the managed position: its extreme moves or not.
ReadKline(high, low) ==
    /\ pc["trail"] = "idle"
    /\ mu = "free"
    /\ managed # 0
    /\ LET p == pos[managed]
       IN  IF ExtremeMoves(p.side, p.entry, p.high, high, low)
             THEN /\ loc' = [loc EXCEPT !["trail"].high =
                               NextExtreme(p.side, p.entry, p.high, high, low)]
                  /\ Goto("trail", "setHigh")
             ELSE /\ loc' = [loc EXCEPT !["trail"].ret = "check"]
                  /\ Goto("trail", "reconcile")
    /\ UNCHANGED <<market, book, memory, db, mu>>

ToReconcile ==
    /\ Goto("trail", "reconcile")
    /\ loc' = [loc EXCEPT !["trail"] = [NoLocals EXCEPT !.ret = "check"]]
    /\ UNCHANGED mu

\* UpdatePositionHighestPrice: the critical section, then the row, of which all
\* columns are read and written back.
SetHighest ==
    /\ pc["trail"] = "setHigh"
    /\ mu = "free"
    /\ IF managed = 0
         THEN ToReconcile /\ UNCHANGED pos
         ELSE /\ pos' = [pos EXCEPT ![managed].high = loc["trail"].high]
              /\ loc' = [loc EXCEPT !["trail"].o = managed]
              /\ Goto("trail", "highSync")
              /\ UNCHANGED mu
    /\ UNCHANGED <<market, book, managed, nextPos, db>>

ReadForHighest ==
    /\ pc["trail"] = "highSync"
    /\ LET l == loc["trail"]
       IN  IF db[l.o].saved
             THEN /\ loc' = [loc EXCEPT !["trail"].row = db[l.o]]
                  /\ Goto("trail", "highWrite")
                  /\ UNCHANGED mu
             ELSE ToReconcile
    /\ UNCHANGED <<market, book, memory, db>>

\* A slip: a failed write is tried again.
WriteAgain ==
    /\ pc["trail"] = "highWrite"
    /\ \/ /\ db' = [db EXCEPT ![loc["trail"].o] = loc["trail"].row]
          /\ ToReconcile
       \/ /\ RecordFails
          /\ Goto("trail", "highSync")
          /\ UNCHANGED <<db, mu, loc>>
    /\ UNCHANGED <<market, book, memory>>

\* Here a failed write ends the round.
WriteHighest ==
    /\ pc["trail"] = "highWrite"
    /\ \/ /\ db' = [db EXCEPT ![loc["trail"].o] = loc["trail"].row]
          /\ ToReconcile
       \/ /\ RecordFails
          /\ UNCHANGED db
          /\ Finish("trail")
    /\ UNCHANGED <<market, book, memory>>

\* A slip: a position the exchange does not have is left to the next round.
ReconcileLater ==
    /\ pc["trail"] = "reconcile"
    /\ mu = "free"
    /\ \/ /\ managed = 0 \/ exch = "none"
          /\ Return("trail")
       \/ /\ managed # 0 /\ exch # "none"
          /\ loc' = [loc EXCEPT !["trail"].seen = exch]
          /\ Goto("trail", "fix")
          /\ UNCHANGED mu
    /\ UNCHANGED <<market, book, memory, db>>

\* ReconcilePosition: what is managed is compared with the exchange's answer.
\* The copies it takes of the position serve the log and the profit only.
ReconcilePosition ==
    /\ pc["trail"] = "reconcile"
    /\ mu = "free"
    /\ \/ /\ managed = 0 \/ CallFails
          /\ Return("trail")
       \/ /\ managed # 0 /\ exch = "none"
          /\ Goto("trail", "close")
          /\ UNCHANGED <<mu, loc>>
       \/ /\ managed # 0 /\ exch # "none"
          /\ loc' = [loc EXCEPT !["trail"].seen = exch]
          /\ Goto("trail", "fix")
          /\ UNCHANGED mu
    /\ UNCHANGED <<market, book, memory, db>>

\* A slip: the stop is reset to the default along with the size.
FixAndReset ==
    /\ pc["trail"] = "fix"
    /\ mu = "free"
    /\ IF managed = 0
         THEN UNCHANGED pos
         ELSE pos' = [pos EXCEPT
                    ![managed].side = loc["trail"].seen,
                    ![managed].size = Filled,
                    ![managed].qty = Filled,
                    ![managed].stop = DefaultStop(loc["trail"].seen, pos[managed].entry)]
    /\ Return("trail")
    /\ UNCHANGED <<market, book, managed, nextPos, db>>

\* A slip: the answer is taken over only where the quantities differ.
FixQuantity ==
    /\ pc["trail"] = "fix"
    /\ mu = "free"
    /\ IF managed = 0 \/ pos[managed].qty = Filled
         THEN UNCHANGED pos
         ELSE pos' = [pos EXCEPT
                    ![managed].side = loc["trail"].seen,
                    ![managed].size = Filled,
                    ![managed].qty = Filled]
    /\ Return("trail")
    /\ UNCHANGED <<market, book, managed, nextPos, db>>

\* Side and size of what is managed now follow the answer.  Quantities are equal
\* or further apart than the tolerance of 0.1% and 0.001.
FixPosition ==
    /\ pc["trail"] = "fix"
    /\ mu = "free"
    /\ IF managed = 0
         THEN UNCHANGED pos
         ELSE pos' = [pos EXCEPT
                    ![managed].side = loc["trail"].seen,
                    ![managed].size = IF pos[managed].qty # Filled THEN Filled ELSE @,
                    ![managed].qty = Filled]
    /\ Return("trail")
    /\ UNCHANGED <<market, book, managed, nextPos, db>>

\* CheckStopLossOrderStatus: a live order, and a query that fails, go on to the
\* trailing stop; a filled one closes the position; one the exchange no longer
\* knows is reconciled; one reported as canceled or expired counts as active.
CheckStopLossOrderStatus ==
    /\ pc["trail"] = "check"
    /\ mu = "free"
    /\ LET k == IF managed = 0 THEN 0 ELSE pos[managed].order
       IN  \/ /\ \/ CallFails
                 \/ k = 0
                 \/ k # 0 /\ orders[k].status \in {"live", "canceled", "expired"}
              /\ Goto("trail", "auto")
              /\ UNCHANGED loc
           \/ /\ k # 0 /\ orders[k].status = "filled"
              /\ loc' = [loc EXCEPT !["trail"].ret = "auto"]
              /\ Goto("trail", "close")
           \/ /\ k # 0 /\ orders[k].status \in {"canceled", "expired"}
              /\ loc' = [loc EXCEPT !["trail"].ret = "auto"]
              /\ Goto("trail", "reconcile")
    /\ UNCHANGED <<market, book, memory, db, mu>>

\* AutoUpdateTrailingStop computes the new stop from copies and leaves sm.mu
\* before it calls UpdateStopLoss.  Without an ATR the round ends.
AutoUpdateTrailingStop(distance) ==
    /\ pc["trail"] = "auto"
    /\ mu = "free"
    /\ LET p == pos[managed]
           new == CalculateTrailingStop(p.side, p.high, distance)
           worth == /\ managed # 0
                    /\ IsValidUpdate(p.side, p.stop, new)
                    /\ ShouldUpdate(p.stop, new)
       IN  \/ /\ worth
              /\ loc' = [loc EXCEPT !["trail"] = [NoLocals EXCEPT !.stop = new]]
              /\ Goto("trail", "update")
              /\ UNCHANGED mu
           \/ /\ ~worth \/ CallFails
              /\ Finish("trail")
    /\ UNCHANGED <<market, book, memory, db>>

-----------------------------------------------------------------------------

\* The process starts with what SyncPositionsFromBinance finds: nothing, or one
\* position, registered with the default stop and no order.
Init ==
    /\ price \in Prices
    /\ orders = [k \in OrderIds |-> NoOrder]
    /\ nextOrder = 1
    /\ db = [o \in PositionIds |-> NoRow]
    /\ mu = "free"
    /\ pc = [t \in Threads |-> "idle"]
    /\ loc = [t \in Threads |-> NoLocals]
    /\ LET blank == [o \in PositionIds |-> NoPosition]
       IN  \/ /\ exch = "none"
              /\ managed = 0 /\ pos = blank /\ nextPos = 1
           \/ /\ exch \in OpenSides
              /\ pos = [blank EXCEPT ![1] =
                          NewPosition(exch, price, DefaultStop(exch, price), Filled, 0, FALSE)]
              /\ managed = 1 /\ nextPos = 2

MainDecides ==
    \/ \E stop \in Stops : HoldDecision(stop)
    \/ \E side \in OpenSides, proposed \in Stops, asked \in Requests :
         OpenDecision(side, proposed, asked)
    \/ CloseDecision
    \/ UnreportedTrade

MainRecords == BuildRecord \/ SaveRecord

SharedCall(t) ==
    \/ RegisterPosition(t) \/ CheckInitialStop(t) \/ PlaceInitialStopLoss(t)
    \/ ReadForOrderID(t) \/ WriteOrderID(t)
    \/ UpdateStopLoss(t) \/ AdoptPosition(t) \/ Relock(t)
    \/ ValidateStopLossPrice(t) \/ CancelOldOrder(t) \/ CheckNewStop(t) \/ PlaceNewOrder(t)
    \/ ReadForStop(t) \/ WriteStop(t)
    \/ ClosePosition(t) \/ CancelOnClose(t) \/ RemoveFromMemory(t)
    \/ ReadForClose(t) \/ WriteClosed(t)

TrailRound ==
    \/ \E high, low \in Prices : low <= high /\ ReadKline(high, low)
    \/ SetHighest \/ ReadForHighest \/ WriteHighest
    \/ ReconcilePosition \/ FixPosition \/ CheckStopLossOrderStatus
    \/ \E distance \in StopDistances : AutoUpdateTrailingStop(distance)

Exchange == MovePrice \/ \E k \in OrderIds : TriggerOrder(k)

\* A goroutine that panics takes the other one with it.
Alive == \A t \in Threads : pc[t] # "dead"

Process ==
    /\ Alive
    /\ \/ MainDecides
       \/ MainRecords
       \/ \E t \in Threads : SharedCall(t)
       \/ TrailRound

Next == Process \/ Exchange

Spec == Init /\ [][Next]_vars

-----------------------------------------------------------------------------
(* Fairness *)

\* A goroutine that can run runs, every call it makes returns, and sync.RWMutex
\* lets no waiter starve: a goroutine that can proceed again and again does.
\* Decisions, prices and failures are not fair.
Step(t) ==
    /\ Alive
    /\ \/ SharedCall(t)
       \/ t = "main" /\ MainRecords
       \/ t = "trail" /\ TrailRound

-----------------------------------------------------------------------------
(* Types *)

Labels == {"idle", "update", "adopt", "register", "save", "saveWrite", "initPrice",
           "initPlace", "initSync", "initWrite", "relock", "validate", "cancel", "rePrice",
           "replace", "updSync", "updWrite", "close", "closeCancel", "closeDelete",
           "closeSync", "closeWrite", "setHigh", "highSync", "highWrite", "reconcile",
           "fix", "check", "auto", "dead"}

Position == [side : Sides, entry : Int, stop : Int, high : Int, order : OrderIds \cup {0},
             size : Nat, qty : Nat, id : BOOLEAN]
Row == [saved : BOOLEAN, side : Sides, entry : Int, qty : Nat,
        stop : Int, order : OrderIds \cup {0}, closed : BOOLEAN]
Order == [status : {"none", "live", "canceled", "filled", "expired"}, side : Sides, trigger : Int]
Locals == [o : PositionIds \cup {0}, stop : Int, high : Int, row : Row,
           seen : Sides \cup {"none"}, ret : {"idle", "relock", "check", "auto"}]

\* Every variable has its type.
TypeOK ==
    /\ price \in Prices
    /\ exch \in Sides \cup {"none"}
    /\ orders \in [OrderIds -> Order]
    /\ nextOrder \in 1..(MaxOrders + 1)
    /\ managed \in PositionIds \cup {0}
    /\ pos \in [PositionIds -> Position]
    /\ nextPos \in 1..(MaxPositions + 1)
    /\ db \in [PositionIds -> Row]
    /\ mu \in Threads \cup {"free"}
    /\ pc \in [Threads -> Labels]
    /\ loc \in [Threads -> Locals]

-----------------------------------------------------------------------------
(* Safety *)

\* The stretch of UpdateStopLoss that holds sm.mu across exchange calls.
Locked == {"validate", "cancel", "rePrice", "replace", "updSync", "updWrite"}

\* What UpdateStopLoss cancels, places and moves is what is managed, from the
\* moment it took sm.mu to its return: neither ClosePosition nor
\* RegisterPosition of the other goroutine gets in between.
UpdatedIsManaged ==
    \A t \in Threads : pc[t] \in Locked => mu = t /\ managed # 0 /\ managed = loc[t].o

\* "Only allow favourable direction": while its side stays, the stop of a
\* managed position moves towards the price and by the threshold at least, or
\* not at all, although the trading loop and the trailing goroutine each decide
\* from a stop they read earlier.
RatchetStop ==
    [][\A o \in PositionIds :
         /\ managed = o /\ managed' = o
         /\ pos'[o].side = pos[o].side /\ pos'[o].stop # pos[o].stop
         => /\ IsValidUpdate(pos[o].side, pos[o].stop, pos'[o].stop)
            /\ ShouldUpdate(pos[o].stop, pos'[o].stop)]_vars

\* ClosePosition marks a row as closed only when its position is out of
\* management for good, whatever was registered or closed meanwhile.
ClosedNotManaged == managed # 0 => ~db[managed].closed

\* A position created and not yet registered.
Pending(o) == \E t \in Threads : pc[t] = "register" /\ loc[t].o = o

\* The manager keeps the promise of StopGuard.
Guard == INSTANCE StopGuard WITH
    Ids <- PositionIds,
    guarded <- managed,
    used <- {o \in PositionIds : o < nextPos /\ ~Pending(o)},
    side <- IF managed = 0 THEN "none" ELSE pos[managed].side,
    stop <- IF managed = 0 THEN 0 ELSE pos[managed].stop

GuardSpec == Guard!Spec

-----------------------------------------------------------------------------
(* The inductive invariant behind the safety properties *)

\* Labels at which a goroutine has a Position at hand.
HasObject == Locked \cup
    {"register", "save", "saveWrite", "initPrice", "initPlace", "initSync", "initWrite",
     "closeCancel", "closeDelete", "closeSync", "closeWrite", "highSync", "highWrite"}

AtHand ==
    \A t \in Threads :
      /\ pc[t] \in HasObject => loc[t].o # 0
      /\ pc[t] = "fix" => loc[t].seen # "none"

\* sm.mu is held across steps exactly where the code holds it.
LockHeld == \A t \in Threads : mu = t <=> pc[t] \in Locked

\* Objects are made one after the other, and one that is not registered yet is
\* known to its maker only.
Created == managed < nextPos /\ \A t \in Threads : loc[t].o < nextPos

PendingAlone ==
    \A t \in Threads : pc[t] = "register" =>
        managed # loc[t].o /\ \A u \in Threads \ {t} : loc[u].o # loc[t].o

\* The stop on its way to the exchange is still worth the present one.
StopChecked ==
    \A t \in Threads : pc[t] \in Locked \ {"updSync", "updWrite"} =>
        Improves(pos[loc[t].o].side, pos[loc[t].o].stop, loc[t].stop)

\* Out of management, and never to come back.
Retired(o) == o < nextPos /\ o # managed /\ ~Pending(o)

WritesRow == {"saveWrite", "initWrite", "updWrite", "closeWrite", "highWrite"}

ClosedRetired ==
    /\ \A o \in PositionIds : db[o].closed => Retired(o)
    /\ \A t \in Threads :
         /\ pc[t] \in {"closeSync", "closeWrite"} => Retired(loc[t].o)
         /\ pc[t] \in WritesRow /\ loc[t].row.closed => Retired(loc[t].o)

ManagerInv ==
    /\ TypeOK
    /\ AtHand
    /\ LockHeld
    /\ Created
    /\ PendingAlone
    /\ UpdatedIsManaged
    /\ StopChecked
    /\ ClosedRetired

-----------------------------------------------------------------------------
(* The length of a call *)

\* The most steps from a label to the end of the call or of the round, not
\* counting what follows when the call returns to another one.
OwnSteps ==
    [dead |-> 0, idle |-> 0, updWrite |-> 1, updSync |-> 2, replace |-> 3, rePrice |-> 4,
     cancel |-> 5, validate |-> 6, relock |-> 7, initWrite |-> 8, initSync |-> 9,
     initPlace |-> 10, initPrice |-> 11, saveWrite |-> 12, save |-> 13, register |-> 14,
     adopt |-> 15, update |-> 16, auto |-> 17, check |-> 24, highWrite |-> 31,
     highSync |-> 32, setHigh |-> 33,
     fix |-> 1, closeWrite |-> 1, closeSync |-> 2, closeDelete |-> 3, closeCancel |-> 4,
     close |-> 5, reconcile |-> 6]

\* ReconcilePosition and ClosePosition are called from several places.
Returning == {"fix", "closeWrite", "closeSync", "closeDelete", "closeCancel", "close", "reconcile"}

StepsFrom(label, ret) == OwnSteps[label] + IF label \in Returning THEN OwnSteps[ret] ELSE 0

StepsLeft(t) == StepsFrom(pc[t], loc[t].ret)

\* A call takes no turn back: whatever fails and whatever the other goroutine
\* does meanwhile, each step of a goroutine leaves it fewer steps to its end.
\* Adoption after a failed look-up, the close of a filled stop and the
\* reconciliation of a vanished one run at most once in a round.
CallsBounded ==
    [][\A t \in Threads :
         pc[t] # "idle" /\ (pc'[t] # pc[t] \/ loc'[t] # loc[t]) =>
           StepsFrom(pc'[t], loc'[t].ret) < StepsLeft(t)]_vars

-----------------------------------------------------------------------------
(* Liveness *)

\* Whatever a goroutine has begun it finishes, so that it is idle again and again,
\* however often the other one holds sm.mu across its exchange calls (or the
\* process has died).
CallsReturn ==
    \A t \in Threads : []<>(pc[t] = "idle" \/ ~Alive)

\* When the position is gone from the exchange for good, by a stop or by hand,
\* it is in the end out of management, whatever the trading loop still does and
\* also when a start takes it from a row that was never closed.
GoneIsReleased == <>[](exch = "none") => <>[](managed = 0)

-----------------------------------------------------------------------------
(* What rows and orders are lost *)

\* A row that was closed and is open again belongs to a position that is not
\* managed, so that a restart takes it for one that was never closed.
ReopenedIsRetired ==
    [][\A o \in PositionIds :
         db[o].closed /\ ~db'[o].closed => managed # o /\ managed' # o]_vars

\* A position that the trading loop opened has no stop order, and no size to
\* order one for: FixPosition notes a size only where the quantities differ.
NeverProtected ==
    \A o \in PositionIds : pos[o].id => pos[o].size = 0 /\ pos[o].order = 0

-----------------------------------------------------------------------------
(* What comments of the code say, and the code does not keep *)

\* PlaceInitialStopLoss: "If this function fails, the caller MUST remove the
\* position from management".
FailedInitialIsRemoved ==
    [][LET o == loc["main"].o
       IN  /\ pc["main"] \in {"initPrice", "initPlace"}
           /\ pc'["main"] = "idle"
           /\ pos'[o].order = 0
           => managed' # o]_vars

\* TrailingStopManager "reuses thread-safe methods from StopLossManager": two
\* goroutines that call them do not bring the process down.
NoPanic == Alive

\* ClosePosition "closes a position completely: cancels stop-loss order,
\* removes from memory, and updates database": the row stays closed.
ClosedStaysClosed == [][\A o \in PositionIds : db[o].closed => db'[o].closed]_vars
=============================================================================
