--------------------------- MODULE StopLossTyping ---------------------------
(***************************************************************************)
(* Every action of StopLossManager keeps every variable in its type.  The  *)
(* type invariant is not inductive by itself: an action that follows       *)
(* loc[t].o needs to know that there is a Position behind it, which is     *)
(* AtHand.                                                                 *)
(***************************************************************************)
EXTENDS StopLossManager, TLAPS

-----------------------------------------------------------------------------
(* What the actions are made of *)

\* The prices computed from integers are integers.
LEMMA PricesTyped ==
    /\ \A side \in Sides, e \in Nat : DefaultStop(side, e) \in Int
    /\ \A side \in Sides, e, d \in Int : CalculateTrailingStop(side, e, d) \in Int
    /\ \A side \in Sides, e, x, h, l \in Int : NextExtreme(side, e, x, h, l) \in Int
BY DEF Sides, DefaultStop, CalculateTrailingStop, NextExtreme

\* Empty locals and the empty row have their types.
LEMMA NoLocalsTyped == NoLocals \in Locals /\ NoRow \in Row
<1>1. NoRow \in Row
  BY DEF NoRow, Row, Sides
<1> QED
  BY <1>1 DEF NoLocals, Locals

\* Each assignment to a local variable keeps the type of the locals.
LEMMA LocalsTyped ==
    ASSUME NEW l \in Locals
    PROVE  /\ \A o \in PositionIds \cup {0} : [l EXCEPT !.o = o] \in Locals
           /\ \A x \in Int : [l EXCEPT !.stop = x] \in Locals
           /\ \A x \in Int : [l EXCEPT !.high = x] \in Locals
           /\ \A row \in Row : [l EXCEPT !.row = row] \in Locals
           /\ \A side \in Sides : [l EXCEPT !.seen = side] \in Locals
           /\ \A ret \in {"relock", "check", "auto"} : [l EXCEPT !.ret = ret] \in Locals
           /\ \A o \in PositionIds : [l EXCEPT !.o = o, !.ret = "relock"] \in Locals
           /\ \A o \in PositionIds, x \in Int : [l EXCEPT !.o = o, !.stop = x] \in Locals
BY DEF Locals

\* Each change of a record keeps the type of a row.
LEMMA RowsTyped ==
    ASSUME NEW row \in Row
    PROVE  /\ \A k \in OrderIds \cup {0} : [row EXCEPT !.order = k] \in Row
           /\ \A x \in Int, k \in OrderIds \cup {0} : [row EXCEPT !.stop = x, !.order = k] \in Row
           /\ [row EXCEPT !.closed = TRUE] \in Row
BY DEF Row

\* A new Position has its type.
LEMMA NewPositionTyped ==
    ASSUME NEW side \in Sides, NEW entry \in Int, NEW stop \in Int,
           NEW size \in Nat, NEW qty \in Nat, NEW id \in BOOLEAN
    PROVE  NewPosition(side, entry, stop, size, qty, id) \in Position
BY DEF NewPosition, Position

\* So is the object nobody has made yet.
LEMMA NoPositionTyped == NoPosition \in Position
<1>1. "long" \in Sides
  BY DEF Sides
<1>2. \A id \in BOOLEAN : NewPosition("long", 0, 0, 0, 0, id) \in Position
  BY <1>1, NewPositionTyped
<1> QED BY <1>2 DEF NoPosition

\* Each assignment to the fields of a Position keeps its type.
LEMMA PositionsTyped ==
    ASSUME NEW p \in Position
    PROVE  /\ \A k \in OrderIds \cup {0} : [p EXCEPT !.order = k] \in Position
           /\ \A k \in OrderIds \cup {0}, x \in Int :
                [p EXCEPT !.order = k, !.stop = x] \in Position
           /\ \A x \in Int : [p EXCEPT !.high = x] \in Position
           /\ \A side \in Sides, n, m \in Nat :
                [p EXCEPT !.side = side, !.size = n, !.qty = m] \in Position
BY DEF Position

\* A call that returns to the loop leaves well-typed control.
LEMMA FinishTyped ==
    ASSUME TypeOK, NEW t \in Threads, Finish(t)
    PROVE  /\ mu' \in Threads \cup {"free"}
           /\ pc' \in [Threads -> Labels]
           /\ loc' \in [Threads -> Locals]
BY NoLocalsTyped DEF Finish, TypeOK, Goto, Labels

\* So does one that returns to its caller.
LEMMA ReturnTyped ==
    ASSUME TypeOK, NEW t \in Threads, Return(t)
    PROVE  /\ mu' \in Threads \cup {"free"}
           /\ pc' \in [Threads -> Labels]
           /\ loc' \in [Threads -> Locals]
<1>1. loc[t].ret \in Labels BY DEF TypeOK, Locals, Labels
<1> QED BY <1>1, NoLocalsTyped, FinishTyped DEF Return, TypeOK, Goto

\* So does PlaceInitialStopLoss.
LEMMA InitialReturnsTyped ==
    ASSUME TypeOK, NEW t \in Threads, NEW ok \in BOOLEAN, InitialReturns(t, ok)
    PROVE  /\ mu' \in Threads \cup {"free"}
           /\ pc' \in [Threads -> Labels]
           /\ loc' \in [Threads -> Locals]
BY FinishTyped DEF InitialReturns, TypeOK, Goto, Labels

\* So does the beginning of an update.
LEMMA BeginUpdateTyped ==
    ASSUME TypeOK, NEW t \in Threads, BeginUpdate(t)
    PROVE  /\ mu' \in Threads \cup {"free"}
           /\ pc' \in [Threads -> Labels]
           /\ loc' \in [Threads -> Locals]
<1>1. [loc[t] EXCEPT !.o = managed] \in Locals BY LocalsTyped DEF TypeOK
<1> QED BY <1>1, FinishTyped DEF BeginUpdate, TypeOK, Goto, Labels

\* A goroutine that has a Position at hand has a real one.
LEMMA ObjectTyped == ASSUME TypeOK, AtHand, NEW t \in Threads, pc[t] \in HasObject
  PROVE loc[t].o \in PositionIds /\ pos[loc[t].o] \in Position /\ db[loc[t].o] \in Row
        /\ loc[t].stop \in Int /\ loc[t].high \in Int /\ loc[t].row \in Row
BY DEF TypeOK, AtHand, Locals

\* An accepted order gets a fresh ID in range and has its type.
LEMMA AcceptOrderTyped ==
    ASSUME TypeOK, NEW p \in Position, NEW stop \in Int, Accepts(p, stop), AcceptOrder(p, stop)
    PROVE  orders' \in [OrderIds -> Order] /\ nextOrder' \in 1..(MaxOrders + 1) /\ nextOrder \in OrderIds
<1>1. nextOrder \in OrderIds /\ nextOrder' \in 1..(MaxOrders + 1)
  BY StopLossAssumption DEF TypeOK, OrderIds, Accepts, AcceptOrder
<1>2. [status |-> "live", side |-> p.side, trigger |-> stop] \in Order
  BY DEF Position, Order
<1> QED BY <1>1, <1>2 DEF AcceptOrder, TypeOK

\* Cancelling, successful or not, keeps the type of the order book.
LEMMA CancelTyped ==
    ASSUME TypeOK, NEW k \in OrderIds, CancelFails(k) \/ CancelOnExchange(k)
    PROVE  orders' \in [OrderIds -> Order]
<1>1. Ended("canceled") \in Order
  BY DEF Ended, Order, Sides
<1> QED BY <1>1 DEF CancelFails, CancelOnExchange, TypeOK

\* Writing a record keeps the type of the positions table.
LEMMA WriteRowTyped ==
    ASSUME TypeOK, AtHand, NEW t \in Threads, pc[t] \in HasObject, WriteRow(t)
    PROVE  db' \in [PositionIds -> Row]
BY ObjectTyped DEF WriteRow, TypeOK

-----------------------------------------------------------------------------
(* The initial states *)

\* The program starts with well-typed variables.
LEMMA InitTyped == Init => TypeOK
<1> SUFFICES ASSUME Init PROVE TypeOK
  OBVIOUS
<1>1. price \in Prices /\ price \in Nat
  BY StopLossAssumption DEF Init
<1>2. exch \in Sides \cup {"none"}
  BY StopLossAssumption DEF Init
<1>3. orders \in [OrderIds -> Order]
  <2>1. NoOrder \in Order
    BY DEF NoOrder, Ended, Order, Sides
  <2>2. orders = [k \in OrderIds |-> NoOrder]
    BY DEF Init
  <2> QED BY <2>1, <2>2
<1>4. nextOrder \in 1..(MaxOrders + 1)
  BY StopLossAssumption DEF Init
<1>5. managed \in PositionIds \cup {0} /\ nextPos \in 1..(MaxPositions + 1)
  <2>1. managed \in {0, 1} /\ nextPos \in {1, 2}
    BY DEF Init
  <2> QED BY <2>1, StopLossAssumption DEF PositionIds
<1>6. pos \in [PositionIds -> Position]
  <2> DEFINE synced == NewPosition(exch, price, DefaultStop(exch, price), Filled, 0, FALSE)
             blanks == [o \in PositionIds |-> NoPosition]
  <2>1. NoPosition \in Position
    BY NoPositionTyped
  <2>2. ASSUME exch \in OpenSides PROVE synced \in Position
    <3>1. exch \in Sides /\ DefaultStop(exch, price) \in Int /\ price \in Int
      BY <1>1, <2>2, StopLossAssumption, PricesTyped
    <3> QED BY <3>1, NewPositionTyped DEF Filled
  <2>3. pos = blanks \/ (exch \in OpenSides /\ pos = [blanks EXCEPT ![1] = synced])
    BY DEF Init
  <2> HIDE DEF synced
  <2> QED BY <2>1, <2>2, <2>3
<1>7. db \in [PositionIds -> Row]
  <2>1. db = [o \in PositionIds |-> NoRow]
    BY DEF Init
  <2> QED BY <2>1, NoLocalsTyped
<1>8. mu \in Threads \cup {"free"}
  BY DEF Init
<1>9. pc \in [Threads -> Labels]
  <2>1. pc = [t \in Threads |-> "idle"]
    BY DEF Init
  <2> QED BY <2>1 DEF Labels
<1>10. loc \in [Threads -> Locals]
  <2>1. loc = [t \in Threads |-> NoLocals]
    BY DEF Init
  <2> QED BY <2>1, NoLocalsTyped
<1> QED BY <1>1, <1>2, <1>3, <1>4, <1>5, <1>6, <1>7, <1>8, <1>9, <1>10 DEF TypeOK

-----------------------------------------------------------------------------
(* The actions *)

\* MovePrice keeps the types.
LEMMA MovePriceTyped ==
    ASSUME TypeOK, MovePrice
    PROVE  TypeOK'
  BY DEF TypeOK, MovePrice, book, memory

\* TriggerOrder keeps the types.
LEMMA TriggerOrderTyped ==
    ASSUME TypeOK, NEW k \in OrderIds, TriggerOrder(k)
    PROVE  TypeOK'
  BY DEF TypeOK, TriggerOrder, memory, Order, Ended, Sides

\* HoldDecision keeps the types.
LEMMA HoldDecisionTyped ==
    ASSUME TypeOK, NEW stop \in Stops, HoldDecision(stop)
    PROVE  TypeOK'
<1>1. stop \in Int
  BY StopLossAssumption
<1>2. [NoLocals EXCEPT !.stop = stop] \in Locals
  BY <1>1, LocalsTyped, NoLocalsTyped
<1>3. "main" \in Threads
  BY DEF Threads
<1> QED BY <1>2, <1>3 DEF TypeOK, HoldDecision, market, book, memory, Goto, Labels

\* OpenDecision keeps the types.
LEMMA OpenDecisionTyped ==
    ASSUME TypeOK, NEW side \in OpenSides, NEW proposed \in Stops, NEW asked \in Requests,
           OpenDecision(side, proposed, asked)
    PROVE  TypeOK'
<1>1. /\ nextPos \in PositionIds /\ proposed \in Int /\ asked \in Nat /\ price \in Nat
      /\ side \in Sides
  BY StopLossAssumption DEF TypeOK, OpenDecision, PositionIds
<1>2. PICK entry \in FillPrices :
        LET stop == InitialStop(side, entry, proposed)
        IN  /\ pos' = [pos EXCEPT ![nextPos] = NewPosition(side, entry, stop, 0, asked, TRUE)]
            /\ loc' = [loc EXCEPT !["main"] = [NoLocals EXCEPT !.o = nextPos, !.stop = stop]]
  BY DEF OpenDecision
<1> DEFINE stop == InitialStop(side, entry, proposed)
<1>3. entry \in Nat
  BY <1>1 DEF FillPrices
<1>4. stop \in Int
  <2>1. stop = proposed \/ stop = DefaultStop(side, entry)
    BY Zenon DEF InitialStop
  <2>2. DefaultStop(side, entry) \in Int
    BY <1>1, <1>3, PricesTyped
  <2> QED BY <1>1, <2>1, <2>2
<1> HIDE DEF stop
<1>5. [NoLocals EXCEPT !.o = nextPos, !.stop = stop] \in Locals
  BY <1>1, <1>4, LocalsTyped, NoLocalsTyped
<1>6. NewPosition(side, entry, stop, 0, asked, TRUE) \in Position
  BY <1>1, <1>3, <1>4 DEF NewPosition, Position
<1>7. nextPos' \in 1..(MaxPositions + 1)
  BY StopLossAssumption DEF TypeOK, OpenDecision
<1> QED BY <1>1, <1>2, <1>5, <1>6, <1>7 DEF TypeOK, OpenDecision, book, Goto, Labels, stop

\* CloseDecision keeps the types.
LEMMA CloseDecisionTyped ==
    ASSUME TypeOK, CloseDecision
    PROVE  TypeOK'
  BY DEF TypeOK, CloseDecision, book, memory, Goto, Labels

\* UnreportedTrade keeps the types.
LEMMA UnreportedTradeTyped ==
    ASSUME TypeOK, UnreportedTrade
    PROVE  TypeOK'
  BY StopLossAssumption DEF TypeOK, UnreportedTrade, book, memory

\* SaveRecord keeps the types.
LEMMA SaveRecordTyped ==
    ASSUME TypeOK, SaveRecord
    PROVE  TypeOK'
  BY DEF TypeOK, SaveRecord, market, book, memory, Goto, Labels, Threads, Locals

\* RegisterPosition keeps the types.
LEMMA RegisterPositionTyped ==
    ASSUME TypeOK, NEW t \in Threads, RegisterPosition(t)
    PROVE  TypeOK'
  BY DEF TypeOK, RegisterPosition, market, book, Goto, Labels, Locals

\* BuildRecord keeps the types.
LEMMA BuildRecordTyped ==
    ASSUME TypeOK, AtHand, BuildRecord
    PROVE  TypeOK'
<1> DEFINE p == pos[loc["main"].o]
           row == [saved |-> TRUE, side |-> p.side, entry |-> p.entry, qty |-> p.qty,
                   stop |-> p.stop, order |-> p.order, closed |-> FALSE]
<1>1. p \in Position
  BY ObjectTyped DEF BuildRecord, Threads, HasObject
<1>2. row \in Row
  BY <1>1 DEF Row, Position
<1>3. [loc["main"] EXCEPT !.row = row] \in Locals
  BY <1>2, LocalsTyped DEF TypeOK, Threads
<1> QED
  BY <1>3 DEF TypeOK, BuildRecord, market, book, memory, Goto, Labels

\* CheckInitialStop keeps the types.
LEMMA CheckInitialStopTyped ==
    ASSUME TypeOK, AtHand, NEW t \in Threads, CheckInitialStop(t)
    PROVE  TypeOK'
  BY InitialReturnsTyped DEF TypeOK, CheckInitialStop, market, book, memory, Goto, Labels

\* PlaceInitialStopLoss keeps the types.
LEMMA PlaceInitialStopLossTyped ==
    ASSUME TypeOK, AtHand, NEW t \in Threads, PlaceInitialStopLoss(t)
    PROVE  TypeOK'
<1> DEFINE o == loc[t].o
           p == pos[o]
           stop == loc[t].stop
<1>1. pc[t] \in HasObject
  BY DEF PlaceInitialStopLoss, HasObject
<1>2. o \in PositionIds /\ p \in Position /\ stop \in Int
  BY <1>1, ObjectTyped
<1>3. CASE Accepts(p, stop) /\ AcceptOrder(p, stop)
  <2>1. orders' \in [OrderIds -> Order] /\ nextOrder' \in 1..(MaxOrders + 1) /\ nextOrder \in OrderIds
    BY <1>2, <1>3, AcceptOrderTyped
  <2>2. [p EXCEPT !.order = nextOrder] \in Position
    BY <1>2, <2>1, PositionsTyped
  <2> QED BY <1>2, <2>1, <2>2, InitialReturnsTyped
          DEF PlaceInitialStopLoss, TypeOK, market, Goto, Labels
<1>4. CASE InitialReturns(t, FALSE) /\ UNCHANGED <<book, pos>>
  BY <1>4, InitialReturnsTyped DEF PlaceInitialStopLoss, TypeOK, market, book
<1> QED BY <1>3, <1>4 DEF PlaceInitialStopLoss

\* ReadForOrderID keeps the types.
LEMMA ReadForOrderIDTyped ==
    ASSUME TypeOK, AtHand, NEW t \in Threads, ReadForOrderID(t)
    PROVE  TypeOK'
<1> DEFINE o == loc[t].o
           row == [db[o] EXCEPT !.order = pos[o].order]
<1>1. pc[t] \in HasObject
  BY DEF ReadForOrderID, HasObject
<1>2. pos[o].order \in OrderIds \cup {0} /\ db[o] \in Row
  BY <1>1, ObjectTyped DEF Position
<1>3. [loc[t] EXCEPT !.row = row] \in Locals
  BY <1>2, RowsTyped, LocalsTyped DEF TypeOK
<1> QED BY <1>3, InitialReturnsTyped DEF ReadForOrderID, TypeOK, market, book, memory, Goto, Labels

\* WriteOrderID keeps the types.
LEMMA WriteOrderIDTyped ==
    ASSUME TypeOK, AtHand, NEW t \in Threads, WriteOrderID(t)
    PROVE  TypeOK'
<1>1. pc[t] \in HasObject
  BY DEF WriteOrderID, HasObject
<1> QED BY <1>1, WriteRowTyped, InitialReturnsTyped DEF WriteOrderID, TypeOK, market, book, memory

\* UpdateStopLoss keeps the types.
LEMMA UpdateStopLossTyped ==
    ASSUME TypeOK, NEW t \in Threads, UpdateStopLoss(t)
    PROVE  TypeOK'
  BY BeginUpdateTyped DEF UpdateStopLoss, TypeOK, market, book, memory, Goto, Labels

\* AdoptPosition keeps the types.
LEMMA AdoptPositionTyped ==
    ASSUME TypeOK, NEW t \in Threads, AdoptPosition(t)
    PROVE  TypeOK'
<1>1. CASE exch # "none" /\ nextPos <= MaxPositions
  <2>1. nextPos \in PositionIds /\ nextPos + 1 \in 1..(MaxPositions + 1)
    BY <1>1, StopLossAssumption DEF TypeOK, PositionIds
  <2>2. ASSUME NEW entry \in Prices
        PROVE  NewPosition(exch, entry, loc[t].stop, Filled, 0, FALSE) \in Position
    <3>1. exch \in Sides /\ loc[t].stop \in Int /\ entry \in Int
      BY <1>1, StopLossAssumption DEF TypeOK, Locals
    <3> QED BY <3>1, NewPositionTyped DEF Filled
  <2>3. [loc[t] EXCEPT !.o = nextPos, !.ret = "relock"] \in Locals
    BY <2>1, LocalsTyped DEF TypeOK
  <2>4. CASE Finish(t) /\ UNCHANGED <<pos, nextPos>>
    BY <2>4, FinishTyped DEF AdoptPosition, TypeOK, market, book
  <2>5. CASE ~(Finish(t) /\ UNCHANGED <<pos, nextPos>>)
    <3>1. PICK entry \in Prices :
            pos' = [pos EXCEPT ![nextPos] = NewPosition(exch, entry, loc[t].stop, Filled, 0, FALSE)]
      BY <2>5 DEF AdoptPosition
    <3>2. pos' \in [PositionIds -> Position]
      BY <3>1, <2>1, <2>2 DEF TypeOK
    <3> QED BY <3>2, <2>1, <2>3, <2>5 DEF AdoptPosition, TypeOK, market, book, Goto, Labels
  <2> QED BY <2>4, <2>5
<1>2. CASE ~(exch # "none" /\ nextPos <= MaxPositions)
  BY <1>2, FinishTyped DEF AdoptPosition, TypeOK, market, book
<1> QED BY <1>1, <1>2

\* Relock keeps the types.
LEMMA RelockTyped ==
    ASSUME TypeOK, NEW t \in Threads, Relock(t)
    PROVE  TypeOK'
  BY BeginUpdateTyped DEF Relock, TypeOK, market, book, memory, Goto, Labels

\* ValidateStopLossPrice keeps the types.
LEMMA ValidateStopLossPriceTyped ==
    ASSUME TypeOK, NEW t \in Threads, ValidateStopLossPrice(t)
    PROVE  TypeOK'
  BY FinishTyped DEF ValidateStopLossPrice, TypeOK, market, book, memory, Goto, Labels

\* CancelOldOrder keeps the types.
LEMMA CancelOldOrderTyped ==
    ASSUME TypeOK, AtHand, NEW t \in Threads, CancelOldOrder(t)
    PROVE  TypeOK'
<1> DEFINE o == loc[t].o
           k == pos[o].order
<1>1. pc[t] \in HasObject
  BY DEF CancelOldOrder, HasObject, Locked
<1>2. o \in PositionIds /\ pos[o] \in Position /\ k \in OrderIds \cup {0}
  BY <1>1, ObjectTyped DEF Position
<1>3. orders' \in [OrderIds -> Order]
  BY <1>2, CancelTyped DEF CancelOldOrder, TypeOK
<1>4. [pos[o] EXCEPT !.order = 0] \in Position
  BY <1>2, PositionsTyped
<1> QED BY <1>2, <1>3, <1>4, FinishTyped DEF CancelOldOrder, TypeOK, market, Goto, Labels

\* CheckNewStop keeps the types.
LEMMA CheckNewStopTyped ==
    ASSUME TypeOK, NEW t \in Threads, CheckNewStop(t)
    PROVE  TypeOK'
  BY FinishTyped DEF CheckNewStop, TypeOK, market, book, memory, Goto, Labels

\* PlaceNewOrder keeps the types.
LEMMA PlaceNewOrderTyped ==
    ASSUME TypeOK, AtHand, NEW t \in Threads, PlaceNewOrder(t)
    PROVE  TypeOK'
<1> DEFINE o == loc[t].o
           p == pos[o]
           stop == loc[t].stop
<1>1. pc[t] \in HasObject
  BY DEF PlaceNewOrder, HasObject, Locked
<1>2. o \in PositionIds /\ p \in Position /\ stop \in Int
  BY <1>1, ObjectTyped
<1>3. CASE Accepts(p, stop) /\ AcceptOrder(p, stop)
  <2>1. orders' \in [OrderIds -> Order] /\ nextOrder' \in 1..(MaxOrders + 1) /\ nextOrder \in OrderIds
    BY <1>2, <1>3, AcceptOrderTyped
  <2>2. [p EXCEPT !.order = nextOrder, !.stop = stop] \in Position
    BY <1>2, <2>1, PositionsTyped
  <2>3. pos' \in [PositionIds -> Position]
    BY <1>2, <2>2 DEF PlaceNewOrder, TypeOK
  <2> QED BY <2>1, <2>3, FinishTyped DEF PlaceNewOrder, TypeOK, market, Goto, Labels
<1>4. CASE Finish(t) /\ UNCHANGED <<book, pos>>
  BY <1>4, FinishTyped DEF PlaceNewOrder, TypeOK, market, book
<1> QED BY <1>3, <1>4 DEF PlaceNewOrder

\* ReadForStop keeps the types.
LEMMA ReadForStopTyped ==
    ASSUME TypeOK, AtHand, NEW t \in Threads, ReadForStop(t)
    PROVE  TypeOK'
<1> DEFINE o == loc[t].o
           row == [db[o] EXCEPT !.stop = loc[t].stop, !.order = pos[o].order]
<1>1. pc[t] \in HasObject
  BY DEF ReadForStop, HasObject, Locked
<1>2. pos[o].order \in OrderIds \cup {0} /\ db[o] \in Row /\ loc[t].stop \in Int
  BY <1>1, ObjectTyped DEF Position
<1>3. [loc[t] EXCEPT !.row = row] \in Locals
  BY <1>2, RowsTyped, LocalsTyped DEF TypeOK
<1> QED BY <1>3, FinishTyped DEF ReadForStop, TypeOK, market, book, memory, Goto, Labels

\* WriteStop keeps the types.
LEMMA WriteStopTyped ==
    ASSUME TypeOK, AtHand, NEW t \in Threads, WriteStop(t)
    PROVE  TypeOK'
<1>1. pc[t] \in HasObject
  BY DEF WriteStop, HasObject, Locked
<1> QED BY <1>1, WriteRowTyped, FinishTyped DEF WriteStop, TypeOK, market, book, memory

\* ClosePosition keeps the types.
LEMMA ClosePositionTyped ==
    ASSUME TypeOK, NEW t \in Threads, ClosePosition(t)
    PROVE  TypeOK'
<1>1. [loc[t] EXCEPT !.o = managed] \in Locals BY LocalsTyped DEF TypeOK
<1> QED BY <1>1, ReturnTyped DEF ClosePosition, TypeOK, market, book, memory, Goto, Labels

\* CancelOnClose keeps the types.
LEMMA CancelOnCloseTyped ==
    ASSUME TypeOK, AtHand, NEW t \in Threads, CancelOnClose(t)
    PROVE  TypeOK'
<1> DEFINE o == loc[t].o
           k == pos[o].order
<1>1. pc[t] \in HasObject
  BY DEF CancelOnClose, HasObject
<1>2. o \in PositionIds /\ pos[o] \in Position /\ k \in OrderIds \cup {0}
  BY <1>1, ObjectTyped DEF Position
<1>3. orders' \in [OrderIds -> Order]
  BY <1>2, CancelTyped DEF CancelOnClose, TypeOK
<1>4. [pos[o] EXCEPT !.order = 0] \in Position
  BY <1>2, PositionsTyped
<1> QED BY <1>2, <1>3, <1>4 DEF CancelOnClose, TypeOK, market, Goto, Labels

\* RemoveFromMemory keeps the types.
LEMMA RemoveFromMemoryTyped ==
    ASSUME TypeOK, NEW t \in Threads, RemoveFromMemory(t)
    PROVE  TypeOK'
  BY DEF RemoveFromMemory, TypeOK, market, book, Goto, Labels

\* ReadForClose keeps the types.
LEMMA ReadForCloseTyped ==
    ASSUME TypeOK, AtHand, NEW t \in Threads, ReadForClose(t)
    PROVE  TypeOK'
<1> DEFINE row == [db[loc[t].o] EXCEPT !.closed = TRUE]
<1>1. pc[t] \in HasObject
  BY DEF ReadForClose, HasObject
<1>2. [loc[t] EXCEPT !.row = row] \in Locals
  BY <1>1, ObjectTyped, RowsTyped, LocalsTyped DEF TypeOK
<1> QED BY <1>2, ReturnTyped DEF ReadForClose, TypeOK, market, book, memory, Goto, Labels

\* WriteClosed keeps the types.
LEMMA WriteClosedTyped ==
    ASSUME TypeOK, AtHand, NEW t \in Threads, WriteClosed(t)
    PROVE  TypeOK'
<1>1. pc[t] \in HasObject
  BY DEF WriteClosed, HasObject
<1> QED BY <1>1, WriteRowTyped, ReturnTyped DEF WriteClosed, TypeOK, market, book, memory

\* ReadKline keeps the types.
LEMMA ReadKlineTyped ==
    ASSUME TypeOK, NEW high \in Prices, NEW low \in Prices, ReadKline(high, low)
    PROVE  TypeOK'
<1> DEFINE p == pos[managed]
           x == NextExtreme(p.side, p.entry, p.high, high, low)
<1>1. p \in Position
  BY DEF TypeOK, ReadKline
<1>2. p.side \in Sides /\ p.entry \in Int /\ p.high \in Int
  BY <1>1 DEF Position
<1>3. x \in Int
  <2>1. high \in Int /\ low \in Int
    BY StopLossAssumption
  <2> HIDE DEF p
  <2> QED BY <1>2, <2>1, PricesTyped
<1>4. [loc["trail"] EXCEPT !.high = x] \in Locals /\ [loc["trail"] EXCEPT !.ret = "check"] \in Locals
  BY <1>3, LocalsTyped DEF TypeOK, Threads
<1> QED BY <1>4 DEF ReadKline, TypeOK, market, book, memory, Goto, Labels

\* Going on to ReconcilePosition leaves well-typed control.
LEMMA ToReconcileTyped ==
    ASSUME TypeOK, ToReconcile
    PROVE  /\ mu' \in Threads \cup {"free"}
           /\ pc' \in [Threads -> Labels]
           /\ loc' \in [Threads -> Locals]
<1>1. [NoLocals EXCEPT !.ret = "check"] \in Locals
  BY LocalsTyped, NoLocalsTyped
<1> QED BY <1>1 DEF ToReconcile, TypeOK, Goto, Labels

\* SetHighest keeps the types.
LEMMA SetHighestTyped ==
    ASSUME TypeOK, SetHighest
    PROVE  TypeOK'
<1>1. CASE managed = 0
  BY <1>1, ToReconcileTyped DEF SetHighest, TypeOK, market, book
<1>2. CASE managed # 0
  <2>1. managed \in PositionIds /\ pos[managed] \in Position /\ loc["trail"] \in Locals /\ loc["trail"].high \in Int
    BY <1>2 DEF TypeOK, Locals, Threads
  <2>2. [pos[managed] EXCEPT !.high = loc["trail"].high] \in Position
    BY <2>1, PositionsTyped
  <2>3. [loc["trail"] EXCEPT !.o = managed] \in Locals
    BY <2>1, LocalsTyped
  <2> QED BY <1>2, <2>2, <2>3 DEF SetHighest, TypeOK, market, book, Goto, Labels
<1> QED BY <1>1, <1>2

\* ReadForHighest keeps the types.
LEMMA ReadForHighestTyped ==
    ASSUME TypeOK, AtHand, ReadForHighest
    PROVE  TypeOK'
<1>1. "trail" \in Threads /\ pc["trail"] \in HasObject
  BY DEF ReadForHighest, HasObject, Threads
<1>2. [loc["trail"] EXCEPT !.row = db[loc["trail"].o]] \in Locals
  BY <1>1, ObjectTyped, LocalsTyped DEF TypeOK
<1> QED BY <1>2, ToReconcileTyped DEF ReadForHighest, TypeOK, market, book, memory, Goto, Labels

\* WriteHighest keeps the types.
LEMMA WriteHighestTyped ==
    ASSUME TypeOK, AtHand, WriteHighest
    PROVE  TypeOK'
<1>1. "trail" \in Threads /\ pc["trail"] \in HasObject
  BY DEF WriteHighest, HasObject, Threads
<1>2. db' \in [PositionIds -> Row]
  BY <1>1, ObjectTyped DEF WriteHighest, TypeOK
<1> QED BY <1>1, <1>2, ToReconcileTyped, FinishTyped DEF WriteHighest, TypeOK, market, book, memory

\* ReconcilePosition keeps the types.
LEMMA ReconcilePositionTyped ==
    ASSUME TypeOK, ReconcilePosition
    PROVE  TypeOK'
<1>1. exch # "none" => [loc["trail"] EXCEPT !.seen = exch] \in Locals
  BY LocalsTyped DEF TypeOK, Threads
<1>2. "trail" \in Threads
  BY DEF Threads
<1> QED BY <1>1, <1>2, ReturnTyped DEF ReconcilePosition, TypeOK, market, book, memory, Goto, Labels

\* FixPosition keeps the types.
LEMMA FixPositionTyped ==
    ASSUME TypeOK, AtHand, FixPosition
    PROVE  TypeOK'
<1> DEFINE p == pos[managed]
           n == IF p.qty # Filled THEN Filled ELSE p.size
<1>1. loc["trail"].seen \in Sides /\ "trail" \in Threads
  BY DEF FixPosition, TypeOK, AtHand, Locals, Threads
<1>2. ASSUME managed # 0
      PROVE  [p EXCEPT !.side = loc["trail"].seen, !.size = n, !.qty = Filled] \in Position
  <2>1. p \in Position /\ Filled \in Nat
    BY <1>2 DEF TypeOK, Filled
  <2>2. n \in Nat
    BY <2>1 DEF Position
  <2> QED BY <1>1, <2>1, <2>2, PositionsTyped
<1>3. pos' \in [PositionIds -> Position]
  BY <1>2 DEF FixPosition, TypeOK
<1> QED BY <1>1, <1>3, ReturnTyped DEF FixPosition, TypeOK, market, book

\* CheckStopLossOrderStatus keeps the types.
LEMMA CheckStopLossOrderStatusTyped ==
    ASSUME TypeOK, CheckStopLossOrderStatus
    PROVE  TypeOK'
<1>1. [loc["trail"] EXCEPT !.ret = "auto"] \in Locals
  BY LocalsTyped DEF TypeOK, Threads
<1> QED BY <1>1 DEF CheckStopLossOrderStatus, TypeOK, market, book, memory, Goto, Labels

\* AutoUpdateTrailingStop keeps the types.
LEMMA AutoUpdateTrailingStopTyped ==
    ASSUME TypeOK, NEW distance \in StopDistances, AutoUpdateTrailingStop(distance)
    PROVE  TypeOK'
<1> DEFINE p == pos[managed]
           new == CalculateTrailingStop(p.side, p.high, distance)
<1>1. ASSUME managed # 0 PROVE [NoLocals EXCEPT !.stop = new] \in Locals
  <2>1. p.side \in Sides /\ p.high \in Int /\ distance \in Int
    BY <1>1, StopLossAssumption DEF TypeOK, Position
  <2>2. new \in Int
    BY <2>1, PricesTyped
  <2> QED BY <2>2, LocalsTyped, NoLocalsTyped
<1>2. "trail" \in Threads
  BY DEF Threads
<1> QED BY <1>1, <1>2, FinishTyped DEF AutoUpdateTrailingStop, TypeOK, market, book, memory, Goto, Labels

-----------------------------------------------------------------------------
(* All of them *)

\* Every step from a well-typed state in which the goroutines have real
\* Positions at hand ends in a well-typed one.
LEMMA TypeStep == TypeOK /\ AtHand /\ [Next]_vars => TypeOK'
<1> SUFFICES ASSUME TypeOK, AtHand, [Next]_vars PROVE TypeOK'
  OBVIOUS
<1>1. CASE MainDecides
  BY <1>1, HoldDecisionTyped, OpenDecisionTyped, CloseDecisionTyped, UnreportedTradeTyped
     DEF MainDecides
<1>2. CASE MainRecords
  BY <1>2, BuildRecordTyped, SaveRecordTyped DEF MainRecords
<1>3. ASSUME NEW t \in Threads, SharedCall(t) PROVE TypeOK'
  BY <1>3, RegisterPositionTyped, CheckInitialStopTyped, PlaceInitialStopLossTyped,
     ReadForOrderIDTyped, WriteOrderIDTyped, UpdateStopLossTyped, AdoptPositionTyped,
     RelockTyped, ValidateStopLossPriceTyped, CancelOldOrderTyped, CheckNewStopTyped,
     PlaceNewOrderTyped, ReadForStopTyped, WriteStopTyped, ClosePositionTyped,
     CancelOnCloseTyped, RemoveFromMemoryTyped, ReadForCloseTyped, WriteClosedTyped
     DEF SharedCall
<1>4. CASE TrailRound
  BY <1>4, ReadKlineTyped, SetHighestTyped, ReadForHighestTyped, WriteHighestTyped,
     ReconcilePositionTyped, FixPositionTyped, CheckStopLossOrderStatusTyped,
     AutoUpdateTrailingStopTyped
     DEF TrailRound
<1>5. CASE Exchange
  BY <1>5, MovePriceTyped, TriggerOrderTyped DEF Exchange
<1>6. CASE UNCHANGED vars
  BY <1>6 DEF TypeOK, vars
<1> QED BY <1>1, <1>2, <1>3, <1>4, <1>5, <1>6 DEF Next, Process
=============================================================================
