----------------------- MODULE StopLossManager_proofs -----------------------
(***************************************************************************)
(* The safety of StopLossManager for every instance.  ManagerInv is inductive:   *)
(* most steps are "quiet", they touch only the local variables of one      *)
(* goroutine and what no other goroutine relies on (QuietStep); the others *)
(* make a Position (NewObject), change the map under sm.mu (MapChanges),   *)
(* or move the stop (PlaceNewOrderKeeps).  The same split of Next carries  *)
(* the ratchet and the refinement of StopGuard.                            *)
(***************************************************************************)
EXTENDS StopLossTyping

-----------------------------------------------------------------------------
(* The price checks *)

\* The two checks of AutoUpdateTrailingStop and those of UpdateStopLoss, which
\* are written differently, agree for every price and threshold: what the one
\* sends the other refuses only when the stop has moved in between.
THEOREM ChecksAgree ==
    ASSUME NEW side \in Sides, NEW old \in Nat \ {0}, NEW new \in Int
    PROVE  Improves(side, old, new) <=> IsValidUpdate(side, old, new) /\ ShouldUpdate(old, new)
<1>1. UpdateThreshold * old > 0
  BY PricingAssumption
<1> DEFINE least == UpdateThreshold * old
<1>2. least \in Nat
  BY PricingAssumption
<1>3. ShouldUpdate(old, new) <=> AbsDiff(new, old) * 10000 >= least
  BY DEF ShouldUpdate
<1>4. least > 0
  BY <1>1
<1> HIDE DEF least
<1>5. ShouldUpdate(old, new) => new # old
  BY <1>2, <1>3, <1>4 DEF AbsDiff
<1>6. new # old => (~Worsens(side, old, new) <=> IsValidUpdate(side, old, new))
  BY DEF Worsens, IsValidUpdate, Sides
<1> QED BY <1>5, <1>6, Zenon DEF Improves

\* A stop that ValidateStopDistance lets pass does not trigger at the entry
\* price, for any table of distances; without an entry price it lets none pass.
THEOREM ValidatedIsSafe ==
    ASSUME NEW side \in Sides, NEW entry \in Nat, NEW stop \in Int,
           ValidateStopDistance(side, entry, stop)
    PROVE  SafeSide(side, stop, entry)
<1> DEFINE least == MinStopDistance * entry
           away == IF side = "long" THEN entry - stop ELSE stop - entry
<1>0. entry \in Nat \ {0}
  BY DEF ValidateStopDistance
<1>1. least \in Nat /\ least > 0
  BY <1>0, PricingAssumption
<1>2. away * 10000 >= least
  BY DEF ValidateStopDistance
<1>3. away \in Int
  OBVIOUS
<1> HIDE DEF least
<1>4. away > 0
  <2> HIDE DEF away
  <2> QED BY <1>1, <1>2, <1>3
<1> QED BY <1>4 DEF SafeSide, Sides

-----------------------------------------------------------------------------
(* Quiet steps *)

\* A step of t that leaves the map, every side and every stop alone, changes no
\* other goroutine, and closes at most the row t was about to close.
Quiet(t) ==
    /\ managed' = managed /\ nextPos' = nextPos
    /\ \A o \in PositionIds :
         /\ pos'[o].side = pos[o].side /\ pos'[o].stop = pos[o].stop
         /\ db'[o].closed =>
              db[o].closed \/ (pc[t] \in WritesRow /\ o = loc[t].o /\ loc[t].row.closed)
    /\ \A u \in Threads \ {t} : pc'[u] = pc[u] /\ loc'[u] = loc[u] /\ (mu' = u <=> mu = u)
    /\ pc[t] # "register" /\ pc'[t] # "register"
    /\ loc'[t].o \in {0, loc[t].o, managed}

\* After it, t itself is where the invariant wants it to be.
Own(t) ==
    /\ pc'[t] \in HasObject => loc'[t].o # 0
    /\ pc'[t] = "fix" => loc'[t].seen # "none"
    /\ mu' = t <=> pc'[t] \in Locked
    /\ pc'[t] \in Locked => managed # 0 /\ loc'[t].o = managed
    /\ pc'[t] \in Locked \ {"updSync", "updWrite"} =>
         Improves(pos[managed].side, pos[managed].stop, loc'[t].stop)
    /\ pc'[t] \in {"closeSync", "closeWrite"} => Retired(loc'[t].o)
    /\ pc'[t] \in WritesRow /\ loc'[t].row.closed => Retired(loc'[t].o)

\* A quiet step leaves what is retired retired.
LEMMA RetiredStays ==
    ASSUME ManagerInv, NEW t \in Threads, Quiet(t), NEW o, Retired(o)
    PROVE  Retired(o)'
BY DEF Quiet, Retired, Pending

\* A quiet step that leaves its own goroutine in order keeps the invariant.
LEMMA QuietStep ==
    ASSUME ManagerInv, TypeOK', NEW t \in Threads, Quiet(t), Own(t)
    PROVE  ManagerInv'
<1>1. AtHand' /\ LockHeld'
  BY DEF ManagerInv, AtHand, LockHeld, Quiet, Own
<1>2. Created'
  <2>1. managed < nextPos /\ 0 < nextPos /\ \A u \in Threads : loc[u].o < nextPos
    BY StopLossAssumption DEF ManagerInv, TypeOK, Created
  <2>2. ASSUME NEW u \in Threads PROVE loc'[u].o < nextPos
    BY <2>1 DEF Quiet
  <2> QED BY <2>1, <2>2 DEF Created, Quiet
<1>3. PendingAlone' 
  BY DEF ManagerInv, PendingAlone, Quiet, TypeOK, HasObject, AtHand
<1>4. UpdatedIsManaged'
  BY <1>1 DEF ManagerInv, UpdatedIsManaged, Quiet, Own, LockHeld
<1>5. StopChecked'
  <2> SUFFICES ASSUME NEW u \in Threads, pc'[u] \in Locked \ {"updSync", "updWrite"}
               PROVE  Improves(pos'[loc'[u].o].side, pos'[loc'[u].o].stop, loc'[u].stop)
    BY DEF StopChecked
  <2>1. loc'[u].o = managed /\ managed \in PositionIds
    BY <1>4 DEF UpdatedIsManaged, Quiet, ManagerInv, TypeOK
  <2>2. CASE u = t
    BY <2>1, <2>2 DEF Quiet, Own
  <2>3. CASE u # t
    BY <2>1, <2>3 DEF Quiet, ManagerInv, StopChecked
  <2> QED BY <2>2, <2>3
<1>6. ClosedRetired'
  <2>1. \A o \in PositionIds : db'[o].closed => Retired(o)'
    BY RetiredStays DEF ManagerInv, ClosedRetired, Quiet
  <2>2. ASSUME NEW u \in Threads, u # t
        PROVE  /\ pc'[u] \in {"closeSync", "closeWrite"} => Retired(loc[u].o)'
               /\ pc'[u] \in WritesRow /\ loc'[u].row.closed => Retired(loc[u].o)'
    <3>1. pc'[u] = pc[u] /\ loc'[u] = loc[u]
      BY <2>2 DEF Quiet
    <3>2. \A o : Retired(o) => Retired(o)'
      BY RetiredStays
    <3> QED BY <3>1, <3>2 DEF ManagerInv, ClosedRetired
  <2> QED BY <2>1, <2>2, RetiredStays DEF ClosedRetired, Own
<1> QED BY <1>1, <1>2, <1>3, <1>4, <1>5, <1>6 DEF ManagerInv

\* Where a goroutine is after a return.
Rest == {"idle", "relock", "check", "auto"}

\* Returning clears the locals, gives up sm.mu and touches no other goroutine.
LEMMA FinishEffect ==
    ASSUME ManagerInv, NEW t \in Threads, Finish(t) \/ (Return(t) /\ pc[t] \notin Locked)
    PROVE  /\ pc'[t] \in Rest /\ loc'[t] = NoLocals /\ mu' # t
           /\ \A u \in Threads \ {t} : pc'[u] = pc[u] /\ loc'[u] = loc[u] /\ (mu' = u <=> mu = u)
<1>1. CASE Finish(t)
  BY <1>1 DEF ManagerInv, TypeOK, Finish, Goto, Rest, Threads
<1>2. CASE loc[t].ret # "idle" /\ Return(t) /\ pc[t] \notin Locked
  BY <1>2 DEF ManagerInv, TypeOK, LockHeld, Return, Goto, Rest, Locals
<1> QED BY <1>1, <1>2 DEF Return

\* The part of Quiet about shared state.
Frame(t) ==
    /\ managed' = managed /\ nextPos' = nextPos
    /\ \A o \in PositionIds :
         /\ pos'[o].side = pos[o].side /\ pos'[o].stop = pos[o].stop
         /\ db'[o].closed =>
              db[o].closed \/ (pc[t] \in WritesRow /\ o = loc[t].o /\ loc[t].row.closed)

\* A step that returns and changes no map, stop, side or closed mark is harmless.
LEMMA FinishQuiet ==
    ASSUME ManagerInv, NEW t \in Threads, pc[t] # "register", Frame(t),
           Finish(t) \/ (Return(t) /\ pc[t] \notin Locked)
    PROVE  Quiet(t) /\ Own(t)
<1>1. pc'[t] \in Rest /\ pc'[t] \notin HasObject \cup Locked \cup WritesRow
      /\ pc'[t] \notin {"register", "fix", "closeSync", "closeWrite"}
  BY FinishEffect DEF Rest, HasObject, Locked, WritesRow
<1>2. Own(t)
  BY <1>1, FinishEffect DEF Own
<1> QED BY <1>1, <1>2, FinishEffect DEF Quiet, Frame, NoLocals

\* So far as other goroutines are concerned, going on with new locals is quiet.
LEMMA GotoQuiet ==
    ASSUME ManagerInv, NEW t \in Threads, pc[t] # "register", Frame(t), NEW label, NEW x,
           pc' = [pc EXCEPT ![t] = label], loc' = [loc EXCEPT ![t] = x],
           label # "register", x.o \in {0, loc[t].o, managed},
           mu' = mu \/ (mu = "free" /\ mu' = t)
    PROVE  Quiet(t) /\ pc'[t] = label /\ loc'[t] = x
  BY DEF Quiet, Frame, ManagerInv, TypeOK, Threads

\* The same with the locals unchanged.
LEMMA GotoOnlyQuiet ==
    ASSUME ManagerInv, NEW t \in Threads, pc[t] # "register", Frame(t), NEW label,
           Goto(t, label), UNCHANGED <<mu, loc>>, label # "register"
    PROVE  Quiet(t) /\ pc'[t] = label /\ loc'[t] = loc[t] /\ mu' = mu
  BY DEF Quiet, Frame, ManagerInv, TypeOK, Threads, Goto


\* Noting an order ID changes neither side nor stop of any Position.
LEMMA OrderFrame ==
    ASSUME ManagerInv, NEW o \in PositionIds, NEW k, pos' = [pos EXCEPT ![o].order = k]
    PROVE  \A q \in PositionIds : pos'[q].side = pos[q].side /\ pos'[q].stop = pos[q].stop
  BY DEF ManagerInv, TypeOK, Position

\* A goroutine past its lookup has a Position at hand.
LEMMA ObjectAtHand ==
    ASSUME ManagerInv, NEW t \in Threads, pc[t] \in HasObject
    PROVE  loc[t].o \in PositionIds /\ loc[t].o # 0
  BY DEF ManagerInv, TypeOK, AtHand, Locals

\* Writing a record can close no row but the one at hand.
LEMMA WriteFrame ==
    ASSUME ManagerInv, NEW t \in Threads, pc[t] \in WritesRow, WriteRow(t), UNCHANGED memory
    PROVE  Frame(t)
  BY ObjectAtHand DEF ManagerInv, TypeOK, WriteRow, Frame, memory, HasObject, Locked, WritesRow

\* A step of PlaceInitialStopLoss that returns is harmless.
LEMMA InitialQuiet ==
    ASSUME ManagerInv, NEW t \in Threads, pc[t] \in {"initPrice", "initPlace", "initSync", "initWrite"}, Frame(t), NEW ok \in BOOLEAN, InitialReturns(t, ok)
    PROVE  Quiet(t) /\ Own(t)
<1>1. CASE Goto(t, "relock") /\ UNCHANGED <<mu, loc>>
  <2>1. Quiet(t) /\ pc'[t] = "relock" /\ mu' = mu
    BY <1>1, GotoOnlyQuiet
  <2>2. mu # t
    BY DEF ManagerInv, LockHeld, Locked
  <2> QED BY <2>1, <2>2 DEF Own, HasObject, Locked, WritesRow
<1>2. CASE Finish(t)
  BY <1>2, FinishQuiet
<1> QED BY <1>1, <1>2 DEF InitialReturns

\* CheckInitialStop is a quiet step that leaves its goroutine in order.
LEMMA CheckInitialStopQuiet ==
    ASSUME ManagerInv, NEW t \in Threads, CheckInitialStop(t)
    PROVE  Quiet(t) /\ Own(t)
<1>1. Frame(t)
  BY DEF CheckInitialStop, Frame, memory
<1>2. CASE Goto(t, "initPlace") /\ UNCHANGED <<mu, loc>>
  <2>1. Quiet(t) /\ pc'[t] = "initPlace" /\ mu' = mu /\ loc'[t] = loc[t]
    BY <1>1, <1>2, GotoOnlyQuiet DEF CheckInitialStop
  <2>2. mu # t /\ loc[t].o # 0
    BY ObjectAtHand DEF ManagerInv, LockHeld, Locked, CheckInitialStop, HasObject
  <2> QED BY <2>1, <2>2 DEF Own, HasObject, Locked, WritesRow
<1>3. CASE InitialReturns(t, FALSE)
  BY <1>1, <1>3, InitialQuiet DEF CheckInitialStop
<1> QED BY <1>2, <1>3 DEF CheckInitialStop

\* PlaceInitialStopLoss is a quiet step that leaves its goroutine in order.
LEMMA PlaceInitialStopLossQuiet ==
    ASSUME ManagerInv, NEW t \in Threads, PlaceInitialStopLoss(t)
    PROVE  Quiet(t) /\ Own(t)
<1>1. mu # t /\ loc[t].o # 0 /\ loc[t].o \in PositionIds
  BY ObjectAtHand DEF ManagerInv, LockHeld, Locked, PlaceInitialStopLoss, HasObject
<1>2. Frame(t)
  BY <1>1, OrderFrame DEF PlaceInitialStopLoss, Frame
<1>3. CASE Goto(t, "initSync") /\ UNCHANGED <<mu, loc>>
  <2>1. Quiet(t) /\ pc'[t] = "initSync" /\ mu' = mu /\ loc'[t] = loc[t]
    BY <1>2, <1>3, GotoOnlyQuiet DEF PlaceInitialStopLoss
  <2> QED BY <2>1, <1>1 DEF Own, HasObject, Locked, WritesRow
<1>4. CASE InitialReturns(t, FALSE)
  BY <1>2, <1>4, InitialQuiet DEF PlaceInitialStopLoss
<1> QED BY <1>3, <1>4 DEF PlaceInitialStopLoss

\* ReadForOrderID is a quiet step that leaves its goroutine in order.
LEMMA ReadForOrderIDQuiet ==
    ASSUME ManagerInv, NEW t \in Threads, ReadForOrderID(t)
    PROVE  Quiet(t) /\ Own(t)
<1> DEFINE o == loc[t].o
           row == [db[o] EXCEPT !.order = pos[o].order]
           x == [loc[t] EXCEPT !.row = row]
<1>1. mu # t /\ o # 0 /\ o \in PositionIds
  BY ObjectAtHand DEF ManagerInv, LockHeld, Locked, ReadForOrderID, HasObject
<1>2. Frame(t)
  BY DEF ReadForOrderID, Frame, memory
<1>3. CASE db[o].saved
  <2>1. x.o = o /\ x.row.closed = db[o].closed
    BY <1>1 DEF ManagerInv, TypeOK, Locals, Row
  <2>2. loc' = [loc EXCEPT ![t] = x]
    BY <1>3 DEF ReadForOrderID
  <2>3. pc' = [pc EXCEPT ![t] = "initWrite"] /\ mu' = mu /\ pc[t] # "register"
    BY <1>3 DEF ReadForOrderID, Goto
  <2> HIDE DEF x
  <2>5. Quiet(t) /\ pc'[t] = "initWrite" /\ loc'[t] = x /\ mu' = mu
    BY <1>2, <2>1, <2>2, <2>3, GotoQuiet
  <2>4. x.row.closed => Retired(x.o)
    BY <1>1, <2>1 DEF ManagerInv, ClosedRetired
  <2> QED BY <1>1, <2>1, <2>5, <2>4 DEF Own, HasObject, Locked
<1>4. CASE ~db[o].saved
  BY <1>2, <1>4, InitialQuiet DEF ReadForOrderID
<1> QED BY <1>3, <1>4

\* WriteOrderID is a quiet step that leaves its goroutine in order.
LEMMA WriteOrderIDQuiet ==
    ASSUME ManagerInv, NEW t \in Threads, WriteOrderID(t)
    PROVE  Quiet(t) /\ Own(t)
<1>1. Frame(t)
  BY WriteFrame DEF WriteOrderID, WritesRow
<1> QED BY <1>1, InitialQuiet DEF WriteOrderID

\* The critical section that begins an update is harmless.
LEMMA BeginQuiet ==
    ASSUME ManagerInv, NEW t \in Threads, pc[t] \in {"update", "relock"}, mu = "free", managed # 0, Frame(t), BeginUpdate(t)
    PROVE  Quiet(t) /\ Own(t)
<1> DEFINE x == [loc[t] EXCEPT !.o = managed]
<1>1. x.o = managed /\ x.stop = loc[t].stop
  BY DEF ManagerInv, TypeOK, Locals
<1>2. CASE Improves(pos[managed].side, pos[managed].stop, loc[t].stop) /\ mu' = t
           /\ loc' = [loc EXCEPT ![t] = x] /\ Goto(t, "validate")
  <2>1. Quiet(t) /\ pc'[t] = "validate" /\ loc'[t] = x
    BY <1>1, <1>2, GotoQuiet DEF Goto
  <2> QED BY <1>1, <1>2, <2>1 DEF Own, HasObject, Locked, WritesRow
<1>3. CASE Finish(t)
  BY <1>3, FinishQuiet
<1> QED BY <1>2, <1>3 DEF BeginUpdate

\* UpdateStopLoss is a quiet step that leaves its goroutine in order.
LEMMA UpdateStopLossQuiet ==
    ASSUME ManagerInv, NEW t \in Threads, UpdateStopLoss(t)
    PROVE  Quiet(t) /\ Own(t)
<1>1. Frame(t)
  BY DEF UpdateStopLoss, Frame, memory
<1>2. CASE managed # 0
  BY <1>1, <1>2, BeginQuiet DEF UpdateStopLoss
<1>3. CASE managed = 0
  <2>1. Quiet(t) /\ pc'[t] = "adopt" /\ mu' = mu
    BY <1>1, <1>3, GotoOnlyQuiet DEF UpdateStopLoss
  <2>2. mu = "free" /\ t # "free"
    BY DEF UpdateStopLoss, Threads
  <2> QED BY <2>1, <2>2 DEF Own, HasObject, Locked, WritesRow
<1> QED BY <1>2, <1>3

\* Relock is a quiet step that leaves its goroutine in order.
LEMMA RelockQuiet ==
    ASSUME ManagerInv, NEW t \in Threads, Relock(t)
    PROVE  Quiet(t) /\ Own(t)
<1>1. Frame(t) /\ mu = "free" /\ t # "free"
  BY DEF Relock, Frame, memory, Threads
<1>2. CASE managed # 0
  BY <1>1, <1>2, BeginQuiet DEF Relock
<1>3. CASE managed = 0
  <2>1. Quiet(t) /\ pc'[t] = "dead" /\ mu' = mu
    BY <1>1, <1>3, GotoOnlyQuiet DEF Relock
  <2> QED BY <1>1, <2>1 DEF Own, HasObject, Locked, WritesRow
<1> QED BY <1>2, <1>3

\* ValidateStopLossPrice is a quiet step that leaves its goroutine in order.
LEMMA ValidateStopLossPriceQuiet ==
    ASSUME ManagerInv, NEW t \in Threads, ValidateStopLossPrice(t)
    PROVE  Quiet(t) /\ Own(t)
<1>1. Frame(t)
  BY DEF ValidateStopLossPrice, Frame, memory
<1>2. mu = t /\ loc[t].o # 0 /\ managed # 0 /\ managed = loc[t].o
      /\ Improves(pos[managed].side, pos[managed].stop, loc[t].stop)
  BY ObjectAtHand DEF ManagerInv, UpdatedIsManaged, StopChecked, Locked, HasObject, ValidateStopLossPrice
<1>3. CASE Goto(t, "cancel") /\ UNCHANGED <<mu, loc>>
  <2>1. Quiet(t) /\ pc'[t] = "cancel" /\ mu' = mu /\ loc'[t] = loc[t]
    BY <1>1, <1>3, GotoOnlyQuiet DEF ValidateStopLossPrice
  <2> QED BY <2>1, <1>2 DEF Own, HasObject, Locked, WritesRow
<1>4. CASE Finish(t)
  BY <1>1, <1>4, FinishQuiet DEF ValidateStopLossPrice
<1> QED BY <1>3, <1>4 DEF ValidateStopLossPrice

\* CheckNewStop is a quiet step that leaves its goroutine in order.
LEMMA CheckNewStopQuiet ==
    ASSUME ManagerInv, NEW t \in Threads, CheckNewStop(t)
    PROVE  Quiet(t) /\ Own(t)
<1>1. Frame(t)
  BY DEF CheckNewStop, Frame, memory
<1>2. mu = t /\ loc[t].o # 0 /\ managed # 0 /\ managed = loc[t].o
      /\ Improves(pos[managed].side, pos[managed].stop, loc[t].stop)
  BY ObjectAtHand DEF ManagerInv, UpdatedIsManaged, StopChecked, Locked, HasObject, CheckNewStop
<1>3. CASE Goto(t, "replace") /\ UNCHANGED <<mu, loc>>
  <2>1. Quiet(t) /\ pc'[t] = "replace" /\ mu' = mu /\ loc'[t] = loc[t]
    BY <1>1, <1>3, GotoOnlyQuiet DEF CheckNewStop
  <2> QED BY <2>1, <1>2 DEF Own, HasObject, Locked, WritesRow
<1>4. CASE Finish(t)
  BY <1>1, <1>4, FinishQuiet DEF CheckNewStop
<1> QED BY <1>3, <1>4 DEF CheckNewStop

\* CancelOldOrder is a quiet step that leaves its goroutine in order.
LEMMA CancelOldOrderQuiet ==
    ASSUME ManagerInv, NEW t \in Threads, CancelOldOrder(t)
    PROVE  Quiet(t) /\ Own(t)
<1>1. mu = t /\ loc[t].o \in PositionIds /\ managed # 0 /\ managed = loc[t].o
      /\ Improves(pos[managed].side, pos[managed].stop, loc[t].stop)
  BY ObjectAtHand DEF ManagerInv, UpdatedIsManaged, StopChecked, Locked, HasObject, CancelOldOrder
<1>2. Frame(t)
  BY <1>1, OrderFrame DEF CancelOldOrder, Frame
<1>3. CASE Goto(t, "rePrice") /\ UNCHANGED <<mu, loc>>
  <2>1. Quiet(t) /\ pc'[t] = "rePrice" /\ mu' = mu /\ loc'[t] = loc[t]
    BY <1>2, <1>3, GotoOnlyQuiet DEF CancelOldOrder
  <2> QED BY <2>1, <1>1 DEF Own, HasObject, Locked, WritesRow
<1>4. CASE Finish(t)
  BY <1>2, <1>4, FinishQuiet DEF CancelOldOrder
<1> QED BY <1>3, <1>4 DEF CancelOldOrder

\* ReadForStop is a quiet step that leaves its goroutine in order.
LEMMA ReadForStopQuiet ==
    ASSUME ManagerInv, NEW t \in Threads, ReadForStop(t)
    PROVE  Quiet(t) /\ Own(t)
<1> DEFINE o == loc[t].o
           row == [db[o] EXCEPT !.stop = loc[t].stop, !.order = pos[o].order]
           x == [loc[t] EXCEPT !.row = row]
<1>1. mu = t /\ o \in PositionIds /\ o # 0 /\ managed # 0 /\ managed = o
  BY ObjectAtHand DEF ManagerInv, UpdatedIsManaged, Locked, HasObject, ReadForStop
<1>2. Frame(t)
  BY DEF ReadForStop, Frame, memory
<1>3. CASE db[o].saved
  <2>1. x.o = o /\ x.row.closed = db[o].closed
    <3>1. row.closed = db[o].closed
      BY <1>1 DEF ManagerInv, TypeOK, Row
    <3>2. loc[t] \in Locals
      BY DEF ManagerInv, TypeOK
    <3> HIDE DEF row
    <3> QED BY <3>1, <3>2 DEF Locals
  <2>2. loc' = [loc EXCEPT ![t] = x]
    BY <1>3 DEF ReadForStop
  <2>3. pc' = [pc EXCEPT ![t] = "updWrite"] /\ mu' = mu /\ pc[t] # "register"
    BY <1>3 DEF ReadForStop, Goto
  <2>4. x.row.closed => Retired(x.o)
    BY <1>1, <2>1 DEF ManagerInv, ClosedRetired
  <2> HIDE DEF x
  <2>5. Quiet(t) /\ pc'[t] = "updWrite" /\ loc'[t] = x /\ mu' = mu
    BY <1>2, <2>1, <2>2, <2>3, GotoQuiet
  <2> QED BY <1>1, <2>1, <2>4, <2>5 DEF Own, HasObject, Locked
<1>4. CASE ~db[o].saved
  BY <1>2, <1>4, FinishQuiet DEF ReadForStop
<1> QED BY <1>3, <1>4

\* WriteStop is a quiet step that leaves its goroutine in order.
LEMMA WriteStopQuiet ==
    ASSUME ManagerInv, NEW t \in Threads, WriteStop(t)
    PROVE  Quiet(t) /\ Own(t)
<1>1. Frame(t)
  BY WriteFrame DEF WriteStop, WritesRow
<1> QED BY <1>1, FinishQuiet DEF WriteStop

\* ClosePosition is a quiet step that leaves its goroutine in order.
LEMMA ClosePositionQuiet ==
    ASSUME ManagerInv, NEW t \in Threads, ClosePosition(t)
    PROVE  Quiet(t) /\ Own(t)
<1> DEFINE x == [loc[t] EXCEPT !.o = managed]
<1>1. Frame(t) /\ mu = "free" /\ t # "free" /\ pc[t] \notin Locked
  BY DEF ClosePosition, Frame, memory, Threads, Locked
<1>2. CASE managed # 0
  <2>1. x.o = managed
    BY DEF ManagerInv, TypeOK, Locals
  <2>2. loc' = [loc EXCEPT ![t] = x] /\ pc' = [pc EXCEPT ![t] = "closeCancel"] /\ mu' = mu /\ pc[t] # "register"
    BY <1>2 DEF ClosePosition, Goto
  <2> HIDE DEF x
  <2>3. Quiet(t) /\ pc'[t] = "closeCancel" /\ loc'[t] = x
    BY <1>1, <2>1, <2>2, GotoQuiet
  <2> QED BY <1>1, <1>2, <2>1, <2>2, <2>3 DEF Own, HasObject, Locked, WritesRow
<1>3. CASE managed = 0
  BY <1>1, <1>3, FinishQuiet DEF ClosePosition
<1> QED BY <1>2, <1>3

\* CancelOnClose is a quiet step that leaves its goroutine in order.
LEMMA CancelOnCloseQuiet ==
    ASSUME ManagerInv, NEW t \in Threads, CancelOnClose(t)
    PROVE  Quiet(t) /\ Own(t)
<1>1. mu # t /\ loc[t].o \in PositionIds /\ loc[t].o # 0
  BY ObjectAtHand DEF ManagerInv, LockHeld, Locked, HasObject, CancelOnClose
<1>2. Frame(t)
  BY <1>1, OrderFrame DEF CancelOnClose, Frame
<1>3. Quiet(t) /\ pc'[t] = "closeDelete" /\ mu' = mu /\ loc'[t] = loc[t]
  BY <1>2, GotoOnlyQuiet DEF CancelOnClose
<1> QED BY <1>1, <1>3 DEF Own, HasObject, Locked, WritesRow

\* ReadForClose is a quiet step that leaves its goroutine in order.
LEMMA ReadForCloseQuiet ==
    ASSUME ManagerInv, NEW t \in Threads, ReadForClose(t)
    PROVE  Quiet(t) /\ Own(t)
<1> DEFINE o == loc[t].o
           x == [loc[t] EXCEPT !.row = [db[o] EXCEPT !.closed = TRUE]]
<1>1. mu # t /\ o \in PositionIds /\ o # 0 /\ Retired(o) /\ pc[t] \notin Locked
  BY ObjectAtHand DEF ManagerInv, LockHeld, ClosedRetired, Locked, HasObject, ReadForClose
<1>2. Frame(t)
  BY DEF ReadForClose, Frame, memory
<1>3. CASE db[o].saved
  <2>1. x.o = o
    BY <1>1 DEF ManagerInv, TypeOK, Locals
  <2>2. loc' = [loc EXCEPT ![t] = x]
    BY <1>3 DEF ReadForClose
  <2>3. pc' = [pc EXCEPT ![t] = "closeWrite"] /\ mu' = mu /\ pc[t] # "register"
    BY <1>3 DEF ReadForClose, Goto
  <2> HIDE DEF x
  <2>5. Quiet(t) /\ pc'[t] = "closeWrite" /\ loc'[t] = x /\ mu' = mu
    BY <1>2, <2>1, <2>2, <2>3, GotoQuiet
  <2> QED BY <1>1, <2>1, <2>5 DEF Own, HasObject, Locked
<1>4. CASE ~db[o].saved
  BY <1>1, <1>2, <1>4, FinishQuiet DEF ReadForClose
<1> QED BY <1>3, <1>4

\* WriteClosed is a quiet step that leaves its goroutine in order.
LEMMA WriteClosedQuiet ==
    ASSUME ManagerInv, NEW t \in Threads, WriteClosed(t)
    PROVE  Quiet(t) /\ Own(t)
<1>1. Frame(t) /\ pc[t] \notin Locked
  BY WriteFrame DEF WriteClosed, WritesRow, Locked
<1> QED BY <1>1, FinishQuiet DEF WriteClosed

\* HoldDecision is a quiet step that leaves its goroutine in order.
LEMMA HoldDecisionQuiet ==
    ASSUME ManagerInv, NEW stop, HoldDecision(stop)
    PROVE  Quiet("main") /\ Own("main")
<1> DEFINE x == [NoLocals EXCEPT !.stop = stop]
<1>1. "main" \in Threads /\ Frame("main") /\ x.o = 0 /\ mu # "main"
  BY DEF HoldDecision, Frame, memory, Threads, NoLocals
<1>2. loc' = [loc EXCEPT !["main"] = x] /\ pc' = [pc EXCEPT !["main"] = "update"] /\ mu' = mu /\ pc["main"] # "register"
  BY DEF HoldDecision, Goto
<1> HIDE DEF x
<1>3. Quiet("main") /\ pc'["main"] = "update"
  BY <1>1, <1>2, GotoQuiet
<1> QED BY <1>1, <1>2, <1>3 DEF Own, HasObject, Locked, WritesRow

\* CloseDecision is a quiet step that leaves its goroutine in order.
LEMMA CloseDecisionQuiet ==
    ASSUME ManagerInv, CloseDecision
    PROVE  Quiet("main") /\ Own("main")
<1>1. "main" \in Threads /\ Frame("main") /\ mu # "main" /\ pc["main"] = "idle"
  BY DEF CloseDecision, Frame, memory, Threads, ManagerInv, LockHeld, Locked
<1>2. Quiet("main") /\ pc'["main"] = "close" /\ mu' = mu
  BY <1>1, GotoOnlyQuiet DEF CloseDecision
<1> QED BY <1>1, <1>2 DEF Own, HasObject, Locked, WritesRow

\* BuildRecord is a quiet step that leaves its goroutine in order.
LEMMA BuildRecordQuiet ==
    ASSUME ManagerInv, BuildRecord
    PROVE  Quiet("main") /\ Own("main")
<1> DEFINE p == pos[loc["main"].o]
           row == [saved |-> TRUE, side |-> p.side, entry |-> p.entry, qty |-> p.qty,
                   stop |-> p.stop, order |-> p.order, closed |-> FALSE]
           x == [loc["main"] EXCEPT !.row = row]
<1>1. "main" \in Threads /\ Frame("main") /\ mu # "main" /\ pc["main"] = "save"
  BY DEF BuildRecord, Frame, memory, Threads, ManagerInv, LockHeld, Locked
<1>2. x.o = loc["main"].o /\ x.row.closed = FALSE /\ loc["main"].o # 0
  BY <1>1, ObjectAtHand DEF ManagerInv, TypeOK, Locals, HasObject
<1>3. loc' = [loc EXCEPT !["main"] = x] /\ pc' = [pc EXCEPT !["main"] = "saveWrite"] /\ mu' = mu
  BY DEF BuildRecord, Goto
<1> HIDE DEF x
<1>4. Quiet("main") /\ pc'["main"] = "saveWrite" /\ loc'["main"] = x
  BY <1>1, <1>2, <1>3, GotoQuiet
<1> QED BY <1>1, <1>2, <1>3, <1>4 DEF Own, HasObject, Locked, WritesRow

\* SaveRecord is a quiet step that leaves its goroutine in order.
LEMMA SaveRecordQuiet ==
    ASSUME ManagerInv, SaveRecord
    PROVE  Quiet("main") /\ Own("main")
<1>1. "main" \in Threads /\ mu # "main" /\ pc["main"] = "saveWrite" /\ loc["main"].o \in PositionIds /\ loc["main"].o # 0
  BY ObjectAtHand DEF SaveRecord, Threads, ManagerInv, LockHeld, Locked, HasObject
<1>2. Frame("main")
  BY <1>1 DEF SaveRecord, Frame, memory, ManagerInv, TypeOK, WritesRow
<1>3. Quiet("main") /\ pc'["main"] = "initPrice" /\ loc'["main"] = loc["main"] /\ mu' = mu
  BY <1>1, <1>2, GotoOnlyQuiet DEF SaveRecord
<1> QED BY <1>1, <1>3 DEF Own, HasObject, Locked, WritesRow

\* Going on to ReconcilePosition is harmless.
LEMMA ToReconcileQuiet ==
    ASSUME ManagerInv, Frame("trail"), ToReconcile, pc["trail"] \in {"setHigh", "highSync", "highWrite"}
    PROVE  Quiet("trail") /\ Own("trail")
<1> DEFINE x == [NoLocals EXCEPT !.ret = "check"]
<1>1. x.o = 0 /\ "trail" \in Threads /\ mu # "trail"
  BY DEF NoLocals, Threads, ManagerInv, LockHeld, Locked
<1>2. loc' = [loc EXCEPT !["trail"] = x] /\ pc' = [pc EXCEPT !["trail"] = "reconcile"] /\ mu' = mu
  BY DEF ToReconcile, Goto
<1> HIDE DEF x
<1>3. Quiet("trail") /\ pc'["trail"] = "reconcile"
  BY <1>1, <1>2, GotoQuiet
<1> QED BY <1>1, <1>2, <1>3 DEF Own, HasObject, Locked, WritesRow

\* ReadKline is a quiet step that leaves its goroutine in order.
LEMMA ReadKlineQuiet ==
    ASSUME ManagerInv, NEW high, NEW low, ReadKline(high, low)
    PROVE  Quiet("trail") /\ Own("trail")
<1>1. "trail" \in Threads /\ Frame("trail") /\ mu # "trail" /\ pc["trail"] = "idle" /\ mu' = mu
  BY DEF ReadKline, Frame, memory, Threads
<1> DEFINE p == pos[managed]
           y == [loc["trail"] EXCEPT !.high = NextExtreme(p.side, p.entry, p.high, high, low)]
           z == [loc["trail"] EXCEPT !.ret = "check"]
<1>2. y.o = loc["trail"].o /\ z.o = loc["trail"].o
  BY <1>1 DEF ManagerInv, TypeOK, Locals
<1>3. \/ loc' = [loc EXCEPT !["trail"] = y] /\ pc' = [pc EXCEPT !["trail"] = "setHigh"]
      \/ loc' = [loc EXCEPT !["trail"] = z] /\ pc' = [pc EXCEPT !["trail"] = "reconcile"]
  BY DEF ReadKline, Goto
<1> HIDE DEF y, z
<1>4. Quiet("trail") /\ pc'["trail"] \in {"setHigh", "reconcile"}
  BY <1>1, <1>2, <1>3, GotoQuiet
<1> QED BY <1>1, <1>4 DEF Own, HasObject, Locked, WritesRow

\* SetHighest is a quiet step that leaves its goroutine in order.
LEMMA SetHighestQuiet ==
    ASSUME ManagerInv, SetHighest
    PROVE  Quiet("trail") /\ Own("trail")
<1>1. "trail" \in Threads /\ mu # "trail" /\ pc["trail"] = "setHigh"
  BY DEF SetHighest, Threads
<1>2. CASE managed = 0
  <2>1. Frame("trail")
    BY <1>2 DEF SetHighest, Frame
  <2> QED BY <1>1, <1>2, <2>1, ToReconcileQuiet DEF SetHighest
<1>3. CASE managed # 0
  <2> DEFINE x == [loc["trail"] EXCEPT !.o = managed]
  <2>1. Frame("trail")
    BY <1>3 DEF SetHighest, Frame, ManagerInv, TypeOK, Position
  <2>2. x.o = managed
    BY <1>1 DEF ManagerInv, TypeOK, Locals
  <2>3. loc' = [loc EXCEPT !["trail"] = x] /\ pc' = [pc EXCEPT !["trail"] = "highSync"] /\ mu' = mu
    BY <1>3 DEF SetHighest, Goto
  <2> HIDE DEF x
  <2>4. Quiet("trail") /\ pc'["trail"] = "highSync" /\ loc'["trail"] = x
    BY <1>1, <2>1, <2>2, <2>3, GotoQuiet
  <2> QED BY <1>1, <1>3, <2>2, <2>3, <2>4 DEF Own, HasObject, Locked, WritesRow
<1> QED BY <1>2, <1>3

\* ReadForHighest is a quiet step that leaves its goroutine in order.
LEMMA ReadForHighestQuiet ==
    ASSUME ManagerInv, ReadForHighest
    PROVE  Quiet("trail") /\ Own("trail")
<1> DEFINE o == loc["trail"].o
           x == [loc["trail"] EXCEPT !.row = db[o]]
<1>1. "trail" \in Threads /\ mu # "trail" /\ pc["trail"] = "highSync" /\ Frame("trail")
      /\ o \in PositionIds /\ o # 0
  BY ObjectAtHand DEF ReadForHighest, Threads, Frame, memory, ManagerInv, LockHeld, HasObject, Locked
<1>2. CASE db[o].saved
  <2>1. x.o = o /\ x.row = db[o]
    BY <1>1 DEF ManagerInv, TypeOK, Locals
  <2>2. loc' = [loc EXCEPT !["trail"] = x] /\ pc' = [pc EXCEPT !["trail"] = "highWrite"] /\ mu' = mu
    BY <1>2 DEF ReadForHighest, Goto
  <2>3. db[o].closed => Retired(o)
    BY <1>1 DEF ManagerInv, ClosedRetired
  <2> HIDE DEF x
  <2>4. Quiet("trail") /\ pc'["trail"] = "highWrite" /\ loc'["trail"] = x
    BY <1>1, <2>1, <2>2, GotoQuiet
  <2> QED BY <1>1, <2>1, <2>2, <2>3, <2>4 DEF Own, HasObject, Locked
<1>3. CASE ~db[o].saved
  BY <1>1, <1>3, ToReconcileQuiet DEF ReadForHighest
<1> QED BY <1>2, <1>3

\* WriteHighest is a quiet step that leaves its goroutine in order.
LEMMA WriteHighestQuiet ==
    ASSUME ManagerInv, WriteHighest
    PROVE  Quiet("trail") /\ Own("trail")
<1>1. "trail" \in Threads /\ pc["trail"] = "highWrite" /\ loc["trail"].o \in PositionIds
  BY ObjectAtHand DEF WriteHighest, Threads, HasObject
<1>2. Frame("trail")
  BY <1>1 DEF WriteHighest, Frame, memory, ManagerInv, TypeOK, WritesRow
<1>3. CASE ToReconcile
  BY <1>1, <1>2, <1>3, ToReconcileQuiet
<1>4. CASE Finish("trail")
  BY <1>1, <1>2, <1>4, FinishQuiet
<1> QED BY <1>3, <1>4 DEF WriteHighest

\* ReconcilePosition is a quiet step that leaves its goroutine in order.
LEMMA ReconcilePositionQuiet ==
    ASSUME ManagerInv, ReconcilePosition
    PROVE  Quiet("trail") /\ Own("trail")
<1>1. "trail" \in Threads /\ mu # "trail" /\ pc["trail"] = "reconcile" /\ Frame("trail") /\ pc["trail"] \notin Locked
  BY DEF ReconcilePosition, Threads, Frame, memory, Locked
<1>2. CASE Return("trail")
  BY <1>1, <1>2, FinishQuiet
<1>3. CASE Goto("trail", "close") /\ UNCHANGED <<mu, loc>>
  <2>1. Quiet("trail") /\ pc'["trail"] = "close" /\ mu' = mu
    BY <1>1, <1>3, GotoOnlyQuiet
  <2> QED BY <1>1, <2>1 DEF Own, HasObject, Locked, WritesRow
<1>4. CASE exch # "none" /\ loc' = [loc EXCEPT !["trail"].seen = exch] /\ Goto("trail", "fix") /\ UNCHANGED mu
  <2> DEFINE x == [loc["trail"] EXCEPT !.seen = exch]
  <2>1. x.o = loc["trail"].o /\ x.seen = exch
    BY <1>1 DEF ManagerInv, TypeOK, Locals
  <2>2. loc' = [loc EXCEPT !["trail"] = x] /\ pc' = [pc EXCEPT !["trail"] = "fix"] /\ mu' = mu
    BY <1>4 DEF Goto
  <2> HIDE DEF x
  <2>3. Quiet("trail") /\ pc'["trail"] = "fix" /\ loc'["trail"] = x
    BY <1>1, <2>1, <2>2, GotoQuiet
  <2> QED BY <1>1, <1>4, <2>1, <2>2, <2>3 DEF Own, HasObject, Locked, WritesRow
<1> QED BY <1>2, <1>3, <1>4 DEF ReconcilePosition

\* CheckStopLossOrderStatus is a quiet step that leaves its goroutine in order.
LEMMA CheckStopLossOrderStatusQuiet ==
    ASSUME ManagerInv, CheckStopLossOrderStatus
    PROVE  Quiet("trail") /\ Own("trail")
<1>1. "trail" \in Threads /\ mu # "trail" /\ pc["trail"] = "check" /\ Frame("trail") /\ mu' = mu
  BY DEF CheckStopLossOrderStatus, Threads, Frame, memory
<1>2. CASE Goto("trail", "auto") /\ UNCHANGED loc
  <2>1. Quiet("trail") /\ pc'["trail"] = "auto"
    BY <1>1, <1>2, GotoOnlyQuiet
  <2> QED BY <1>1, <2>1 DEF Own, HasObject, Locked, WritesRow
<1>3. CASE loc' = [loc EXCEPT !["trail"].ret = "auto"] /\ (Goto("trail", "close") \/ Goto("trail", "reconcile"))
  <2> DEFINE x == [loc["trail"] EXCEPT !.ret = "auto"]
  <2>1. x.o = loc["trail"].o
    BY <1>1 DEF ManagerInv, TypeOK, Locals
  <2>2. PICK label \in {"close", "reconcile"} : pc' = [pc EXCEPT !["trail"] = label]
    BY <1>3 DEF Goto
  <2>3. loc' = [loc EXCEPT !["trail"] = x]
    BY <1>3
  <2> HIDE DEF x
  <2>4. Quiet("trail") /\ pc'["trail"] = label
    BY <1>1, <2>1, <2>2, <2>3, GotoQuiet
  <2> QED BY <1>1, <2>2, <2>4 DEF Own, HasObject, Locked, WritesRow
<1> QED BY <1>2, <1>3 DEF CheckStopLossOrderStatus

\* AutoUpdateTrailingStop is a quiet step that leaves its goroutine in order.
LEMMA AutoUpdateTrailingStopQuiet ==
    ASSUME ManagerInv, NEW distance, AutoUpdateTrailingStop(distance)
    PROVE  Quiet("trail") /\ Own("trail")
<1> DEFINE p == pos[managed]
           x == [NoLocals EXCEPT !.stop = CalculateTrailingStop(p.side, p.high, distance)]
<1>1. "trail" \in Threads /\ mu # "trail" /\ pc["trail"] = "auto" /\ Frame("trail")
  BY DEF AutoUpdateTrailingStop, Threads, Frame, memory
<1>2. CASE loc' = [loc EXCEPT !["trail"] = x] /\ Goto("trail", "update") /\ UNCHANGED mu
  <2>1. x.o = 0
    BY DEF NoLocals
  <2>2. pc' = [pc EXCEPT !["trail"] = "update"] /\ mu' = mu /\ loc' = [loc EXCEPT !["trail"] = x]
    BY <1>2 DEF Goto
  <2> HIDE DEF x
  <2>3. Quiet("trail") /\ pc'["trail"] = "update"
    BY <1>1, <2>1, <2>2, GotoQuiet
  <2> QED BY <1>1, <2>2, <2>3 DEF Own, HasObject, Locked, WritesRow
<1>3. CASE Finish("trail")
  BY <1>1, <1>3, FinishQuiet
<1> QED BY <1>2, <1>3 DEF AutoUpdateTrailingStop

-----------------------------------------------------------------------------
(* The steps that are not quiet *)

\* A step of the exchange alone keeps the invariant.
LEMMA NothingMoves ==
    ASSUME ManagerInv, TypeOK', UNCHANGED <<memory, db, mu, pc, loc>>
    PROVE  ManagerInv'
  BY DEF memory, ManagerInv, AtHand, LockHeld, Created, PendingAlone, UpdatedIsManaged, StopChecked, ClosedRetired, Retired, Pending

\* The other goroutines are where they were.
OthersStay(t) == \A u \in Threads \ {t} : pc'[u] = pc[u] /\ loc'[u] = loc[u]

\* A step that makes a Position keeps the invariant: only its maker knows it.
LEMMA NewObject ==
    ASSUME ManagerInv, TypeOK', NEW t \in Threads, pc[t] \in {"idle", "adopt"}, OthersStay(t),
           managed' = managed, db' = db, mu' = mu, nextPos' = nextPos + 1,
           pc'[t] = "register", loc'[t].o = nextPos,
           \A o \in PositionIds \ {nextPos} : pos'[o] = pos[o]
    PROVE  ManagerInv'
<1>1. nextPos \in Nat \ {0} /\ managed < nextPos /\ mu # t /\ \A u \in Threads : loc[u].o < nextPos
  BY StopLossAssumption DEF ManagerInv, TypeOK, Created, LockHeld, Locked
<1>2. pc'[t] \notin {"fix", "closeSync", "closeWrite"} \cup Locked \cup WritesRow
  BY DEF Locked, WritesRow
<1>3. AtHand' /\ LockHeld'
  BY <1>1, <1>2 DEF ManagerInv, AtHand, LockHeld, OthersStay
<1>4. Created' /\ PendingAlone'
  <2>1. nextPos < nextPos'
    BY <1>1
  <2>2. ASSUME NEW u \in Threads PROVE loc'[u].o < nextPos'
    <3>1. CASE u = t
      BY <2>1, <3>1
    <3>2. CASE u # t
      <4>1. loc[u].o \in Int /\ loc'[u] = loc[u]
        BY <3>2 DEF ManagerInv, TypeOK, Locals, PositionIds, OthersStay
      <4> QED BY <1>1, <4>1
    <3> QED BY <3>1, <3>2
  <2>3. managed' < nextPos'
    BY <1>1 DEF ManagerInv, TypeOK, PositionIds
  <2>4. ASSUME NEW u \in Threads, pc'[u] = "register", NEW v \in Threads \ {u}
        PROVE  managed' # loc'[u].o /\ loc'[v].o # loc'[u].o
    <3>1. CASE u = t
      BY <1>1, <3>1 DEF OthersStay
    <3>2. CASE u # t
      BY <1>1, <2>4, <3>2 DEF OthersStay, ManagerInv, PendingAlone
    <3> QED BY <3>1, <3>2
  <2>5. ASSUME NEW u \in Threads, pc'[u] = "register" PROVE managed' # loc'[u].o
    BY <1>1, <2>5 DEF OthersStay, ManagerInv, PendingAlone
  <2> QED BY <2>2, <2>3, <2>4, <2>5 DEF Created, PendingAlone
<1>5. UpdatedIsManaged'
  BY <1>2 DEF ManagerInv, UpdatedIsManaged, OthersStay
<1>6. StopChecked'
  <2> SUFFICES ASSUME NEW u \in Threads, pc'[u] \in Locked \ {"updSync", "updWrite"}
               PROVE  Improves(pos'[loc'[u].o].side, pos'[loc'[u].o].stop, loc'[u].stop)
    BY DEF StopChecked
  <2>1. u # t
    BY <1>2
  <2>2. loc'[u] = loc[u] /\ pc'[u] = pc[u] /\ loc[u].o = managed /\ managed # 0
    BY <2>1 DEF OthersStay, ManagerInv, UpdatedIsManaged
  <2>3. pos'[managed] = pos[managed]
    BY <1>1, <2>2 DEF ManagerInv, TypeOK
  <2> QED BY <2>2, <2>3 DEF ManagerInv, StopChecked
<1>7. ClosedRetired'
  <2>1. \A o \in PositionIds \cup {0} : Retired(o) => Retired(o)'
    <3> SUFFICES ASSUME NEW o \in PositionIds \cup {0}, Retired(o) PROVE Retired(o)'
      OBVIOUS
    <3>1. o < nextPos /\ o # managed /\ o # nextPos /\ o < nextPos'
      BY <1>1 DEF Retired, PositionIds
    <3> QED BY <3>1 DEF Retired, Pending, OthersStay
  <2>2. \A u \in Threads : loc[u].o \in PositionIds \cup {0}
    BY DEF ManagerInv, TypeOK, Locals
  <2> QED BY <1>2, <2>1, <2>2 DEF ManagerInv, ClosedRetired, OthersStay
<1> QED BY <1>3, <1>4, <1>5, <1>6, <1>7 DEF ManagerInv

\* A critical section that registers or removes keeps the invariant: nobody is inside an update meanwhile.
LEMMA MapChanges ==
    ASSUME ManagerInv, TypeOK', NEW t \in Threads, mu = "free", OthersStay(t), UNCHANGED <<db, mu, nextPos>>,
           \/ managed' = managed /\ pc[t] # "register"
           \/ managed' = 0 /\ pc[t] # "register"
           \/ managed' = loc[t].o /\ pc[t] = "register",
           pc'[t] \notin {"register", "fix"} \cup Locked \cup WritesRow,
           pc'[t] \in HasObject => loc'[t].o # 0,
           pc'[t] \in {"closeSync", "closeWrite"} => managed' = 0 /\ loc'[t].o = loc[t].o,
           loc'[t].o \in {0, loc[t].o}
    PROVE  ManagerInv'
<1>1. \A u \in Threads : pc[u] \notin Locked /\ pc'[u] \notin Locked
  BY DEF ManagerInv, LockHeld, OthersStay, Threads
<1>2. AtHand'
  BY DEF ManagerInv, AtHand, OthersStay
<1>3. LockHeld' /\ UpdatedIsManaged' /\ StopChecked'
  <2>1. \A u \in Threads : mu' # u
    BY DEF Threads
  <2> QED BY <1>1, <2>1 DEF LockHeld, UpdatedIsManaged, StopChecked
<1>4. Created'
  <2>1. nextPos \in Nat \ {0} /\ managed < nextPos /\ \A u \in Threads : loc[u].o < nextPos
    BY StopLossAssumption DEF ManagerInv, TypeOK, Created
  <2>2. \A u \in Threads : loc'[u].o < nextPos
    BY <2>1 DEF OthersStay
  <2>3. managed' < nextPos
    BY <2>1
  <2> QED BY <2>2, <2>3 DEF Created
<1>5. PendingAlone'
  <2> SUFFICES ASSUME NEW u \in Threads, pc'[u] = "register"
               PROVE  managed' # loc'[u].o /\ \A v \in Threads \ {u} : loc'[v].o # loc'[u].o
    BY DEF PendingAlone
  <2>1. u # t /\ loc'[u] = loc[u] /\ pc[u] = "register" /\ loc[u].o # 0
    BY DEF OthersStay, ManagerInv, AtHand, HasObject
  <2>2. managed # loc[u].o /\ \A v \in Threads \ {u} : loc[v].o # loc[u].o
    BY <2>1 DEF ManagerInv, PendingAlone
  <2>3. \A v \in Threads \ {u} : loc'[v].o # loc[u].o
    BY <2>1, <2>2 DEF OthersStay
  <2> QED BY <2>1, <2>2, <2>3
<1>6. \A o : Retired(o) /\ o # 0 => Retired(o)'
  <2> SUFFICES ASSUME NEW o, Retired(o), o # 0 PROVE Retired(o)'
    OBVIOUS
  <2>1. o # managed'
    BY DEF Retired, Pending
  <2> QED BY <2>1 DEF Retired, Pending, OthersStay
<1>7. pc'[t] \in {"closeSync", "closeWrite"} => Retired(loc[t].o)'
  <2> SUFFICES ASSUME pc'[t] \in {"closeSync", "closeWrite"} PROVE Retired(loc[t].o)'
    OBVIOUS
  <2>1. managed' = 0 /\ loc'[t].o = loc[t].o /\ loc[t].o # 0 /\ loc[t].o < nextPos
    BY DEF HasObject, ManagerInv, Created
  <2>2. ASSUME NEW u \in Threads, pc'[u] = "register" PROVE loc'[u].o # loc'[t].o
    <3>1. u # t /\ pc[u] = "register" /\ loc'[u] = loc[u]
      BY <2>2 DEF OthersStay
    <3> QED BY <2>1, <3>1 DEF ManagerInv, PendingAlone
  <2> QED BY <2>1, <2>2 DEF Retired, Pending
<1>8. ClosedRetired'
  <2>1. \A o \in PositionIds : db'[o].closed => Retired(o)'
    BY <1>6 DEF ManagerInv, ClosedRetired, PositionIds
  <2>2. ASSUME NEW u \in Threads, u # t
        PROVE  /\ pc'[u] \in {"closeSync", "closeWrite"} => Retired(loc[u].o)'
               /\ pc'[u] \in WritesRow /\ loc'[u].row.closed => Retired(loc[u].o)'
    <3>1. pc'[u] = pc[u] /\ loc'[u] = loc[u]
      BY <2>2 DEF OthersStay
    <3>2. pc[u] \in WritesRow \cup {"closeSync", "closeWrite"} => loc[u].o # 0
      BY DEF ManagerInv, AtHand, HasObject, WritesRow, Locked
    <3>3. /\ pc[u] \in {"closeSync", "closeWrite"} => Retired(loc[u].o)
          /\ pc[u] \in WritesRow /\ loc[u].row.closed => Retired(loc[u].o)
      BY DEF ManagerInv, ClosedRetired
    <3> QED BY <1>6, <3>1, <3>2, <3>3
  <2> QED BY <1>7, <2>1, <2>2 DEF ClosedRetired
<1> QED BY <1>2, <1>3, <1>4, <1>5, <1>8 DEF ManagerInv

\* OpenDecision keeps the invariant.
LEMMA OpenDecisionKeeps ==
    ASSUME ManagerInv, TypeOK', NEW side, NEW proposed, NEW asked,
           OpenDecision(side, proposed, asked)
    PROVE  ManagerInv'
<1>0. PICK entry \in FillPrices :
        LET stop == InitialStop(side, entry, proposed)
        IN  /\ pos' = [pos EXCEPT ![nextPos] = NewPosition(side, entry, stop, 0, asked, TRUE)]
            /\ loc' = [loc EXCEPT !["main"] = [NoLocals EXCEPT !.o = nextPos, !.stop = stop]]
  BY DEF OpenDecision
<1> DEFINE stop == InitialStop(side, entry, proposed)
<1> DEFINE x == [NoLocals EXCEPT !.o = nextPos, !.stop = stop]
<1>1. "main" \in Threads /\ OthersStay("main") /\ pc'["main"] = "register"
  BY <1>0 DEF OpenDecision, Goto, OthersStay, ManagerInv, TypeOK, Threads
<1>2. x.o = nextPos
  BY DEF NoLocals
<1>3. loc'["main"] = x
  BY <1>0, <1>1 DEF ManagerInv, TypeOK
<1>4. \A o \in PositionIds \ {nextPos} : pos'[o] = pos[o]
  BY <1>0 DEF ManagerInv, TypeOK
<1> HIDE DEF x
<1> QED BY <1>1, <1>2, <1>3, <1>4, NewObject DEF OpenDecision

\* AdoptPosition keeps the invariant.
LEMMA AdoptPositionKeeps ==
    ASSUME ManagerInv, TypeOK', NEW t \in Threads, AdoptPosition(t)
    PROVE  ManagerInv'
<1>1. CASE Finish(t) /\ UNCHANGED <<pos, nextPos>>
  <2>1. Frame(t)
    BY <1>1 DEF AdoptPosition, Frame
  <2> QED BY <1>1, <2>1, FinishQuiet, QuietStep DEF AdoptPosition
<1>2. CASE ~(Finish(t) /\ UNCHANGED <<pos, nextPos>>)
  <2> DEFINE x == [loc[t] EXCEPT !.o = nextPos, !.ret = "relock"]
  <2>1. x.o = nextPos
    BY DEF ManagerInv, TypeOK, Locals
  <2>2. loc' = [loc EXCEPT ![t] = x] /\ pc' = [pc EXCEPT ![t] = "register"] /\ nextPos' = nextPos + 1 /\ mu' = mu
    BY <1>2 DEF AdoptPosition, Goto
  <2>3. OthersStay(t) /\ pc'[t] = "register" /\ loc'[t] = x
    BY <2>2 DEF OthersStay, ManagerInv, TypeOK
  <2>4. \A o \in PositionIds \ {nextPos} : pos'[o] = pos[o]
    BY <1>2 DEF AdoptPosition, ManagerInv, TypeOK
  <2> HIDE DEF x
  <2> QED BY <2>1, <2>2, <2>3, <2>4, NewObject DEF AdoptPosition
<1> QED BY <1>1, <1>2

\* RegisterPosition keeps the invariant.
LEMMA RegisterPositionKeeps ==
    ASSUME ManagerInv, TypeOK', NEW t \in Threads, RegisterPosition(t)
    PROVE  ManagerInv'
<1>1. OthersStay(t) /\ pc'[t] \in {"save", "initPrice"} /\ loc' = loc
  BY DEF RegisterPosition, Goto, OthersStay, ManagerInv, TypeOK
<1>2. loc[t].o # 0
  BY ObjectAtHand DEF RegisterPosition, HasObject
<1>3. pc'[t] \notin {"register", "fix", "closeSync", "closeWrite"} \cup Locked \cup WritesRow
  BY <1>1 DEF Locked, WritesRow
<1> QED BY <1>1, <1>2, <1>3, MapChanges DEF RegisterPosition

\* RemoveFromMemory keeps the invariant.
LEMMA RemoveFromMemoryKeeps ==
    ASSUME ManagerInv, TypeOK', NEW t \in Threads, RemoveFromMemory(t)
    PROVE  ManagerInv'
<1>1. OthersStay(t) /\ pc'[t] = "closeSync" /\ loc' = loc
  BY DEF RemoveFromMemory, Goto, OthersStay, ManagerInv, TypeOK
<1>2. loc[t].o # 0
  BY ObjectAtHand DEF RemoveFromMemory, HasObject
<1>3. pc'[t] \notin {"register", "fix"} \cup Locked \cup WritesRow
  BY <1>1 DEF Locked, WritesRow
<1> QED BY <1>1, <1>2, <1>3, MapChanges DEF RemoveFromMemory

\* FixPosition keeps the invariant.
LEMMA FixPositionKeeps ==
    ASSUME ManagerInv, TypeOK', FixPosition
    PROVE  ManagerInv'
<1>1. "trail" \in Threads /\ pc["trail"] = "fix" /\ pc["trail"] \notin Locked
  BY DEF FixPosition, Threads, Locked
<1>2. pc'["trail"] \in Rest /\ loc'["trail"] = NoLocals /\ OthersStay("trail")
  BY <1>1, FinishEffect DEF FixPosition, OthersStay
<1>3. pc'["trail"] \notin {"register", "fix", "closeSync", "closeWrite"} \cup Locked \cup WritesRow \cup HasObject
  BY <1>2 DEF Locked, WritesRow, HasObject, Rest
<1>4. loc'["trail"].o = 0 /\ mu' = mu
  BY <1>2 DEF NoLocals, FixPosition, Return, Finish
<1> QED BY <1>1, <1>2, <1>3, <1>4, MapChanges DEF FixPosition

\* PlaceNewOrder keeps the invariant.
LEMMA PlaceNewOrderKeeps ==
    ASSUME ManagerInv, TypeOK', NEW t \in Threads, PlaceNewOrder(t)
    PROVE  ManagerInv'
<1>1. mu = t /\ loc[t].o \in PositionIds /\ managed # 0 /\ managed = loc[t].o
  BY ObjectAtHand DEF ManagerInv, UpdatedIsManaged, Locked, HasObject, PlaceNewOrder
<1>2. CASE Finish(t) /\ UNCHANGED pos
  <2>1. Frame(t)
    BY <1>2 DEF PlaceNewOrder, Frame
  <2> QED BY <1>2, <2>1, FinishQuiet, QuietStep DEF PlaceNewOrder
<1>3. CASE Goto(t, "updSync") /\ UNCHANGED <<mu, loc>>
  <2>1. pc'[t] = "updSync" /\ (\A u \in Threads \ {t} : pc'[u] = pc[u]) /\ loc' = loc /\ mu' = mu
    BY <1>3 DEF Goto, ManagerInv, TypeOK
  <2>2. UNCHANGED <<managed, nextPos, db>>
    BY DEF PlaceNewOrder
  <2>3. AtHand' /\ LockHeld' /\ Created' /\ PendingAlone' /\ UpdatedIsManaged'
    BY <1>1, <2>1, <2>2 DEF ManagerInv, AtHand, LockHeld, Created, PendingAlone, UpdatedIsManaged, Locked, HasObject
  <2>4. StopChecked'
    <3>1. \A u \in Threads : pc'[u] \in Locked => u = t
      BY <1>1, <2>1 DEF ManagerInv, UpdatedIsManaged
    <3> QED BY <2>1, <3>1 DEF StopChecked
  <2>5. ClosedRetired'
    <3>1. \A o \in PositionIds \cup {0} : Retired(o) => Retired(o)'
      BY <2>1, <2>2 DEF Retired, Pending
    <3>2. \A u \in Threads : loc[u].o \in PositionIds \cup {0}
      BY DEF ManagerInv, TypeOK, Locals
    <3>3. ~(pc'[t] \in WritesRow) /\ pc'[t] \notin {"closeSync", "closeWrite"}
      BY <2>1 DEF WritesRow
    <3> QED BY <2>1, <2>2, <3>1, <3>2, <3>3 DEF ManagerInv, ClosedRetired
  <2> QED BY <2>3, <2>4, <2>5 DEF ManagerInv
<1> QED BY <1>2, <1>3 DEF PlaceNewOrder

-----------------------------------------------------------------------------
(* The inductive invariant *)

\* Every step is the exchange's, quiet, or one of the six that are not.
LEMMA StepKinds ==
    ASSUME ManagerInv, [Next]_vars
    PROVE  \/ UNCHANGED <<memory, db, mu, pc, loc>>
           \/ \E t \in Threads : Quiet(t) /\ Own(t)
           \/ \E side \in OpenSides, proposed \in Stops, asked \in Requests :
                OpenDecision(side, proposed, asked)
           \/ \E t \in Threads :
                \/ AdoptPosition(t) \/ RegisterPosition(t)
                \/ RemoveFromMemory(t) \/ PlaceNewOrder(t)
           \/ FixPosition
<1> DEFINE Kind == \/ UNCHANGED <<memory, db, mu, pc, loc>>
                   \/ \E t \in Threads : Quiet(t) /\ Own(t)
                   \/ \E side \in OpenSides, proposed \in Stops, asked \in Requests :
                        OpenDecision(side, proposed, asked)
                   \/ \E t \in Threads :
                        \/ AdoptPosition(t) \/ RegisterPosition(t)
                        \/ RemoveFromMemory(t) \/ PlaceNewOrder(t)
                   \/ FixPosition
<1>0. "main" \in Threads /\ "trail" \in Threads
  BY DEF Threads
<1>1. CASE MainDecides
  <2>1. CASE \E stop \in Stops : HoldDecision(stop)
    BY <1>0, <2>1, HoldDecisionQuiet
  <2>2. CASE CloseDecision
    BY <1>0, <2>2, CloseDecisionQuiet
  <2>3. CASE UnreportedTrade
    BY <2>3 DEF UnreportedTrade, memory
  <2> QED BY <1>1, <2>1, <2>2, <2>3 DEF MainDecides
<1>2. CASE MainRecords
  BY <1>0, <1>2, BuildRecordQuiet, SaveRecordQuiet DEF MainRecords
<1>3. ASSUME NEW t \in Threads, SharedCall(t) PROVE Kind
  <2>1. \/ Quiet(t) /\ Own(t)
        \/ AdoptPosition(t) \/ RegisterPosition(t)
        \/ RemoveFromMemory(t) \/ PlaceNewOrder(t)
    BY <1>3, CheckInitialStopQuiet, PlaceInitialStopLossQuiet, ReadForOrderIDQuiet,
       WriteOrderIDQuiet, UpdateStopLossQuiet, RelockQuiet, ValidateStopLossPriceQuiet,
       CancelOldOrderQuiet, CheckNewStopQuiet, ReadForStopQuiet, WriteStopQuiet,
       ClosePositionQuiet, CancelOnCloseQuiet, ReadForCloseQuiet, WriteClosedQuiet
       DEF SharedCall
  <2> QED BY <2>1
<1>4. CASE TrailRound
  <2>1. (Quiet("trail") /\ Own("trail")) \/ FixPosition
    BY <1>4, ReadKlineQuiet, SetHighestQuiet, ReadForHighestQuiet, WriteHighestQuiet,
       ReconcilePositionQuiet, CheckStopLossOrderStatusQuiet, AutoUpdateTrailingStopQuiet
       DEF TrailRound
  <2> QED BY <1>0, <2>1
<1>5. CASE Exchange
  BY <1>5 DEF Exchange, MovePrice, TriggerOrder
<1>6. CASE UNCHANGED vars
  BY <1>6 DEF vars, memory
<1> QED BY <1>1, <1>2, <1>3, <1>4, <1>5, <1>6 DEF Next, Process

\* The program starts in the invariant.
LEMMA InitManagerInv == Init => ManagerInv
<1> SUFFICES ASSUME Init PROVE ManagerInv
  OBVIOUS
<1>1. TypeOK
  BY InitTyped
<1>2. /\ \A t \in Threads : pc[t] = "idle" /\ loc[t] = NoLocals /\ mu # t
      /\ \A o \in PositionIds : db[o] = NoRow
      /\ managed < nextPos /\ 0 < nextPos
  <2>1. pc = [t \in Threads |-> "idle"] /\ loc = [t \in Threads |-> NoLocals] /\ mu = "free"
    BY DEF Init
  <2>2. db = [o \in PositionIds |-> NoRow]
    BY DEF Init
  <2>3. (managed = 0 /\ nextPos = 1) \/ (managed = 1 /\ nextPos = 2)
    BY DEF Init
  <2> QED BY <2>1, <2>2, <2>3 DEF Threads
<1>3. "idle" \notin HasObject \cup Locked \cup WritesRow
  BY DEF HasObject, Locked, WritesRow
<1>4. AtHand /\ LockHeld /\ PendingAlone /\ UpdatedIsManaged /\ StopChecked
  BY <1>2, <1>3 DEF AtHand, LockHeld, PendingAlone, UpdatedIsManaged, StopChecked
<1>5. Created /\ ClosedRetired
  BY <1>2, <1>3 DEF Created, ClosedRetired, NoLocals, NoRow
<1> QED BY <1>1, <1>4, <1>5 DEF ManagerInv

\* Every step keeps it.
LEMMA StepManagerInv == ManagerInv /\ [Next]_vars => ManagerInv'
<1> SUFFICES ASSUME ManagerInv, [Next]_vars PROVE ManagerInv'
  OBVIOUS
<1>1. TypeOK'
  BY TypeStep DEF ManagerInv
<1> QED BY <1>1, StepKinds, NothingMoves, QuietStep, OpenDecisionKeeps, AdoptPositionKeeps,
           RegisterPositionKeeps, RemoveFromMemoryKeeps, PlaceNewOrderKeeps, FixPositionKeeps

\* ManagerInv holds in every reachable state of every instance.
THEOREM Invariance == Spec => []ManagerInv
  BY InitManagerInv, StepManagerInv, PTL DEF Spec

\* Every variable of the stop-loss management always has its type.
THEOREM TypeCorrect == Spec => []TypeOK
<1>1. ManagerInv => TypeOK
  BY DEF ManagerInv
<1> QED BY <1>1, Invariance, PTL

\* From the moment UpdateStopLoss has taken sm.mu to its return, the Position
\* it works on is the managed one.
THEOREM UpdateHoldsManaged == Spec => []UpdatedIsManaged
<1>1. ManagerInv => UpdatedIsManaged
  BY DEF ManagerInv
<1> QED BY <1>1, Invariance, PTL

\* A managed position's row is never marked as closed.
THEOREM ManagedIsOpen == Spec => []ClosedNotManaged
<1>1. ManagerInv => ClosedNotManaged
  BY DEF ManagerInv, TypeOK, ClosedRetired, Retired, ClosedNotManaged
<1> QED BY <1>1, Invariance, PTL

-----------------------------------------------------------------------------
(* The ratchet *)

\* What RatchetStop asks of one step.
Favourable ==
    \A o \in PositionIds :
      /\ managed = o /\ managed' = o
      /\ pos'[o].side = pos[o].side /\ pos'[o].stop # pos[o].stop
      => /\ IsValidUpdate(pos[o].side, pos[o].stop, pos'[o].stop)
         /\ ShouldUpdate(pos[o].stop, pos'[o].stop)

\* A step that moves no stop of a managed position is favourable.
LEMMA SameStopFavourable ==
    ASSUME ManagerInv, managed # 0 /\ managed' = managed => pos'[managed].stop = pos[managed].stop
    PROVE  Favourable
<1>1. \A o \in PositionIds : o # 0
  BY DEF PositionIds
<1> QED BY <1>1 DEF Favourable

\* Making a Position, registering it and removing one leaves the managed one
\* as it is.
LEMMA ObjectsStay ==
    ASSUME ManagerInv, NEW t \in Threads,
           \/ AdoptPosition(t) \/ RegisterPosition(t) \/ RemoveFromMemory(t)
           \/ \E side, proposed, asked : OpenDecision(side, proposed, asked)
    PROVE  managed # 0 => pos'[managed] = pos[managed]
<1>1. managed # nextPos
  BY DEF ManagerInv, Created, TypeOK, PositionIds
<1> QED BY <1>1 DEF AdoptPosition, RegisterPosition, RemoveFromMemory, OpenDecision, ManagerInv, TypeOK

\* PlaceNewOrder moves the stop where UpdateStopLoss checked it may go.
LEMMA PlaceNewOrderEffect ==
    ASSUME ManagerInv, NEW t \in Threads, PlaceNewOrder(t)
    PROVE  /\ managed # 0 /\ managed' = managed
           /\ pos'[managed].side = pos[managed].side
           /\ pos'[managed].stop # pos[managed].stop =>
                /\ IsValidUpdate(pos[managed].side, pos[managed].stop, pos'[managed].stop)
                /\ ShouldUpdate(pos[managed].stop, pos'[managed].stop)
<1> DEFINE old == pos[managed]
           new == loc[t].stop
<1>1. managed # 0 /\ managed = loc[t].o /\ managed \in PositionIds
      /\ Improves(old.side, old.stop, new)
  BY DEF ManagerInv, TypeOK, UpdatedIsManaged, StopChecked, Locked, PlaceNewOrder
<1>2. old \in Position /\ old.stop \in Int /\ new \in Int
  BY <1>1 DEF ManagerInv, TypeOK, Position, Locals
<1>3. managed' = managed
  BY DEF PlaceNewOrder
<1>4. CASE pos' = pos
  BY <1>1, <1>2, <1>3, <1>4
<1>5. CASE pos' = [pos EXCEPT ![managed].order = nextOrder, ![managed].stop = new]
  <2>1. pos'[managed] = [old EXCEPT !.order = nextOrder, !.stop = new]
    BY <1>1, <1>5 DEF ManagerInv, TypeOK
  <2>2. pos'[managed].side = old.side /\ pos'[managed].stop = new
    BY <1>2, <2>1 DEF Position
  <2>3. new # old.stop => IsValidUpdate(old.side, old.stop, new)
    BY <1>1, <1>2 DEF Improves, Worsens, IsValidUpdate, Position, Sides
  <2>4. ShouldUpdate(old.stop, new)
    BY <1>1 DEF Improves
  <2> QED BY <1>1, <1>3, <2>2, <2>3, <2>4
<1> QED BY <1>1, <1>4, <1>5 DEF PlaceNewOrder

\* FixPosition corrects the side and the size and leaves the stop.
LEMMA FixPositionEffect ==
    ASSUME ManagerInv, FixPosition
    PROVE  /\ managed' = managed
           /\ managed # 0 => pos'[managed].stop = pos[managed].stop
<1>1. managed # 0 => managed \in PositionIds /\ pos[managed] \in Position
  BY DEF ManagerInv, TypeOK
<1> DEFINE n == IF pos[managed].qty # Filled THEN Filled ELSE pos[managed].size
           p == [pos[managed] EXCEPT !.side = loc["trail"].seen, !.size = n, !.qty = Filled]
<1>2. managed # 0 => pos'[managed] = p
  BY <1>1 DEF FixPosition, ManagerInv, TypeOK
<1>3. managed # 0 => p.stop = pos[managed].stop
  BY <1>1 DEF Position
<1> QED BY <1>2, <1>3 DEF FixPosition

\* Every step from the invariant is favourable.
LEMMA RatchetStep == ManagerInv /\ [Next]_vars => Favourable
<1> SUFFICES ASSUME ManagerInv, [Next]_vars PROVE Favourable
  OBVIOUS
<1>0. "main" \in Threads /\ managed \in PositionIds \cup {0}
  BY DEF Threads, ManagerInv, TypeOK
<1>1. CASE UNCHANGED <<memory, db, mu, pc, loc>>
  BY <1>1, SameStopFavourable DEF memory
<1>2. ASSUME NEW t \in Threads, Quiet(t) PROVE Favourable
  BY <1>0, <1>2, SameStopFavourable DEF Quiet
<1>3. ASSUME NEW t \in Threads,
             \/ AdoptPosition(t) \/ RegisterPosition(t) \/ RemoveFromMemory(t)
             \/ \E side, proposed, asked : OpenDecision(side, proposed, asked)
      PROVE  Favourable
  BY <1>3, ObjectsStay, SameStopFavourable
<1>4. ASSUME NEW t \in Threads, PlaceNewOrder(t) PROVE Favourable
  BY <1>4, PlaceNewOrderEffect DEF Favourable
<1>5. CASE FixPosition
  BY <1>5, FixPositionEffect, SameStopFavourable
<1> QED BY <1>0, <1>1, <1>2, <1>3, <1>4, <1>5, StepKinds

\* The stop of a managed position never moves away from the price while its
\* side stays, whatever the two goroutines decide from stops they read earlier.
THEOREM StopRatchets == Spec => RatchetStop
<1>1. ManagerInv /\ [Next]_vars => [Favourable]_vars
  BY RatchetStep
<1>2. Spec => [][Favourable]_vars
  BY <1>1, Invariance, PTL DEF Spec
<1> QED BY <1>2 DEF RatchetStop, Favourable

-----------------------------------------------------------------------------
(* The refinement of StopGuard *)

\* The variables of StopGuard as StopLossManager has them.
Used == {o \in PositionIds : o < nextPos /\ ~Pending(o)}
Side == IF managed = 0 THEN "none" ELSE pos[managed].side
Stop == IF managed = 0 THEN 0 ELSE pos[managed].stop

\* The program starts guarding nothing, or what it found on the exchange.
LEMMA GuardInit == Init => Guard!Init
<1> SUFFICES ASSUME Init PROVE Guard!Init
  OBVIOUS
<1>1. \A o : ~Pending(o)
  <2>1. pc = [t \in Threads |-> "idle"]
    BY DEF Init
  <2> QED BY <2>1 DEF Pending
<1>2. CASE managed = 0 /\ nextPos = 1
  <2>1. Used = {}
    BY <1>1, <1>2 DEF Used, PositionIds
  <2> QED BY <1>2, <2>1 DEF Guard!Init, Used
<1>3. CASE exch \in OpenSides /\ managed = 1 /\ nextPos = 2
  <2>1. 1 \in PositionIds
    BY StopLossAssumption DEF PositionIds
  <2>2. Used = {1}
    BY <1>1, <1>3, <2>1 DEF Used, PositionIds
  <2>3. pos[1].side \in {"long", "short"} /\ pos[1].stop \in Int
    BY <2>1, InitTyped DEF TypeOK, Position, Sides
  <2> QED BY <1>3, <2>1, <2>2, <2>3 DEF Guard!Init, Used
<1> QED BY <1>2, <1>3 DEF Init

\* A step that changes neither the managed Position nor what is pending does
\* not show.
LEMMA Stutter ==
    ASSUME ManagerInv, managed' = managed, Used' = Used,
           managed # 0 =>
             pos'[managed].side = pos[managed].side /\ pos'[managed].stop = pos[managed].stop
    PROVE  UNCHANGED Guard!guardVars
  BY DEF Guard!guardVars, Used

\* A quiet step makes nothing pending and nothing used.
LEMMA QuietStutters ==
    ASSUME ManagerInv, NEW t \in Threads, Quiet(t)
    PROVE  UNCHANGED Guard!guardVars
<1>1. \A o : Pending(o)' <=> Pending(o)
  BY DEF Quiet, Pending
<1>2. Used' = Used
  BY <1>1 DEF Used, Quiet
<1>3. managed \in PositionIds \cup {0}
  BY DEF ManagerInv, TypeOK
<1> QED BY <1>2, <1>3, Stutter DEF Quiet

\* A Position that has just been made is pending.
LEMMA NewIsPending ==
    ASSUME ManagerInv, NEW t \in Threads, pc[t] # "register", OthersStay(t),
           nextPos' = nextPos + 1, pc'[t] = "register", loc'[t].o = nextPos
    PROVE  Used' = Used
<1>1. \A o : Pending(o)' <=> Pending(o) \/ o = nextPos
  BY DEF Pending, OthersStay
<1>2. \A o \in PositionIds : o < nextPos' <=> o < nextPos \/ o = nextPos
  BY DEF ManagerInv, TypeOK, PositionIds
<1>3. \A o \in PositionIds : o < nextPos => o # nextPos
  BY DEF ManagerInv, TypeOK, PositionIds
<1> QED BY <1>1, <1>2, <1>3 DEF Used

\* OpenDecision and AdoptPosition do not show.
LEMMA NewObjectStutters ==
    ASSUME ManagerInv, NEW t \in Threads,
           \/ AdoptPosition(t)
           \/ t = "main" /\ \E side, proposed, asked : OpenDecision(side, proposed, asked)
    PROVE  UNCHANGED Guard!guardVars
<1>1. managed' = managed /\ (managed # 0 => pos'[managed] = pos[managed])
  BY ObjectsStay DEF AdoptPosition, OpenDecision
<1>2. CASE AdoptPosition(t) /\ Finish(t) /\ UNCHANGED <<pos, nextPos>>
  <2>1. Frame(t)
    BY <1>2 DEF AdoptPosition, Frame
  <2> QED BY <1>2, <2>1, FinishQuiet, QuietStutters DEF AdoptPosition
<1>3. CASE AdoptPosition(t) /\ ~(Finish(t) /\ UNCHANGED <<pos, nextPos>>)
  <2> DEFINE x == [loc[t] EXCEPT !.o = nextPos, !.ret = "relock"]
  <2>1. x.o = nextPos
    BY DEF ManagerInv, TypeOK, Locals
  <2>2. loc' = [loc EXCEPT ![t] = x] /\ pc' = [pc EXCEPT ![t] = "register"]
        /\ nextPos' = nextPos + 1 /\ pc[t] # "register"
    BY <1>3 DEF AdoptPosition, Goto
  <2>3. OthersStay(t) /\ pc'[t] = "register" /\ loc'[t] = x
    BY <2>2 DEF OthersStay, ManagerInv, TypeOK
  <2> HIDE DEF x
  <2> QED BY <1>1, <2>1, <2>2, <2>3, NewIsPending, Stutter
<1>4. ASSUME NEW side, NEW proposed, NEW asked, t = "main", OpenDecision(side, proposed, asked)
      PROVE  UNCHANGED Guard!guardVars
  <2>0. PICK stop : loc' = [loc EXCEPT !["main"] = [NoLocals EXCEPT !.o = nextPos, !.stop = stop]]
    BY <1>4 DEF OpenDecision
  <2> DEFINE x == [NoLocals EXCEPT !.o = nextPos, !.stop = stop]
  <2>1. x.o = nextPos
    BY DEF NoLocals
  <2>2. loc' = [loc EXCEPT ![t] = x] /\ pc' = [pc EXCEPT ![t] = "register"]
        /\ nextPos' = nextPos + 1 /\ pc[t] # "register"
    BY <1>4, <2>0 DEF OpenDecision, Goto
  <2>3. OthersStay(t) /\ pc'[t] = "register" /\ loc'[t] = x
    BY <2>2 DEF OthersStay, ManagerInv, TypeOK
  <2> HIDE DEF x
  <2> QED BY <1>1, <2>1, <2>2, <2>3, NewIsPending, Stutter
<1> QED BY <1>2, <1>3, <1>4

\* Registering guards a position that never was guarded.
LEMMA RegisterGuards ==
    ASSUME ManagerInv, TypeOK', NEW t \in Threads, RegisterPosition(t)
    PROVE  \E o \in PositionIds : Guard!Guard(o)
<1>0. PICK o \in PositionIds : o = loc[t].o
  BY ObjectAtHand DEF RegisterPosition, HasObject
<1>1. o # 0 /\ o < nextPos /\ pc[t] = "register" /\ managed' = o /\ o = loc[t].o
  BY <1>0 DEF ManagerInv, Created, RegisterPosition, PositionIds
<1>2. OthersStay(t) /\ loc' = loc /\ pc'[t] # "register" /\ nextPos' = nextPos
  BY DEF RegisterPosition, Goto, OthersStay, ManagerInv, TypeOK
<1>3. \A u \in Threads \ {t} : pc[u] = "register" => loc[u].o # o
  BY <1>1 DEF ManagerInv, PendingAlone
<1>4. \A q : Pending(q)' <=> Pending(q) /\ q # o
  BY <1>1, <1>2, <1>3 DEF Pending, OthersStay
<1>5. Used' = Used \cup {o} /\ o \notin Used
  <2>1. Pending(o)
    BY <1>1 DEF Pending
  <2> QED BY <1>1, <1>2, <1>4, <2>1 DEF Used
<1>6. pos'[o].side \in {"long", "short"} /\ pos'[o].stop \in Int
  BY <1>1 DEF TypeOK, Position, Sides
<1>7. Guard!Guard(o)
  BY <1>1, <1>5, <1>6 DEF Guard!Guard, Used
<1> QED BY <1>7

\* Removing releases, if there is anything to release.
LEMMA RemoveReleases ==
    ASSUME ManagerInv, NEW t \in Threads, RemoveFromMemory(t)
    PROVE  Guard!Release \/ UNCHANGED Guard!guardVars
<1>1. OthersStay(t) /\ loc' = loc /\ pc[t] # "register" /\ pc'[t] # "register"
      /\ nextPos' = nextPos /\ managed' = 0
  BY DEF RemoveFromMemory, Goto, OthersStay, ManagerInv, TypeOK
<1>2. \A q : Pending(q)' <=> Pending(q)
  BY <1>1 DEF Pending, OthersStay
<1>3. Used' = Used
  BY <1>1, <1>2 DEF Used
<1> QED BY <1>1, <1>3 DEF Guard!Release, Guard!guardVars, Used

\* Placing the new order tightens the stop, or nothing happens.
LEMMA PlaceTightens ==
    ASSUME ManagerInv, TypeOK', NEW t \in Threads, PlaceNewOrder(t)
    PROVE  Guard!Tighten
<1>1. /\ managed # 0 /\ managed' = managed
      /\ pos'[managed].side = pos[managed].side
      /\ pos[managed].side = "long" => pos'[managed].stop >= pos[managed].stop
      /\ pos[managed].side = "short" => pos'[managed].stop <= pos[managed].stop
  <2>1. /\ managed # 0 /\ managed' = managed
        /\ pos'[managed].side = pos[managed].side
        /\ pos'[managed].stop # pos[managed].stop =>
             IsValidUpdate(pos[managed].side, pos[managed].stop, pos'[managed].stop)
    BY PlaceNewOrderEffect
  <2>2. pos[managed].stop \in Int /\ pos'[managed].stop \in Int
    BY <2>1 DEF ManagerInv, TypeOK, Position
  <2> QED BY <2>1, <2>2 DEF IsValidUpdate
<1>2. pos'[managed].stop \in Int
  BY <1>1 DEF TypeOK, Position
<1>3. \A q : Pending(q)' <=> Pending(q)
  <2>1. CASE Finish(t)
    <3>1. OthersStay(t) /\ pc[t] # "register" /\ pc'[t] # "register"
      BY <2>1, FinishEffect DEF PlaceNewOrder, OthersStay, Rest
    <3> QED BY <3>1 DEF Pending, OthersStay
  <2>2. CASE Goto(t, "updSync") /\ UNCHANGED loc
    BY <2>2 DEF PlaceNewOrder, Goto, Pending, ManagerInv, TypeOK
  <2> QED BY <2>1, <2>2 DEF PlaceNewOrder
<1>4. Used' = Used
  BY <1>3 DEF Used, PlaceNewOrder
<1> QED BY <1>1, <1>2, <1>4 DEF Guard!Tighten, Used

\* Taking over the exchange's side and size corrects what is guarded.
LEMMA FixCorrects ==
    ASSUME ManagerInv, TypeOK', FixPosition
    PROVE  Guard!Correct \/ UNCHANGED Guard!guardVars
<1>1. "trail" \in Threads /\ pc["trail"] = "fix" /\ pc["trail"] \notin Locked
  BY DEF FixPosition, Threads, Locked
<1>2. OthersStay("trail") /\ pc'["trail"] # "register"
  BY <1>1, FinishEffect DEF FixPosition, OthersStay, Rest
<1>3. \A q : Pending(q)' <=> Pending(q)
  BY <1>1, <1>2 DEF Pending, OthersStay
<1>4. Used' = Used
  BY <1>3 DEF Used, FixPosition
<1>5. managed' = managed /\ (managed # 0 => pos'[managed].stop = pos[managed].stop)
  BY FixPositionEffect
<1>6. managed # 0 => pos'[managed].side \in {"long", "short"}
  BY <1>5 DEF TypeOK, Position, Sides
<1> QED BY <1>4, <1>5, <1>6 DEF Guard!Correct, Guard!guardVars, Used

\* Every step is a step of StopGuard or does not show.
LEMMA GuardStep == ManagerInv /\ [Next]_vars => [Guard!Next]_Guard!guardVars
<1> SUFFICES ASSUME ManagerInv, [Next]_vars PROVE Guard!Next \/ UNCHANGED Guard!guardVars
  OBVIOUS
<1>0. "main" \in Threads /\ TypeOK'
  BY TypeStep DEF Threads, ManagerInv
<1>1. CASE UNCHANGED <<memory, db, mu, pc, loc>>
  BY <1>1 DEF memory, Guard!guardVars, Pending
<1>2. ASSUME NEW t \in Threads, Quiet(t) PROVE UNCHANGED Guard!guardVars
  BY <1>2, QuietStutters
<1>3. CASE \E side, proposed, asked : OpenDecision(side, proposed, asked)
  BY <1>0, <1>3, NewObjectStutters
<1>4. ASSUME NEW t \in Threads, AdoptPosition(t) PROVE UNCHANGED Guard!guardVars
  BY <1>4, NewObjectStutters
<1>5. ASSUME NEW t \in Threads, RegisterPosition(t) PROVE Guard!Next
  BY <1>0, <1>5, RegisterGuards DEF Guard!Next
<1>6. ASSUME NEW t \in Threads, RemoveFromMemory(t)
      PROVE  Guard!Next \/ UNCHANGED Guard!guardVars
  BY <1>6, RemoveReleases DEF Guard!Next
<1>7. ASSUME NEW t \in Threads, PlaceNewOrder(t) PROVE Guard!Next
  BY <1>0, <1>7, PlaceTightens DEF Guard!Next
<1>8. CASE FixPosition
  BY <1>0, <1>8, FixCorrects DEF Guard!Next
<1> QED BY <1>1, <1>2, <1>3, <1>4, <1>5, <1>6, <1>7, <1>8, StepKinds

\* StopLossManager implements StopGuard: one position is guarded at a time,
\* each once and for all, and its stop only tightens.
THEOREM Refinement == Spec => GuardSpec
<1>1. Spec => [][Guard!Next]_Guard!guardVars
  BY GuardStep, Invariance, PTL DEF Spec
<1> QED BY <1>1, GuardInit DEF Spec, GuardSpec, Guard!Spec

-----------------------------------------------------------------------------
(* The length of a call *)

\* Where a call may return to.
Rets == {"idle", "relock", "check", "auto"}

\* The steps from every label, by where the call returns to.
LEMMA StepsTable ==
    ASSUME NEW ret \in Rets
    PROVE  /\ OwnSteps[ret] \in Nat /\ StepsFrom("idle", ret) = 0
           /\ StepsFrom("dead", ret) = 0 /\ StepsFrom(ret, "idle") = OwnSteps[ret]
           /\ StepsFrom("updWrite", ret) = 1 /\ StepsFrom("updSync", ret) = 2
           /\ StepsFrom("replace", ret) = 3 /\ StepsFrom("rePrice", ret) = 4
           /\ StepsFrom("cancel", ret) = 5 /\ StepsFrom("validate", ret) = 6
           /\ StepsFrom("relock", ret) = 7 /\ StepsFrom("initWrite", ret) = 8
           /\ StepsFrom("initSync", ret) = 9 /\ StepsFrom("initPlace", ret) = 10
           /\ StepsFrom("initPrice", ret) = 11 /\ StepsFrom("saveWrite", ret) = 12
           /\ StepsFrom("save", ret) = 13 /\ StepsFrom("register", ret) = 14
           /\ StepsFrom("adopt", ret) = 15 /\ StepsFrom("update", ret) = 16
           /\ StepsFrom("auto", ret) = 17 /\ StepsFrom("check", ret) = 24
           /\ StepsFrom("highWrite", ret) = 31 /\ StepsFrom("highSync", ret) = 32
           /\ StepsFrom("setHigh", ret) = 33
           /\ StepsFrom("fix", ret) = 1 + OwnSteps[ret]
           /\ StepsFrom("closeWrite", ret) = 1 + OwnSteps[ret]
           /\ StepsFrom("closeSync", ret) = 2 + OwnSteps[ret]
           /\ StepsFrom("closeDelete", ret) = 3 + OwnSteps[ret]
           /\ StepsFrom("closeCancel", ret) = 4 + OwnSteps[ret]
           /\ StepsFrom("close", ret) = 5 + OwnSteps[ret]
           /\ StepsFrom("reconcile", ret) = 6 + OwnSteps[ret]
           /\ OwnSteps["auto"] = 17 /\ OwnSteps["check"] = 24
  BY DEF StepsFrom, OwnSteps, Returning, Rets

\* The local that matters, and that no other label is left to.
LEMMA RetTyped ==
    ASSUME TypeOK, NEW t \in Threads
    PROVE  loc[t].ret \in Rets /\ pc[t] \in Labels
  BY DEF TypeOK, Locals, Rets

\* A step of t alone that brings it nearer to the end of its call.
Advances(t) ==
    /\ OthersStay(t)
    /\ StepsFrom(pc'[t], loc'[t].ret) < StepsFrom(pc[t], loc[t].ret)

\* Going on to a label with fewer steps left, with new locals or the same ones.
LEMMA GotoAdvances ==
    ASSUME TypeOK, NEW t \in Threads, NEW label, NEW x,
           pc' = [pc EXCEPT ![t] = label], loc' = [loc EXCEPT ![t] = x],
           StepsFrom(label, x.ret) < StepsFrom(pc[t], loc[t].ret)
    PROVE  Advances(t)
<1>1. pc'[t] = label /\ loc'[t] = x /\ OthersStay(t)
  BY DEF TypeOK, OthersStay
<1> QED BY <1>1 DEF Advances

LEMMA GotoOnlyAdvances ==
    ASSUME TypeOK, NEW t \in Threads, NEW label, Goto(t, label), loc' = loc,
           StepsFrom(label, loc[t].ret) < StepsFrom(pc[t], loc[t].ret)
    PROVE  Advances(t)
<1>1. pc'[t] = label /\ loc'[t] = loc[t] /\ OthersStay(t)
  BY DEF TypeOK, OthersStay, Goto
<1> QED BY <1>1 DEF Advances

\* Returning to the loop.
LEMMA FinishAdvances ==
    ASSUME TypeOK, NEW t \in Threads, Finish(t), StepsFrom(pc[t], loc[t].ret) > 0
    PROVE  Advances(t)
<1>1. pc'[t] = "idle" /\ loc'[t] = NoLocals /\ OthersStay(t)
  BY DEF TypeOK, OthersStay, Finish, Goto
<1>2. NoLocals.ret = "idle" /\ StepsFrom("idle", "idle") = 0
  BY StepsTable DEF NoLocals, Rets
<1> QED BY <1>1, <1>2 DEF Advances

\* Returning to the caller, from what ReconcilePosition and ClosePosition do.
LEMMA ReturnAdvances ==
    ASSUME TypeOK, NEW t \in Threads, Return(t), pc[t] \in Returning
    PROVE  Advances(t)
<1>1. loc[t].ret \in Rets
  BY RetTyped
<1>2. StepsFrom(pc[t], loc[t].ret) >= 1 + OwnSteps[loc[t].ret] /\ OwnSteps[loc[t].ret] \in Nat
  BY <1>1, StepsTable DEF Returning
<1>3. StepsFrom(pc[t], loc[t].ret) \in Nat
  BY <1>1, StepsTable DEF Returning
<1>4. CASE loc[t].ret = "idle"
  <2>1. StepsFrom(pc[t], loc[t].ret) > 0
    BY <1>2, <1>3
  <2> QED BY <1>4, <2>1, FinishAdvances DEF Return
<1>5. CASE loc[t].ret # "idle"
  <2>1. pc' = [pc EXCEPT ![t] = loc[t].ret] /\ loc' = [loc EXCEPT ![t] = NoLocals]
    BY <1>5 DEF Return, Goto
  <2>2. NoLocals.ret = "idle"
    BY DEF NoLocals
  <2>3. StepsFrom(loc[t].ret, NoLocals.ret) = OwnSteps[loc[t].ret]
    BY <1>1, <2>2, StepsTable
  <2>4. StepsFrom(loc[t].ret, NoLocals.ret) < StepsFrom(pc[t], loc[t].ret)
    BY <1>2, <1>3, <2>3
  <2> QED BY <2>1, <2>4, GotoAdvances
<1> QED BY <1>4, <1>5

\* PlaceInitialStopLoss returns.
LEMMA InitialAdvances ==
    ASSUME TypeOK, NEW t \in Threads, NEW ok, InitialReturns(t, ok),
           pc[t] \in {"initPrice", "initPlace", "initSync", "initWrite"}
    PROVE  Advances(t)
<1>1. StepsFrom(pc[t], loc[t].ret) > 7 /\ StepsFrom("relock", loc[t].ret) = 7
  BY RetTyped, StepsTable
<1>2. CASE Finish(t)
  <2>1. StepsFrom(pc[t], loc[t].ret) > 0
    BY RetTyped, StepsTable
  <2> QED BY <1>2, <2>1, FinishAdvances
<1>3. CASE Goto(t, "relock") /\ loc' = loc
  BY <1>1, <1>3, GotoOnlyAdvances
<1> QED BY <1>2, <1>3 DEF InitialReturns

\* The critical section that begins an update.
LEMMA BeginAdvances ==
    ASSUME TypeOK, NEW t \in Threads, BeginUpdate(t), pc[t] \in {"update", "relock"}
    PROVE  Advances(t)
<1> DEFINE x == [loc[t] EXCEPT !.o = managed]
<1>1. x.ret = loc[t].ret /\ loc[t].ret \in Rets
  BY RetTyped DEF TypeOK, Locals
<1>2. StepsFrom("validate", x.ret) < StepsFrom(pc[t], loc[t].ret) /\ StepsFrom(pc[t], loc[t].ret) > 0
  <2> HIDE DEF x
  <2> QED BY <1>1, StepsTable
<1>3. CASE loc' = [loc EXCEPT ![t] = x] /\ Goto(t, "validate")
  <2> HIDE DEF x
  <2> QED BY <1>2, <1>3, GotoAdvances DEF Goto
<1>4. CASE Finish(t)
  BY <1>2, <1>4, FinishAdvances
<1> QED BY <1>3, <1>4 DEF BeginUpdate

\* Each step of a shared call, in the order of the code.
LEMMA RegisterPositionAdvances ==
    ASSUME TypeOK, NEW t \in Threads, RegisterPosition(t)
    PROVE  Advances(t)
<1>1. pc[t] = "register" /\ loc[t].ret \in Rets
  BY RetTyped DEF RegisterPosition
<1>2. /\ StepsFrom("save", loc[t].ret) < StepsFrom(pc[t], loc[t].ret)
      /\ StepsFrom("initPrice", loc[t].ret) < StepsFrom(pc[t], loc[t].ret)
  BY <1>1, StepsTable
<1> QED BY <1>1, <1>2, GotoOnlyAdvances DEF RegisterPosition

LEMMA CheckInitialStopAdvances ==
    ASSUME TypeOK, NEW t \in Threads, CheckInitialStop(t)
    PROVE  Advances(t)
<1>1. pc[t] = "initPrice" /\ loc[t].ret \in Rets
  BY RetTyped DEF CheckInitialStop
<1>2. StepsFrom("initPlace", loc[t].ret) < StepsFrom(pc[t], loc[t].ret)
  BY <1>1, StepsTable
<1> QED BY <1>1, <1>2, GotoOnlyAdvances, InitialAdvances DEF CheckInitialStop

LEMMA PlaceInitialStopLossAdvances ==
    ASSUME TypeOK, NEW t \in Threads, PlaceInitialStopLoss(t)
    PROVE  Advances(t)
<1>1. pc[t] = "initPlace" /\ loc[t].ret \in Rets
  BY RetTyped DEF PlaceInitialStopLoss
<1>2. StepsFrom("initSync", loc[t].ret) < StepsFrom(pc[t], loc[t].ret)
  BY <1>1, StepsTable
<1> QED BY <1>1, <1>2, GotoOnlyAdvances, InitialAdvances DEF PlaceInitialStopLoss

LEMMA ReadForOrderIDAdvances ==
    ASSUME TypeOK, NEW t \in Threads, ReadForOrderID(t)
    PROVE  Advances(t)
<1> DEFINE x == [loc[t] EXCEPT !.row = [db[loc[t].o] EXCEPT !.order = pos[loc[t].o].order]]
<1>1. pc[t] = "initSync" /\ loc[t].ret \in Rets /\ x.ret = loc[t].ret
  BY RetTyped DEF ReadForOrderID, TypeOK, Locals
<1>2. StepsFrom("initWrite", x.ret) < StepsFrom(pc[t], loc[t].ret) /\ StepsFrom(pc[t], loc[t].ret) > 0
  <2> HIDE DEF x
  <2> QED BY <1>1, StepsTable
<1>3. CASE db[loc[t].o].saved
  <2>1. loc' = [loc EXCEPT ![t] = x] /\ pc' = [pc EXCEPT ![t] = "initWrite"]
    BY <1>3 DEF ReadForOrderID, Goto
  <2> HIDE DEF x
  <2> QED BY <1>2, <2>1, GotoAdvances
<1>4. CASE ~(db[loc[t].o].saved)
  BY <1>1, <1>2, <1>4, InitialAdvances DEF ReadForOrderID, Returning
<1> QED BY <1>3, <1>4

LEMMA WriteOrderIDAdvances ==
    ASSUME TypeOK, NEW t \in Threads, WriteOrderID(t)
    PROVE  Advances(t)
<1>1. pc[t] = "initWrite" /\ loc[t].ret \in Rets
  BY RetTyped DEF WriteOrderID
<1> QED BY <1>1, InitialAdvances DEF WriteOrderID

LEMMA UpdateStopLossAdvances ==
    ASSUME TypeOK, NEW t \in Threads, UpdateStopLoss(t)
    PROVE  Advances(t)
<1>1. pc[t] = "update" /\ loc[t].ret \in Rets
  BY RetTyped DEF UpdateStopLoss
<1>2. StepsFrom("adopt", loc[t].ret) < StepsFrom(pc[t], loc[t].ret)
  BY <1>1, StepsTable
<1> QED BY <1>1, <1>2, GotoOnlyAdvances, BeginAdvances DEF UpdateStopLoss

LEMMA AdoptPositionAdvances ==
    ASSUME TypeOK, NEW t \in Threads, AdoptPosition(t)
    PROVE  Advances(t)
<1> DEFINE x == [loc[t] EXCEPT !.o = nextPos, !.ret = "relock"]
<1>1. pc[t] = "adopt" /\ loc[t].ret \in Rets /\ x.ret = "relock"
  BY RetTyped DEF AdoptPosition, TypeOK, Locals
<1>2. StepsFrom(pc[t], loc[t].ret) = 15 /\ StepsFrom("register", "relock") = 14
  BY <1>1, StepsTable DEF Rets
<1> HIDE DEF x
<1>3. StepsFrom("register", x.ret) < StepsFrom(pc[t], loc[t].ret)
  BY <1>1, <1>2
<1> USE DEF x
<1>4. CASE loc' = [loc EXCEPT ![t] = x] /\ Goto(t, "register")
  <2> HIDE DEF x
  <2> QED BY <1>3, <1>4, GotoAdvances DEF Goto
<1>5. CASE Finish(t)
  BY <1>2, <1>5, FinishAdvances
<1> QED BY <1>4, <1>5 DEF AdoptPosition

LEMMA RelockAdvances ==
    ASSUME TypeOK, NEW t \in Threads, Relock(t)
    PROVE  Advances(t)
<1>1. pc[t] = "relock" /\ loc[t].ret \in Rets
  BY RetTyped DEF Relock
<1>2. StepsFrom("dead", loc[t].ret) < StepsFrom(pc[t], loc[t].ret)
  BY <1>1, StepsTable
<1> QED BY <1>1, <1>2, GotoOnlyAdvances, BeginAdvances DEF Relock

LEMMA ValidateStopLossPriceAdvances ==
    ASSUME TypeOK, NEW t \in Threads, ValidateStopLossPrice(t)
    PROVE  Advances(t)
<1>1. pc[t] = "validate" /\ loc[t].ret \in Rets
  BY RetTyped DEF ValidateStopLossPrice
<1>2. /\ StepsFrom("cancel", loc[t].ret) < StepsFrom(pc[t], loc[t].ret)
      /\ StepsFrom(pc[t], loc[t].ret) > 0
  BY <1>1, StepsTable
<1> QED BY <1>1, <1>2, GotoOnlyAdvances, FinishAdvances DEF ValidateStopLossPrice

LEMMA CancelOldOrderAdvances ==
    ASSUME TypeOK, NEW t \in Threads, CancelOldOrder(t)
    PROVE  Advances(t)
<1>1. pc[t] = "cancel" /\ loc[t].ret \in Rets
  BY RetTyped DEF CancelOldOrder
<1>2. /\ StepsFrom("rePrice", loc[t].ret) < StepsFrom(pc[t], loc[t].ret)
      /\ StepsFrom(pc[t], loc[t].ret) > 0
  BY <1>1, StepsTable
<1> QED BY <1>1, <1>2, GotoOnlyAdvances, FinishAdvances DEF CancelOldOrder

LEMMA CheckNewStopAdvances ==
    ASSUME TypeOK, NEW t \in Threads, CheckNewStop(t)
    PROVE  Advances(t)
<1>1. pc[t] = "rePrice" /\ loc[t].ret \in Rets
  BY RetTyped DEF CheckNewStop
<1>2. /\ StepsFrom("replace", loc[t].ret) < StepsFrom(pc[t], loc[t].ret)
      /\ StepsFrom(pc[t], loc[t].ret) > 0
  BY <1>1, StepsTable
<1> QED BY <1>1, <1>2, GotoOnlyAdvances, FinishAdvances DEF CheckNewStop

LEMMA PlaceNewOrderAdvances ==
    ASSUME TypeOK, NEW t \in Threads, PlaceNewOrder(t)
    PROVE  Advances(t)
<1>1. pc[t] = "replace" /\ loc[t].ret \in Rets
  BY RetTyped DEF PlaceNewOrder
<1>2. /\ StepsFrom("updSync", loc[t].ret) < StepsFrom(pc[t], loc[t].ret)
      /\ StepsFrom(pc[t], loc[t].ret) > 0
  BY <1>1, StepsTable
<1> QED BY <1>1, <1>2, GotoOnlyAdvances, FinishAdvances DEF PlaceNewOrder

LEMMA ReadForStopAdvances ==
    ASSUME TypeOK, NEW t \in Threads, ReadForStop(t)
    PROVE  Advances(t)
<1> DEFINE x == [loc[t] EXCEPT !.row =
                     [db[loc[t].o] EXCEPT !.stop = loc[t].stop, !.order = pos[loc[t].o].order]]
<1>1. pc[t] = "updSync" /\ loc[t].ret \in Rets /\ x.ret = loc[t].ret
  BY RetTyped DEF ReadForStop, TypeOK, Locals
<1>2. StepsFrom("updWrite", x.ret) < StepsFrom(pc[t], loc[t].ret) /\ StepsFrom(pc[t], loc[t].ret) > 0
  <2> HIDE DEF x
  <2> QED BY <1>1, StepsTable
<1>3. CASE db[loc[t].o].saved
  <2>1. loc' = [loc EXCEPT ![t] = x] /\ pc' = [pc EXCEPT ![t] = "updWrite"]
    BY <1>3 DEF ReadForStop, Goto
  <2> HIDE DEF x
  <2> QED BY <1>2, <2>1, GotoAdvances
<1>4. CASE ~(db[loc[t].o].saved)
  BY <1>1, <1>2, <1>4, FinishAdvances DEF ReadForStop, Returning
<1> QED BY <1>3, <1>4

LEMMA WriteStopAdvances ==
    ASSUME TypeOK, NEW t \in Threads, WriteStop(t)
    PROVE  Advances(t)
<1>1. pc[t] = "updWrite" /\ loc[t].ret \in Rets
  BY RetTyped DEF WriteStop
<1>2. StepsFrom(pc[t], loc[t].ret) > 0
  BY <1>1, StepsTable
<1> QED BY <1>1, <1>2, FinishAdvances DEF WriteStop

LEMMA ClosePositionAdvances ==
    ASSUME TypeOK, NEW t \in Threads, ClosePosition(t)
    PROVE  Advances(t)
<1> DEFINE x == [loc[t] EXCEPT !.o = managed]
<1>1. pc[t] = "close" /\ loc[t].ret \in Rets /\ x.ret = loc[t].ret
  BY RetTyped DEF ClosePosition, TypeOK, Locals
<1>2. StepsFrom("closeCancel", x.ret) < StepsFrom(pc[t], loc[t].ret) /\ StepsFrom(pc[t], loc[t].ret) > 0
  <2> HIDE DEF x
  <2> QED BY <1>1, StepsTable
<1>3. CASE managed # 0
  <2>1. loc' = [loc EXCEPT ![t] = x] /\ pc' = [pc EXCEPT ![t] = "closeCancel"]
    BY <1>3 DEF ClosePosition, Goto
  <2> HIDE DEF x
  <2> QED BY <1>2, <2>1, GotoAdvances
<1>4. CASE ~(managed # 0)
  BY <1>1, <1>2, <1>4, ReturnAdvances DEF ClosePosition, Returning
<1> QED BY <1>3, <1>4

LEMMA CancelOnCloseAdvances ==
    ASSUME TypeOK, NEW t \in Threads, CancelOnClose(t)
    PROVE  Advances(t)
<1>1. pc[t] = "closeCancel" /\ loc[t].ret \in Rets
  BY RetTyped DEF CancelOnClose
<1>2. StepsFrom("closeDelete", loc[t].ret) < StepsFrom(pc[t], loc[t].ret)
  BY <1>1, StepsTable
<1> QED BY <1>1, <1>2, GotoOnlyAdvances DEF CancelOnClose

LEMMA RemoveFromMemoryAdvances ==
    ASSUME TypeOK, NEW t \in Threads, RemoveFromMemory(t)
    PROVE  Advances(t)
<1>1. pc[t] = "closeDelete" /\ loc[t].ret \in Rets
  BY RetTyped DEF RemoveFromMemory
<1>2. StepsFrom("closeSync", loc[t].ret) < StepsFrom(pc[t], loc[t].ret)
  BY <1>1, StepsTable
<1> QED BY <1>1, <1>2, GotoOnlyAdvances DEF RemoveFromMemory

LEMMA ReadForCloseAdvances ==
    ASSUME TypeOK, NEW t \in Threads, ReadForClose(t)
    PROVE  Advances(t)
<1> DEFINE x == [loc[t] EXCEPT !.row = [db[loc[t].o] EXCEPT !.closed = TRUE]]
<1>1. pc[t] = "closeSync" /\ loc[t].ret \in Rets /\ x.ret = loc[t].ret
  BY RetTyped DEF ReadForClose, TypeOK, Locals
<1>2. StepsFrom("closeWrite", x.ret) < StepsFrom(pc[t], loc[t].ret) /\ StepsFrom(pc[t], loc[t].ret) > 0
  <2> HIDE DEF x
  <2> QED BY <1>1, StepsTable
<1>3. CASE db[loc[t].o].saved
  <2>1. loc' = [loc EXCEPT ![t] = x] /\ pc' = [pc EXCEPT ![t] = "closeWrite"]
    BY <1>3 DEF ReadForClose, Goto
  <2> HIDE DEF x
  <2> QED BY <1>2, <2>1, GotoAdvances
<1>4. CASE ~(db[loc[t].o].saved)
  BY <1>1, <1>2, <1>4, ReturnAdvances DEF ReadForClose, Returning
<1> QED BY <1>3, <1>4

LEMMA WriteClosedAdvances ==
    ASSUME TypeOK, NEW t \in Threads, WriteClosed(t)
    PROVE  Advances(t)
<1>1. pc[t] = "closeWrite" /\ loc[t].ret \in Rets
  BY RetTyped DEF WriteClosed
<1> QED BY <1>1, ReturnAdvances DEF WriteClosed, Returning

\* The two steps that record what the loop opened.
LEMMA BuildRecordAdvances ==
    ASSUME TypeOK, BuildRecord
    PROVE  Advances("main")
<1>0. "main" \in Threads
  BY DEF Threads
<1> DEFINE p == pos[loc["main"].o]
           x == [loc["main"] EXCEPT !.row =
                   [saved |-> TRUE, side |-> p.side, entry |-> p.entry, qty |-> p.qty,
                    stop |-> p.stop, order |-> p.order, closed |-> FALSE]]
<1>1. pc["main"] = "save" /\ loc["main"].ret \in Rets /\ x.ret = loc["main"].ret
  BY <1>0, RetTyped DEF BuildRecord, TypeOK, Locals
<1>2. loc' = [loc EXCEPT !["main"] = x] /\ pc' = [pc EXCEPT !["main"] = "saveWrite"]
  BY DEF BuildRecord, Goto
<1> HIDE DEF x
<1>3. StepsFrom("saveWrite", x.ret) < StepsFrom(pc["main"], loc["main"].ret)
  BY <1>1, StepsTable
<1> QED BY <1>0, <1>2, <1>3, GotoAdvances

LEMMA SaveRecordAdvances ==
    ASSUME TypeOK, SaveRecord
    PROVE  Advances("main")
<1>0. "main" \in Threads
  BY DEF Threads
<1>1. pc["main"] = "saveWrite" /\ loc["main"].ret \in Rets
  BY <1>0, RetTyped DEF SaveRecord
<1>2. StepsFrom("initPrice", loc["main"].ret) < StepsFrom(pc["main"], loc["main"].ret)
  BY <1>1, StepsTable
<1> QED BY <1>0, <1>1, <1>2, GotoOnlyAdvances DEF SaveRecord

\* The steps of a round of the trailing goroutine.
LEMMA ToReconcileAdvances ==
    ASSUME TypeOK, ToReconcile, pc["trail"] \in {"setHigh", "highSync", "highWrite"}
    PROVE  Advances("trail")
<1> DEFINE x == [NoLocals EXCEPT !.ret = "check"]
<1>1. x.ret = "check" /\ "trail" \in Threads
  BY DEF NoLocals, Threads
<1>2. loc' = [loc EXCEPT !["trail"] = x] /\ pc' = [pc EXCEPT !["trail"] = "reconcile"]
  BY DEF ToReconcile, Goto
<1> HIDE DEF x
<1>3. StepsFrom("reconcile", "check") = 30
  BY StepsTable DEF Rets
<1>4. 30 < StepsFrom(pc["trail"], loc["trail"].ret)
  BY <1>1, RetTyped, StepsTable
<1> QED BY <1>1, <1>2, <1>3, <1>4, GotoAdvances

LEMMA SetHighestAdvances ==
    ASSUME TypeOK, SetHighest
    PROVE  Advances("trail")
<1>0. "trail" \in Threads
  BY DEF Threads
<1> DEFINE x == [loc["trail"] EXCEPT !.o = managed]
<1>1. pc["trail"] = "setHigh" /\ loc["trail"].ret \in Rets /\ x.ret = loc["trail"].ret
  BY <1>0, RetTyped DEF SetHighest, TypeOK, Locals
<1>2. StepsFrom("highSync", x.ret) < StepsFrom(pc["trail"], loc["trail"].ret) /\ StepsFrom(pc["trail"], loc["trail"].ret) > 0
  <2> HIDE DEF x
  <2> QED BY <1>1, StepsTable
<1>3. CASE managed # 0
  <2>1. loc' = [loc EXCEPT !["trail"] = x] /\ pc' = [pc EXCEPT !["trail"] = "highSync"]
    BY <1>3 DEF SetHighest, Goto
  <2> HIDE DEF x
  <2> QED BY <1>0, <1>2, <2>1, GotoAdvances
<1>4. CASE ~(managed # 0)
  BY <1>0, <1>1, <1>2, <1>4, ToReconcileAdvances DEF SetHighest, Returning
<1> QED BY <1>3, <1>4

LEMMA ReadForHighestAdvances ==
    ASSUME TypeOK, ReadForHighest
    PROVE  Advances("trail")
<1>0. "trail" \in Threads
  BY DEF Threads
<1> DEFINE x == [loc["trail"] EXCEPT !.row = db[loc["trail"].o]]
<1>1. pc["trail"] = "highSync" /\ loc["trail"].ret \in Rets /\ x.ret = loc["trail"].ret
  BY <1>0, RetTyped DEF ReadForHighest, TypeOK, Locals
<1>2. StepsFrom("highWrite", x.ret) < StepsFrom(pc["trail"], loc["trail"].ret) /\ StepsFrom(pc["trail"], loc["trail"].ret) > 0
  <2> HIDE DEF x
  <2> QED BY <1>1, StepsTable
<1>3. CASE db[loc["trail"].o].saved
  <2>1. loc' = [loc EXCEPT !["trail"] = x] /\ pc' = [pc EXCEPT !["trail"] = "highWrite"]
    BY <1>3 DEF ReadForHighest, Goto
  <2> HIDE DEF x
  <2> QED BY <1>0, <1>2, <2>1, GotoAdvances
<1>4. CASE ~(db[loc["trail"].o].saved)
  BY <1>0, <1>1, <1>2, <1>4, ToReconcileAdvances DEF ReadForHighest, Returning
<1> QED BY <1>3, <1>4

LEMMA WriteHighestAdvances ==
    ASSUME TypeOK, WriteHighest
    PROVE  Advances("trail")
<1>0. "trail" \in Threads
  BY DEF Threads
<1>1. pc["trail"] = "highWrite"
  BY DEF WriteHighest
<1>2. StepsFrom(pc["trail"], loc["trail"].ret) > 0
  BY <1>0, <1>1, RetTyped, StepsTable
<1> QED BY <1>0, <1>1, <1>2, ToReconcileAdvances, FinishAdvances DEF WriteHighest

LEMMA ReconcilePositionAdvances ==
    ASSUME TypeOK, ReconcilePosition
    PROVE  Advances("trail")
<1> DEFINE x == [loc["trail"] EXCEPT !.seen = exch]
<1>0. "trail" \in Threads
  BY DEF Threads
<1>1. pc["trail"] = "reconcile" /\ loc["trail"].ret \in Rets /\ x.ret = loc["trail"].ret
  BY <1>0, RetTyped DEF ReconcilePosition, TypeOK, Locals
<1>2. /\ StepsFrom("fix", x.ret) < StepsFrom(pc["trail"], loc["trail"].ret)
      /\ StepsFrom("close", loc["trail"].ret) < StepsFrom(pc["trail"], loc["trail"].ret)
  <2> HIDE DEF x
  <2> QED BY <1>1, StepsTable
<1>3. CASE Return("trail")
  BY <1>0, <1>1, <1>3, ReturnAdvances DEF Returning
<1>4. CASE Goto("trail", "close") /\ UNCHANGED <<mu, loc>>
  BY <1>0, <1>2, <1>4, GotoOnlyAdvances
<1>5. CASE loc' = [loc EXCEPT !["trail"] = x] /\ Goto("trail", "fix")
  <2> HIDE DEF x
  <2> QED BY <1>0, <1>2, <1>5, GotoAdvances DEF Goto
<1> QED BY <1>3, <1>4, <1>5 DEF ReconcilePosition

LEMMA FixPositionAdvances ==
    ASSUME TypeOK, FixPosition
    PROVE  Advances("trail")
<1>1. "trail" \in Threads /\ pc["trail"] \in Returning
  BY DEF FixPosition, Threads, Returning
<1> QED BY <1>1, ReturnAdvances DEF FixPosition

LEMMA CheckStopLossOrderStatusAdvances ==
    ASSUME TypeOK, CheckStopLossOrderStatus
    PROVE  Advances("trail")
<1> DEFINE x == [loc["trail"] EXCEPT !.ret = "auto"]
<1>0. "trail" \in Threads
  BY DEF Threads
<1>1. pc["trail"] = "check" /\ loc["trail"].ret \in Rets /\ x.ret = "auto"
  BY <1>0, RetTyped DEF CheckStopLossOrderStatus, TypeOK, Locals
<1>2. /\ StepsFrom("auto", loc["trail"].ret) < StepsFrom(pc["trail"], loc["trail"].ret)
      /\ StepsFrom("close", x.ret) < StepsFrom(pc["trail"], loc["trail"].ret)
      /\ StepsFrom("reconcile", x.ret) < StepsFrom(pc["trail"], loc["trail"].ret)
  <2> HIDE DEF x
  <2>1. StepsFrom("close", "auto") = 22 /\ StepsFrom("reconcile", "auto") = 23
    BY StepsTable DEF Rets
  <2> QED BY <1>1, <2>1, StepsTable
<1>3. CASE Goto("trail", "auto") /\ UNCHANGED loc
  BY <1>0, <1>2, <1>3, GotoOnlyAdvances
<1>4. CASE loc' = [loc EXCEPT !["trail"] = x] /\ (Goto("trail", "close") \/ Goto("trail", "reconcile"))
  <2> HIDE DEF x
  <2> QED BY <1>0, <1>2, <1>4, GotoAdvances DEF Goto
<1> QED BY <1>3, <1>4 DEF CheckStopLossOrderStatus

LEMMA AutoUpdateTrailingStopAdvances ==
    ASSUME TypeOK, NEW distance, AutoUpdateTrailingStop(distance)
    PROVE  Advances("trail")
<1> DEFINE p == pos[managed]
           x == [NoLocals EXCEPT !.stop = CalculateTrailingStop(p.side, p.high, distance)]
<1>1. "trail" \in Threads /\ pc["trail"] = "auto" /\ x.ret = "idle"
  BY DEF AutoUpdateTrailingStop, Threads, NoLocals
<1>2. StepsFrom("update", "idle") = 16 /\ StepsFrom(pc["trail"], loc["trail"].ret) = 17
  BY <1>1, RetTyped, StepsTable DEF Rets
<1> HIDE DEF x
<1>3. StepsFrom("update", x.ret) < StepsFrom(pc["trail"], loc["trail"].ret)
  BY <1>1, <1>2
<1> USE DEF x
<1>4. CASE loc' = [loc EXCEPT !["trail"] = x] /\ Goto("trail", "update")
  <2> HIDE DEF x
  <2> QED BY <1>1, <1>3, <1>4, GotoAdvances DEF Goto
<1>5. CASE Finish("trail")
  BY <1>1, <1>2, <1>5, FinishAdvances
<1> QED BY <1>4, <1>5 DEF AutoUpdateTrailingStop

\* Decisions and the beginning of a round start from the loop.
LEMMA BeginningsIdle ==
    ASSUME TypeOK,
           \/ \E stop : HoldDecision(stop)
           \/ \E side, proposed, asked : OpenDecision(side, proposed, asked)
           \/ CloseDecision \/ UnreportedTrade
    PROVE  pc["main"] = "idle" /\ OthersStay("main")
  BY DEF HoldDecision, OpenDecision, CloseDecision, UnreportedTrade, Goto, OthersStay, TypeOK

LEMMA RoundBegins ==
    ASSUME TypeOK, NEW high, NEW low, ReadKline(high, low)
    PROVE  pc["trail"] = "idle" /\ OthersStay("trail")
  BY DEF ReadKline, Goto, OthersStay, TypeOK

\* Every step begins something, brings one goroutine nearer to its end, or is
\* the exchange's.
LEMMA StepAdvances ==
    ASSUME TypeOK, [Next]_vars
    PROVE  \/ UNCHANGED <<pc, loc>>
           \/ \E t \in Threads : pc[t] = "idle" /\ OthersStay(t)
           \/ \E t \in Threads : Advances(t)
<1> DEFINE Kind == \/ UNCHANGED <<pc, loc>>
                   \/ \E t \in Threads : pc[t] = "idle" /\ OthersStay(t)
                   \/ \E t \in Threads : Advances(t)
<1>0. "main" \in Threads /\ "trail" \in Threads
  BY DEF Threads
<1>1. CASE MainDecides
  BY <1>0, <1>1, BeginningsIdle DEF MainDecides
<1>2. CASE MainRecords
  BY <1>0, <1>2, BuildRecordAdvances, SaveRecordAdvances DEF MainRecords
<1>3. ASSUME NEW t \in Threads, SharedCall(t) PROVE Advances(t)
  BY <1>3, RegisterPositionAdvances, CheckInitialStopAdvances, PlaceInitialStopLossAdvances,
     ReadForOrderIDAdvances, WriteOrderIDAdvances, UpdateStopLossAdvances,
     AdoptPositionAdvances, RelockAdvances, ValidateStopLossPriceAdvances,
     CancelOldOrderAdvances, CheckNewStopAdvances, PlaceNewOrderAdvances,
     ReadForStopAdvances, WriteStopAdvances, ClosePositionAdvances, CancelOnCloseAdvances,
     RemoveFromMemoryAdvances, ReadForCloseAdvances, WriteClosedAdvances
     DEF SharedCall
<1>4. CASE TrailRound
  BY <1>0, <1>4, RoundBegins, SetHighestAdvances, ReadForHighestAdvances,
     WriteHighestAdvances, ReconcilePositionAdvances, FixPositionAdvances,
     CheckStopLossOrderStatusAdvances, AutoUpdateTrailingStopAdvances
     DEF TrailRound
<1>5. CASE Exchange
  BY <1>5 DEF Exchange, MovePrice, TriggerOrder
<1>6. CASE UNCHANGED vars
  BY <1>6 DEF vars
<1> QED BY <1>1, <1>2, <1>3, <1>4, <1>5, <1>6 DEF Next, Process

\* No call of a goroutine goes round in circles: each of its steps leaves fewer
\* steps to its end, 33 at most for a round of the trailing goroutine, whatever
\* fails and whatever the other goroutine does.
THEOREM CallsAreBounded == Spec => CallsBounded
<1> DEFINE Shorter ==
      \A t \in Threads :
        pc[t] # "idle" /\ (pc'[t] # pc[t] \/ loc'[t] # loc[t]) =>
          StepsFrom(pc'[t], loc'[t].ret) < StepsLeft(t)
<1>1. TypeOK /\ [Next]_vars => Shorter
  BY StepAdvances DEF Advances, OthersStay, StepsLeft
<1>2. Spec => [][Shorter]_vars
  BY <1>1, TypeCorrect, PTL DEF Spec
<1> QED BY <1>2 DEF CallsBounded

-----------------------------------------------------------------------------
(* Rows that open again *)

\* What is retired is not registered by any step.
LEMMA RetiredUnmanaged ==
    ASSUME ManagerInv, [Next]_vars, NEW o \in PositionIds, Retired(o)
    PROVE  managed' # o
<1>1. managed # o /\ o # 0 /\ ~Pending(o)
  BY DEF Retired, PositionIds
<1>2. CASE managed' = managed
  BY <1>1, <1>2
<1>3. ASSUME NEW t \in Threads, RegisterPosition(t) PROVE managed' # o
  BY <1>1, <1>3 DEF RegisterPosition, Pending
<1>4. ASSUME NEW t \in Threads, RemoveFromMemory(t) PROVE managed' # o
  BY <1>1, <1>4 DEF RemoveFromMemory
<1>5. \/ managed' = managed
      \/ \E t \in Threads : RegisterPosition(t) \/ RemoveFromMemory(t)
  BY StepKinds DEF memory, Quiet, OpenDecision, AdoptPosition, PlaceNewOrder, FixPosition
<1> QED BY <1>2, <1>3, <1>4, <1>5

\* The race of stop_reopened does no harm while the process lives: a row that is
\* open again belongs to a position that is managed neither before nor after.
THEOREM ReopenedAreRetired == Spec => ReopenedIsRetired
<1> DEFINE Harmless == \A o \in PositionIds :
                         db[o].closed /\ ~db'[o].closed => managed # o /\ managed' # o
<1>1. ManagerInv /\ [Next]_vars => Harmless
  <2> SUFFICES ASSUME ManagerInv, [Next]_vars, NEW o \in PositionIds, db[o].closed
               PROVE  managed # o /\ managed' # o
    OBVIOUS
  <2>1. Retired(o)
    BY DEF ManagerInv, ClosedRetired
  <2> QED BY <2>1, RetiredUnmanaged DEF Retired
<1>2. Spec => [][Harmless]_vars
  BY <1>1, Invariance, PTL DEF Spec
<1> QED BY <1>2 DEF ReopenedIsRetired

-----------------------------------------------------------------------------
(* Positions that no stop order protects *)

\* What a position opened by the trading loop is like when exactly what was
\* asked for was filled: FixPosition has nothing to correct.
Unsized(p) == p.id => p.size = 0 /\ p.qty = Filled /\ p.order = 0

\* The steps that change a Position.
LEMMA PositionChanges ==
    ASSUME [Next]_vars
    PROVE  \/ pos' = pos
           \/ \E side \in OpenSides, proposed \in Stops, asked \in Requests :
                OpenDecision(side, proposed, asked)
           \/ \E t \in Threads :
                \/ PlaceInitialStopLoss(t) \/ AdoptPosition(t) \/ CancelOldOrder(t)
                \/ PlaceNewOrder(t) \/ CancelOnClose(t)
           \/ SetHighest \/ FixPosition
<1>1. CASE MainDecides \/ MainRecords
  BY <1>1 DEF MainDecides, MainRecords, HoldDecision, CloseDecision, UnreportedTrade,
     BuildRecord, SaveRecord, memory
<1>2. ASSUME NEW t \in Threads, SharedCall(t)
      PROVE  \/ pos' = pos \/ PlaceInitialStopLoss(t) \/ AdoptPosition(t)
             \/ CancelOldOrder(t) \/ PlaceNewOrder(t) \/ CancelOnClose(t)
  BY <1>2 DEF SharedCall, RegisterPosition, CheckInitialStop, ReadForOrderID, WriteOrderID,
     UpdateStopLoss, Relock, ValidateStopLossPrice, CheckNewStop, ReadForStop, WriteStop,
     ClosePosition, RemoveFromMemory, ReadForClose, WriteClosed, memory
<1>3. CASE TrailRound
  BY <1>3 DEF TrailRound, ReadKline, ReadForHighest, WriteHighest, ReconcilePosition,
     CheckStopLossOrderStatus, AutoUpdateTrailingStop, memory
<1>4. CASE Exchange \/ UNCHANGED vars
  BY <1>4 DEF Exchange, MovePrice, TriggerOrder, memory, vars
<1> QED BY <1>1, <1>2, <1>3, <1>4 DEF Next, Process

\* What becomes of one record of a Position in each of them.
LEMMA UnsizedKept ==
    ASSUME NEW p \in Position, Unsized(p)
    PROVE  /\ Unsized([p EXCEPT !.order = 0])
           /\ \A x : Unsized([p EXCEPT !.high = x])
           /\ p.size > 0 => \A k : Unsized([p EXCEPT !.order = k])
           /\ p.size > 0 => \A k, x : Unsized([p EXCEPT !.order = k, !.stop = x])
           /\ \A side, n : (p.qty = Filled => n = p.size) =>
                Unsized([p EXCEPT !.side = side, !.size = n, !.qty = Filled])
  BY DEF Unsized, Position

\* When every decision is filled as it was asked for, the step of any goroutine
\* leaves the positions of the trading loop without size and order.
LEMMA UnsizedStep ==
    ASSUME Requests = {Filled}, ManagerInv, [Next]_vars, \A o \in PositionIds : Unsized(pos[o]),
           NEW o \in PositionIds
    PROVE  Unsized(pos'[o])
<1>0. pos \in [PositionIds -> Position] /\ Unsized(pos[o]) /\ nextPos \in Int
  BY DEF ManagerInv, TypeOK
<1>1. CASE pos' = pos
  BY <1>0, <1>1
<1>2. ASSUME NEW side \in OpenSides, NEW proposed \in Stops, NEW asked \in Requests,
             OpenDecision(side, proposed, asked)
      PROVE  Unsized(pos'[o])
  <2>1. PICK entry \in FillPrices :
          pos' = [pos EXCEPT ![nextPos] =
                   NewPosition(side, entry, InitialStop(side, entry, proposed), 0, asked, TRUE)]
    BY <1>2 DEF OpenDecision
  <2>2. \A x : Unsized(NewPosition(side, entry, x, 0, asked, TRUE))
    BY DEF Unsized, NewPosition
  <2> QED BY <1>0, <2>1, <2>2
<1>3. ASSUME NEW t \in Threads, AdoptPosition(t) PROVE Unsized(pos'[o])
  <2>1. \A entry : Unsized(NewPosition(exch, entry, loc[t].stop, Filled, 0, FALSE))
    BY DEF Unsized, NewPosition
  <2>2. \/ pos'[o] = pos[o]
        \/ \E entry : pos'[o] = NewPosition(exch, entry, loc[t].stop, Filled, 0, FALSE)
    BY <1>0, <1>3 DEF AdoptPosition
  <2> QED BY <1>0, <2>1, <2>2
<1>4. ASSUME NEW t \in Threads,
             PlaceInitialStopLoss(t) \/ CancelOldOrder(t) \/ PlaceNewOrder(t) \/ CancelOnClose(t)
      PROVE  Unsized(pos'[o])
  <2>1. /\ Unsized([pos[o] EXCEPT !.order = 0])
        /\ pos[o].size > 0 => \A k : Unsized([pos[o] EXCEPT !.order = k])
        /\ pos[o].size > 0 => \A k, x : Unsized([pos[o] EXCEPT !.order = k, !.stop = x])
    BY <1>0, UnsizedKept
  <2>2. CASE PlaceInitialStopLoss(t)
    <3>1. \/ pos'[o] = pos[o]
          \/ pos[o].size > 0 /\ pos'[o] = [pos[o] EXCEPT !.order = nextOrder]
      BY <1>0, <2>2 DEF PlaceInitialStopLoss, Accepts
    <3>2. pos[o].size > 0 => Unsized([pos[o] EXCEPT !.order = nextOrder])
      BY <2>1
    <3> QED BY <1>0, <3>1, <3>2
  <2>3. CASE CancelOldOrder(t)
    BY <1>0, <2>1, <2>3 DEF CancelOldOrder
  <2>4. CASE PlaceNewOrder(t)
    <3>1. \/ pos'[o] = pos[o]
          \/ /\ pos[o].size > 0
             /\ pos'[o] = [pos[o] EXCEPT !.order = nextOrder, !.stop = loc[t].stop]
      BY <1>0, <2>4 DEF PlaceNewOrder, Accepts
    <3>2. pos[o].size > 0 =>
            Unsized([pos[o] EXCEPT !.order = nextOrder, !.stop = loc[t].stop])
      BY <2>1
    <3> QED BY <1>0, <3>1, <3>2
  <2>5. CASE CancelOnClose(t)
    BY <1>0, <2>1, <2>5 DEF CancelOnClose
  <2> QED BY <1>4, <2>2, <2>3, <2>4, <2>5
<1>5. CASE SetHighest
  <2>1. Unsized([pos[o] EXCEPT !.high = loc["trail"].high])
    BY <1>0, UnsizedKept
  <2>2. pos'[o] = pos[o] \/ pos'[o] = [pos[o] EXCEPT !.high = loc["trail"].high]
    BY <1>0, <1>5 DEF SetHighest
  <2> QED BY <1>0, <2>1, <2>2
<1>6. CASE FixPosition
  <2> DEFINE n == IF pos[o].qty # Filled THEN Filled ELSE pos[o].size
  <2>2. pos'[o] = pos[o]
        \/ pos'[o] = [pos[o] EXCEPT !.side = loc["trail"].seen, !.size = n, !.qty = Filled]
    BY <1>0, <1>6 DEF FixPosition
  <2>3. pos[o].qty = Filled => n = pos[o].size
    OBVIOUS
  <2> HIDE DEF n
  <2>4. Unsized([pos[o] EXCEPT !.side = loc["trail"].seen, !.size = n, !.qty = Filled])
    BY <1>0, <2>3, UnsizedKept
  <2> QED BY <1>0, <2>2, <2>4
<1> QED BY <1>1, <1>2, <1>3, <1>4, <1>5, <1>6, PositionChanges

\* A position that the trading loop opens, and that is filled with just the
\* quantity asked for, never gets a stop order, however often the trailing
\* goroutine or a decision moves its stop: its Size stays zero, and the exchange
\* takes no order without a quantity.
THEOREM ExactFillsUnprotected ==
    ASSUME Requests = {Filled}
    PROVE  Spec => []NeverProtected
<1> DEFINE AllUnsized == \A o \in PositionIds : Unsized(pos[o])
<1>1. Init => AllUnsized
  <2>1. Unsized(NoPosition)
    BY DEF Unsized, NoPosition, NewPosition
  <2> DEFINE synced == NewPosition(exch, price, DefaultStop(exch, price), Filled, 0, FALSE)
  <2>2. Unsized(synced)
    BY DEF Unsized, NewPosition
  <2> SUFFICES ASSUME Init, NEW o \in PositionIds PROVE Unsized(pos[o])
    OBVIOUS
  <2>3. \/ pos = [q \in PositionIds |-> NoPosition]
        \/ pos = [[q \in PositionIds |-> NoPosition] EXCEPT ![1] = synced]
    BY DEF Init
  <2> HIDE DEF synced
  <2>4. pos[o] = NoPosition \/ pos[o] = synced
    BY <2>3
  <2> QED BY <2>1, <2>2, <2>4
<1>2. ManagerInv /\ AllUnsized /\ [Next]_vars => AllUnsized'
  BY UnsizedStep
<1>3. AllUnsized => NeverProtected
  BY DEF NeverProtected, Unsized
<1> HIDE DEF AllUnsized
<1> QED BY <1>1, <1>2, <1>3, Invariance, PTL DEF Spec
=============================================================================
